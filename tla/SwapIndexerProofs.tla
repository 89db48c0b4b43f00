------------------------- MODULE SwapIndexerProofs --------------------------
(***************************************************************************)
(* Proofs about module SwapIndexer.                                        *)
(***************************************************************************)
EXTENDS SwapIndexerInvariants, Arithmetic

\* The recursive functions of the model unfold: matching, booking and the
\* run of a commit.

\* MatchTransfer is the last value of such a function.
LEMMA MatchTransferIsRun ==
  ASSUME NEW h
  PROVE  MatchTransfer(h) = TransferRun(h)[Len(apprs)]
BY DEF MatchTransfer, TransferRun, MatchesTransfer

\* The function exists and unfolds.
LEMMA TransferRunUnfolds ==
  ASSUME NEW h, Len(apprs) \in Nat
  PROVE  /\ TransferRun(h)[0] = [left |-> h.bal, apprs |-> apprs, events |-> << >>]
         /\ \A k \in 1..Len(apprs) :
              TransferRun(h)[k] = ChargeApproval(TransferRun(h)[k - 1], h, k)
<1> DEFINE n == Len(apprs)
           a == [left |-> h.bal, apprs |-> apprs, events |-> << >>]
           T == {j \in 0..n : \E g : MatchesTransfer(g, h, j)}
<1>1. 0 \in T
  <2>1. MatchesTransfer([k \in 0..0 |-> a], h, 0)  BY DEF MatchesTransfer
  <2> QED BY <2>1
<1>2. ASSUME NEW j \in 1..n, j - 1 \in T PROVE j \in T
  <2>1. PICK g : MatchesTransfer(g, h, j - 1)  BY <1>2
  <2> DEFINE f == [k \in 0..j |-> IF k = j THEN ChargeApproval(g[j - 1], h, j) ELSE g[k]]
  <2>2. \A k \in 0..(j - 1) : g[k] = IF k = 0 THEN a ELSE ChargeApproval(g[k - 1], h, k)
    BY <2>1 DEF MatchesTransfer
  <2>3. \A k \in 1..j : f[k - 1] = g[k - 1]  OBVIOUS
  <2>4. ASSUME NEW k \in 0..j PROVE f[k] = IF k = 0 THEN a ELSE ChargeApproval(f[k - 1], h, k)
    <3>1. CASE k = j  BY <2>3, <3>1
    <3>2. CASE k # j  BY <2>2, <2>3, <3>2
    <3> QED BY <3>1, <3>2
  <2>5. MatchesTransfer(f, h, j)  BY <2>4 DEF MatchesTransfer
  <2> QED BY <2>5
<1>3. n \in T
  <2>1. n \in Nat  OBVIOUS
  <2> HIDE DEF n, T
  <2> QED BY <1>1, <1>2, <2>1, UpTo
<1>4. MatchesTransfer(TransferRun(h), h, n)  BY <1>3 DEF TransferRun
<1> QED BY <1>4 DEF MatchesTransfer

\* MatchApproval is the last value of such a function.
LEMMA MatchApprovalIsRun ==
  ASSUME NEW i
  PROVE  MatchApproval(i) = ApprovalRun(i)[Len(Candidates)]
BY DEF MatchApproval, ApprovalRun, MatchesApproval

\* The function exists and unfolds.
LEMMA ApprovalRunUnfolds ==
  ASSUME NEW i, Len(Candidates) \in Nat
  PROVE  /\ ApprovalRun(i)[0] = [left |-> ins[i].bal, heap |-> heap, events |-> << >>]
         /\ \A k \in 1..Len(Candidates) :
              ApprovalRun(i)[k] = SpendTransfer(ApprovalRun(i)[k - 1], i, Candidates[k])
<1> DEFINE n == Len(Candidates)
           a == [left |-> ins[i].bal, heap |-> heap, events |-> << >>]
           T == {j \in 0..n : \E g : MatchesApproval(g, i, j)}
<1>1. 0 \in T
  <2>1. MatchesApproval([k \in 0..0 |-> a], i, 0)  BY DEF MatchesApproval
  <2> QED BY <2>1
<1>2. ASSUME NEW j \in 1..n, j - 1 \in T PROVE j \in T
  <2>1. PICK g : MatchesApproval(g, i, j - 1)  BY <1>2
  <2> DEFINE f == [k \in 0..j |-> IF k = j THEN SpendTransfer(g[j - 1], i, Candidates[j]) ELSE g[k]]
  <2>2. \A k \in 0..(j - 1) : g[k] = IF k = 0 THEN a ELSE SpendTransfer(g[k - 1], i, Candidates[k])
    BY <2>1 DEF MatchesApproval
  <2>3. \A k \in 1..j : f[k - 1] = g[k - 1]  OBVIOUS
  <2>4. ASSUME NEW k \in 0..j PROVE f[k] = IF k = 0 THEN a ELSE SpendTransfer(f[k - 1], i, Candidates[k])
    <3>1. CASE k = j  BY <2>3, <3>1
    <3>2. CASE k # j  BY <2>2, <2>3, <3>2
    <3> QED BY <3>1, <3>2
  <2>5. MatchesApproval(f, i, j)  BY <2>4 DEF MatchesApproval
  <2> QED BY <2>5
<1>3. n \in T
  <2>1. n \in Nat  OBVIOUS
  <2> HIDE DEF n, T
  <2> QED BY <1>1, <1>2, <2>1, UpTo
<1>4. MatchesApproval(ApprovalRun(i), i, n)  BY <1>3 DEF ApprovalRun
<1> QED BY <1>4 DEF MatchesApproval

\* BookEvents is the last value of such a function.
LEMMA BookEventsIsRun ==
  ASSUME NEW m, NEW events
  PROVE  BookEvents(m, events) = BookRun(m, events)[Len(events)]
BY DEF BookEvents, BookRun, Books

\* The function exists and unfolds.
LEMMA BookRunUnfolds ==
  ASSUME NEW m, NEW events, Len(events) \in Nat
  PROVE  /\ BookRun(m, events)[0] = m
         /\ \A k \in 1..Len(events) :
              BookRun(m, events)[k] = BookEvent(BookRun(m, events)[k - 1], events[k])
<1> DEFINE n == Len(events)
           a == m
           T == {j \in 0..n : \E g : Books(g, m, events, j)}
<1>1. 0 \in T
  <2>1. Books([k \in 0..0 |-> a], m, events, 0)  BY DEF Books
  <2> QED BY <2>1
<1>2. ASSUME NEW j \in 1..n, j - 1 \in T PROVE j \in T
  <2>1. PICK g : Books(g, m, events, j - 1)  BY <1>2
  <2> DEFINE f == [k \in 0..j |-> IF k = j THEN BookEvent(g[j - 1], events[j]) ELSE g[k]]
  <2>2. \A k \in 0..(j - 1) : g[k] = IF k = 0 THEN a ELSE BookEvent(g[k - 1], events[k])
    BY <2>1 DEF Books
  <2>3. \A k \in 1..j : f[k - 1] = g[k - 1]  OBVIOUS
  <2>4. ASSUME NEW k \in 0..j PROVE f[k] = IF k = 0 THEN a ELSE BookEvent(f[k - 1], events[k])
    <3>1. CASE k = j  BY <2>3, <3>1
    <3>2. CASE k # j  BY <2>2, <2>3, <3>2
    <3> QED BY <3>1, <3>2
  <2>5. Books(f, m, events, j)  BY <2>4 DEF Books
  <2> QED BY <2>5
<1>3. n \in T
  <2>1. n \in Nat  OBVIOUS
  <2> HIDE DEF n, T
  <2> QED BY <1>1, <1>2, <2>1, UpTo
<1>4. Books(BookRun(m, events), m, events, n)  BY <1>3 DEF BookRun
<1> QED BY <1>4 DEF Books

\* Run is such a function.
LEMMA RunIsRun ==
  ASSUME NEW m, NEW c, NEW e
  PROVE  Run(m, c, e) = CommitRun(m, c, e)
BY DEF Run, CommitRun, Runs

\* The function exists and unfolds.
LEMMA CommitRunUnfolds ==
  ASSUME NEW m, NEW c, NEW e, Len(c.data) \in Nat
  PROVE  /\ CommitRun(m, c, e)[0] = Ok(m)
         /\ \A k \in 1..Len(c.data) :
              CommitRun(m, c, e)[k] = RunFunction(CommitRun(m, c, e)[k - 1], c.data[k], c.gas, e)
<1> DEFINE n == Len(c.data)
           a == Ok(m)
           T == {j \in 0..n : \E g : Runs(g, m, c, e, j)}
<1>1. 0 \in T
  <2>1. Runs([k \in 0..0 |-> a], m, c, e, 0)  BY DEF Runs
  <2> QED BY <2>1
<1>2. ASSUME NEW j \in 1..n, j - 1 \in T PROVE j \in T
  <2>1. PICK g : Runs(g, m, c, e, j - 1)  BY <1>2
  <2> DEFINE f == [k \in 0..j |-> IF k = j THEN RunFunction(g[j - 1], c.data[j], c.gas, e) ELSE g[k]]
  <2>2. \A k \in 0..(j - 1) : g[k] = IF k = 0 THEN a ELSE RunFunction(g[k - 1], c.data[k], c.gas, e)
    BY <2>1 DEF Runs
  <2>3. \A k \in 1..j : f[k - 1] = g[k - 1]  OBVIOUS
  <2>4. ASSUME NEW k \in 0..j PROVE f[k] = IF k = 0 THEN a ELSE RunFunction(f[k - 1], c.data[k], c.gas, e)
    <3>1. CASE k = j  BY <2>3, <3>1
    <3>2. CASE k # j  BY <2>2, <2>3, <3>2
    <3> QED BY <3>1, <3>2
  <2>5. Runs(f, m, c, e, j)  BY <2>4 DEF Runs
  <2> QED BY <2>5
<1>3. n \in T
  <2>1. n \in Nat  OBVIOUS
  <2> HIDE DEF n, T
  <2> QED BY <1>1, <1>2, <2>1, UpTo
<1>4. Runs(CommitRun(m, c, e), m, c, e, n)  BY <1>3 DEF CommitRun
<1> QED BY SMTT(60), <1>4 DEF Runs

-----------------------------------------------------------------------------
\* Types.

\* One more event.
LEMMA AmtFromAppend ==
  ASSUME NEW events \in Seq(Events), NEW e \in Events, NEW i \in Nat
  PROVE  /\ AmtFrom(events, i) \in Nat
         /\ AmtFrom(Append(events, e), i) =
              AmtFrom(events, i) + (IF e.from = i THEN e.amt ELSE 0)
<1> DEFINE more == Append(events, e)
           S == {l \in DOMAIN events : events[l].from = i}
           T == {l \in DOMAIN more : more[l].from = i}
           f == [k \in S |-> events[k].amt]
           g == [k \in T |-> more[k].amt]
           n == Len(events) + 1
<1>1. /\ DOMAIN events = 1..Len(events) /\ DOMAIN more = 1..n /\ n \in Nat
      /\ more[n] = e /\ \A k \in 1..Len(events) : more[k] = events[k]
      /\ Len(events) \in Nat
  OBVIOUS
<1>2. IsFiniteSet(S) /\ IsFiniteSet(T)
  <2>1. S \subseteq 1..Len(events) /\ T \subseteq 1..n  BY <1>1
  <2>2. IsFiniteSet(1..Len(events)) /\ IsFiniteSet(1..n)
    <3>1. 1 \in Int /\ Len(events) \in Int /\ n \in Int  BY <1>1
    <3> HIDE DEF n
    <3> QED BY ONLY <3>1, FS_Interval
  <2> HIDE DEF S, T, n
  <2> QED BY <2>1, <2>2, FS_Subset
<1>3. \A k \in S : f[k] \in Nat
  <2>1. \A k \in DOMAIN events : events[k] \in Events  OBVIOUS
  <2>2. \A k \in DOMAIN events : events[k].amt \in Nat  BY <2>1 DEF Events
  <2> QED BY <2>2
<1>4. SumFunctionOnSet(f, S) \in Nat
  <2> HIDE DEF f, S
  <2> QED BY <1>2, <1>3, SumNat
<1>5. CASE e.from = i
  <2>1. e.amt \in Nat  BY DEF Events
  <2>2. T = S \cup {n} /\ n \notin S /\ n \in T /\ T \ {n} = S  BY <1>1, <1>5
  <2>3. (\A k \in T : g[k] \in Int) /\ g[n] = e.amt /\ \A k \in S : g[k] = f[k]
    <3>1. g[n] = more[n].amt /\ \A k \in S : g[k] = more[k].amt  BY <2>2
    <3>2. \A k \in S : more[k] = events[k] /\ f[k] = events[k].amt  BY <1>1
    <3> HIDE DEF g, f, S, T, n, more
    <3>3. g[n] = e.amt /\ \A k \in S : g[k] = f[k]  BY <1>1, <3>1, <3>2
    <3> QED BY <1>3, <2>1, <2>2, <3>3
  <2>4. SumFunctionOnSet(g, T) = g[n] + SumFunctionOnSet(g, T \ {n})
    <3> HIDE DEF g, T, n, f, S, more
    <3> QED BY SMTT(60), <1>2, <2>2, <2>3, SumRemove
  <2>5. SumFunctionOnSet(g, S) = SumFunctionOnSet(f, S)
    <3> HIDE DEF g, f, S
    <3> QED BY <1>2, <2>3, SumAgrees
  <2>6. AmtFrom(more, i) = SumFunctionOnSet(g, T) /\ AmtFrom(events, i) = SumFunctionOnSet(f, S)
    BY DEF AmtFrom
  <2> HIDE DEF f, g, S, T, n
  <2>7. AmtFrom(more, i) = e.amt + AmtFrom(events, i)  BY <2>2, <2>3, <2>4, <2>5, <2>6
  <2> HIDE DEF more
  <2>8. AmtFrom(events, i) \in Nat /\ AmtFrom(more, i) = AmtFrom(events, i) + e.amt
    BY <1>4, <2>6, <2>1, <2>7
  <2> QED BY <1>5, <2>8 DEF more
<1>6. CASE e.from # i
  <2>1. T = S  BY <1>1, <1>6
  <2>2. \A k \in S : g[k] = f[k]  BY <1>1, <2>1
  <2>3. SumFunctionOnSet(g, S) = SumFunctionOnSet(f, S)
    <3> HIDE DEF g, f, S
    <3> QED BY <1>2, <2>2, SumAgrees
  <2>4. AmtFrom(more, i) = SumFunctionOnSet(g, T) /\ AmtFrom(events, i) = SumFunctionOnSet(f, S)
    BY DEF AmtFrom
  <2> HIDE DEF f, g, S, T, n, more
  <2> QED BY <1>4, <1>6, <2>1, <2>3, <2>4 DEF more
<1> QED BY <1>5, <1>6

-----------------------------------------------------------------------------
\* A transfer against the waiting approvals.

\* One approval more.
LEMMA ChargeStep ==
  ASSUME apprs \in Seq(ApproveStates), WaitOnce, NEW h \in TransferStates, NEW r,
         NEW k \in 1..Len(apprs), TransferMatched(h, r, k - 1)
  PROVE  TransferMatched(h, ChargeApproval(r, h, k), k)
<1> DEFINE a == r.apprs[k]
           got == IF a.bal <= r.left THEN a.bal ELSE r.left
           e == Event(a.i, h.from, got, a.bal - got, h.ins)
           skips == \/ ins[a.i].tick # h.tick \/ ins[a.i].owner # h.to
                    \/ a.bal = 0 \/ r.left = 0
           c == ChargeApproval(r, h, k)
           more == Append(r.events, e)
           less == [r.apprs EXCEPT ![k].bal = @ - got]
<1>1. /\ r.left \in Nat /\ r.apprs \in Seq(ApproveStates) /\ r.events \in Seq(Events)
      /\ Len(r.apprs) = Len(apprs) /\ Len(apprs) \in Nat /\ Len(r.events) \in Nat
      /\ DOMAIN apprs = 1..Len(apprs)
  BY DEF TransferMatched
<1>2. /\ a \in ApproveStates /\ a.i \in Nat /\ a.bal \in Nat
      /\ a.i = apprs[k].i /\ a.bal = apprs[k].bal
  <2>1. a \in ApproveStates  BY <1>1
  <2> HIDE DEF a
  <2>2. a.i \in Nat /\ a.bal \in Nat  BY <2>1 DEF ApproveStates
  <2>3. a.i = apprs[k].i /\ a.bal = apprs[k].bal  BY DEF TransferMatched, a
  <2> QED BY <2>1, <2>2, <2>3
<1>3. CASE skips
  <2>1. c = r  BY <1>3 DEF ChargeApproval
  <2>2. TransferMatched(h, r, k)
    <3>1. \A q \in 1..(k - 1) : q \in 1..k  OBVIOUS
    <3>2. \A q \in 1..Len(apprs) : q > k => q > k - 1  OBVIOUS
    <3> QED BY <1>1, <3>1, <3>2 DEF TransferMatched
  <2> QED BY <2>1, <2>2
<1>4. CASE ~skips
  <2>1. c = [left |-> r.left - got, apprs |-> less, events |-> more]  BY <1>4 DEF ChargeApproval
  <2>2. got \in Nat /\ got <= a.bal /\ got <= r.left  BY <1>1, <1>2
  <2>3. /\ e \in Events /\ e.i = a.i /\ e.to = h.from /\ e.amt = got
        /\ e.rest = a.bal - got /\ e.from = h.ins
    <3>1. h.from \in Users /\ h.ins \in Nat  BY DEF TransferStates
    <3> HIDE DEF a, got
    <3> QED BY <1>2, <2>2, <3>1 DEF Event, Events
  <2>4. /\ less \in Seq(ApproveStates) /\ Len(less) = Len(apprs)
        /\ \A q \in 1..Len(apprs) : less[q].i = r.apprs[q].i
        /\ \A q \in 1..Len(apprs) : q # k => less[q].bal = r.apprs[q].bal
        /\ less[k].bal = a.bal - got
    <3> HIDE DEF got
    <3>1. Len(less) = Len(apprs) /\ DOMAIN less = 1..Len(apprs)  BY <1>1
    <3>2. \A q \in 1..Len(apprs) : r.apprs[q] \in ApproveStates  BY <1>1
    <3>3. \A q \in 1..Len(apprs) : q # k => less[q] = r.apprs[q]  BY <1>1
    <3>4. less[k] = [r.apprs[k] EXCEPT !.bal = @ - got]  BY <1>1
    <3>5. less[k] \in ApproveStates /\ less[k].bal = a.bal - got /\ less[k].i = a.i
      <4>1. a.bal - got \in Nat  BY <1>2, <2>2
      <4> QED BY <1>2, <3>4, <4>1 DEF ApproveStates
    <3>6. less \in Seq(ApproveStates)  BY <1>1, <3>1, <3>2, <3>3, <3>5
    <3> QED BY <3>1, <3>3, <3>5, <3>6
  <2>5. /\ more \in Seq(Events) /\ Len(more) = Len(r.events) + 1 /\ more[Len(r.events) + 1] = e
        /\ \A b \in 1..Len(r.events) : more[b] = r.events[b]
    <3> HIDE DEF e
    <3> QED BY <1>1, <2>3
  <2>6. \A b \in 1..Len(r.events) : r.events[b].i # a.i
    <3> TAKE b \in 1..Len(r.events)
    <3>1. PICK q \in 1..(k - 1) : q \in 1..Len(apprs) /\ r.events[b].i = apprs[q].i
      BY DEF TransferMatched
    <3> QED BY SMTT(60), <1>1, <1>2, <3>1 DEF WaitOnce
  <2>7. AmtFrom(more, h.ins) + (r.left - got) = h.bal
    <3>1. h.ins \in Nat /\ h.bal \in Nat  BY DEF TransferStates
    <3>2. AmtFrom(r.events, h.ins) \in Nat /\ AmtFrom(more, h.ins) = AmtFrom(r.events, h.ins) + got
      <4> HIDE DEF e, got
      <4>1. /\ AmtFrom(r.events, h.ins) \in Nat
            /\ AmtFrom(more, h.ins) =
                 AmtFrom(r.events, h.ins) + (IF e.from = h.ins THEN e.amt ELSE 0)
        BY <1>1, <2>3, <3>1, AmtFromAppend
      <4> QED BY <2>3, <4>1
    <3>3. AmtFrom(r.events, h.ins) + r.left = h.bal  BY DEF TransferMatched
    <3> HIDE DEF got, more
    <3> QED BY <1>1, <2>2, <3>1, <3>2, <3>3
  <2> HIDE DEF less, more, e, got, a, skips
  <2>8. \A q \in 1..Len(apprs) :
          /\ less[q].i = apprs[q].i
          /\ q > k => less[q].bal = apprs[q].bal
          /\ (\A b \in 1..Len(more) : more[b].i # apprs[q].i) => less[q].bal = apprs[q].bal
    <3> TAKE q \in 1..Len(apprs)
    <3>1. less[q].i = apprs[q].i  BY <2>4 DEF TransferMatched
    <3>2. ASSUME q > k PROVE less[q].bal = apprs[q].bal  BY <2>4, <3>2 DEF TransferMatched
    <3>3. ASSUME \A b \in 1..Len(more) : more[b].i # apprs[q].i
          PROVE  less[q].bal = apprs[q].bal
      <4>1. q # k  BY SMTT(60), <1>1, <1>2, <2>3, <2>5, <3>3
      <4>2. \A b \in 1..Len(r.events) : r.events[b].i # apprs[q].i
        <5>1. \A b \in 1..Len(r.events) : b \in 1..Len(more)  BY <1>1, <2>5
        <5> QED BY <2>5, <3>3, <5>1
      <4> QED BY <2>4, <4>1, <4>2 DEF TransferMatched
    <3> QED BY <3>1, <3>2, <3>3
  <2>9. \A b \in 1..Len(more) :
          /\ more[b].from = h.ins /\ more[b].to = h.from
          /\ \E q \in 1..k : /\ q \in 1..Len(apprs) /\ more[b].i = apprs[q].i
                            /\ more[b].rest = less[q].bal
                            /\ more[b].rest = apprs[q].bal - more[b].amt
    <3> TAKE b \in 1..Len(more)
    <3>1. CASE b = Len(r.events) + 1
      <4>1. more[b] = e  BY <2>5, <3>1
      <4>2. k \in 1..k /\ k \in 1..Len(apprs)  OBVIOUS
      <4> QED BY <1>2, <2>3, <2>4, <4>1, <4>2
    <3>2. CASE b # Len(r.events) + 1
      <4>1. b \in 1..Len(r.events) /\ more[b] = r.events[b]  BY <1>1, <2>5, <3>2
      <4>2. PICK q \in 1..(k - 1) : /\ q \in 1..Len(apprs) /\ r.events[b].i = apprs[q].i
                                   /\ r.events[b].rest = r.apprs[q].bal
                                   /\ r.events[b].rest = apprs[q].bal - r.events[b].amt
        BY <4>1 DEF TransferMatched
      <4>3. q \in 1..k /\ q # k  BY <1>1, <4>2
      <4>4. less[q].bal = r.apprs[q].bal  BY <2>4, <4>2, <4>3
      <4>5. r.events[b].from = h.ins /\ r.events[b].to = h.from  BY <4>1 DEF TransferMatched
      <4> QED BY <4>1, <4>2, <4>3, <4>4, <4>5
    <3> QED BY <3>1, <3>2
  <2>10. \A b, d \in 1..Len(more) : more[b].i = more[d].i => b = d
    <3>1. \A b \in 1..Len(more) : b = Len(r.events) + 1 \/ b \in 1..Len(r.events)  BY <1>1, <2>5
    <3>2. \A b, d \in 1..Len(r.events) : r.events[b].i = r.events[d].i => b = d
      BY DEF TransferMatched
    <3> QED BY SMTT(60), <2>3, <2>5, <2>6, <3>1, <3>2
  <2>11. c.left = r.left - got /\ c.apprs = less /\ c.events = more /\ r.left - got \in Nat
    BY <1>1, <2>1, <2>2
  <2> HIDE DEF c
  <2>12. TransferMatched(h, c, k)  BY <2>4, <2>5, <2>7, <2>8, <2>9, <2>10, <2>11 DEF TransferMatched
  <2> QED BY <2>12 DEF c
<1> QED BY <1>3, <1>4

\* What MatchTransfer computes.
LEMMA TransferIsMatched ==
  ASSUME apprs \in Seq(ApproveStates), WaitOnce, NEW h \in TransferStates
  PROVE  TransferMatched(h, MatchTransfer(h), Len(apprs))
<1> DEFINE n == Len(apprs)
           R == TransferRun(h)
           T == {k \in 0..n : TransferMatched(h, R[k], k)}
<1>1. n \in Nat  OBVIOUS
<1>2. /\ R[0] = [left |-> h.bal, apprs |-> apprs, events |-> << >>]
      /\ \A k \in 1..n : R[k] = ChargeApproval(R[k - 1], h, k)
  BY <1>1, TransferRunUnfolds
<1>3. TransferMatched(h, R[0], 0)
  <2>1. h.bal \in Nat  BY DEF TransferStates
  <2>2. AmtFrom(<< >>, h.ins) = 0
    <3> DEFINE S == {l \in DOMAIN << >> : << >>[l].from = h.ins}
    <3>1. S = {}  OBVIOUS
    <3> QED BY <3>1, SumEmpty DEF AmtFrom
  <2> HIDE DEF R
  <2>3. R[0].left = h.bal /\ R[0].apprs = apprs /\ R[0].events = << >>  BY <1>2
  <2>4. << >> \in Seq(Events) /\ Len(<< >>) = 0  OBVIOUS
  <2> QED BY <2>1, <2>2, <2>3, <2>4 DEF TransferMatched
<1>4. ASSUME NEW j \in 1..n, j - 1 \in T PROVE j \in T
  <2>1. TransferMatched(h, R[j - 1], j - 1)  BY <1>4
  <2>2. TransferMatched(h, R[j], j)
    <3> HIDE DEF R
    <3> QED BY <1>2, <2>1, ChargeStep
  <2> QED BY <2>2
<1>5. TransferMatched(h, R[n], n)
  <2>1. 0 \in T  BY <1>1, <1>3
  <2>2. n \in T
    <3> HIDE DEF n, T
    <3> QED BY <1>1, <1>4, <2>1, UpTo
  <2> QED BY <2>2
<1> QED BY <1>5, MatchTransferIsRun

-----------------------------------------------------------------------------
\* An approval against the transfers of the transaction.

\* One candidate more.
LEMMA SpendStep ==
  ASSUME heap \in Seq(TransferStates), CandidatesDiffer, NEW i \in Nat, NEW r,
         NEW k \in 1..Len(Candidates), ApprovalMatched(i, r)
  PROVE  ApprovalMatched(i, SpendTransfer(r, i, Candidates[k]))
<1> DEFINE q == Candidates[k]
           h == r.heap[q]
           got == IF h.bal <= r.left THEN h.bal ELSE r.left
           e == Event(i, h.from, got, r.left - got, h.ins)
           skips == \/ r.left = 0 \/ h.tick # ins[i].tick
                    \/ h.to # ins[i].owner \/ h.bal = 0
           c == SpendTransfer(r, i, q)
           more == Append(r.events, e)
           less == [r.heap EXCEPT ![q].bal = @ - got]
           n == Len(r.events)
<1>1. /\ r.left \in Nat /\ r.heap \in Seq(TransferStates) /\ r.events \in Seq(Events)
      /\ Len(r.heap) = Len(heap) /\ Len(heap) \in Nat /\ n \in Nat
      /\ Len(Candidates) \in Nat /\ DOMAIN Candidates = 1..Len(Candidates)
  BY SMTT(60) DEF ApprovalMatched, CandidatesDiffer
<1>2. q \in 1..Len(heap)  BY <1>1 DEF CandidatesDiffer
<1> HIDE DEF q
<1>3. /\ h \in TransferStates /\ h.bal \in Nat /\ h.ins \in Nat /\ h.from \in Users
      /\ h.ins = heap[q].ins
  <2>1. h \in TransferStates  BY <1>1, <1>2
  <2> HIDE DEF h
  <2>2. h.bal \in Nat /\ h.ins \in Nat /\ h.from \in Users  BY <2>1 DEF TransferStates
  <2>3. h.ins = heap[q].ins  BY <1>2 DEF ApprovalMatched, h
  <2> QED BY <2>1, <2>2, <2>3
<1>4. CASE skips
  <2>1. c = r  BY <1>4 DEF SpendTransfer
  <2> QED BY <2>1 DEF q
<1>5. CASE ~skips
  <2>1. c = [left |-> r.left - got, heap |-> less, events |-> more]  BY <1>5 DEF SpendTransfer
  <2>2. got \in Nat /\ got <= h.bal /\ got <= r.left  BY <1>1, <1>3
  <2>3. /\ e \in Events /\ e.i = i /\ e.amt = got
        /\ e.rest = r.left - got /\ e.from = h.ins
    <3> HIDE DEF h, got
    <3> QED BY <1>1, <1>3, <2>2 DEF Event, Events
  <2>4. /\ less \in Seq(TransferStates) /\ Len(less) = Len(heap)
        /\ \A p \in 1..Len(heap) : less[p].ins = r.heap[p].ins
        /\ \A p \in 1..Len(heap) : p # q => less[p].bal = r.heap[p].bal
        /\ less[q].bal = h.bal - got
    <3> HIDE DEF got
    <3>1. Len(less) = Len(heap) /\ DOMAIN less = 1..Len(heap)  BY <1>1
    <3>2. \A p \in 1..Len(heap) : r.heap[p] \in TransferStates  BY <1>1
    <3>3. \A p \in 1..Len(heap) : p # q => less[p] = r.heap[p]  BY <1>1
    <3>4. less[q] = [r.heap[q] EXCEPT !.bal = @ - got]  BY <1>1, <1>2
    <3>5. less[q] \in TransferStates /\ less[q].bal = h.bal - got /\ less[q].ins = h.ins
      <4>1. h.bal - got \in Nat  BY <1>3, <2>2
      <4> QED BY <1>3, <3>4, <4>1 DEF TransferStates
    <3>6. less \in Seq(TransferStates)
      <4>1. \A p \in 1..Len(heap) : less[p] \in TransferStates  BY <3>2, <3>3, <3>5
      <4>2. less = [p \in 1..Len(heap) |-> less[p]]  BY <1>1, <3>1
      <4> HIDE DEF less
      <4> QED BY <1>1, <4>1, <4>2
    <3> QED BY <3>1, <3>3, <3>5, <3>6
  <2>5. /\ more \in Seq(Events) /\ Len(more) = n + 1 /\ more[n + 1] = e
        /\ \A b \in 1..n : more[b] = r.events[b]
    <3> HIDE DEF e
    <3> QED BY <1>1, <2>3
  <2>6. \A j \in Nat : /\ AmtFrom(r.events, j) \in Nat
                       /\ h.ins = j => AmtFrom(more, j) = AmtFrom(r.events, j) + got
                       /\ h.ins # j => AmtFrom(more, j) = AmtFrom(r.events, j)
    <3> HIDE DEF e, got, h
    <3> TAKE j \in Nat
    <3>1. /\ AmtFrom(r.events, j) \in Nat
          /\ AmtFrom(more, j) = AmtFrom(r.events, j) + (IF e.from = j THEN e.amt ELSE 0)
      BY <1>1, <2>3, AmtFromAppend
    <3> QED BY <2>3, <3>1
  <2> HIDE DEF less, more, e, got, skips, h
  <2>7. \A l \in 1..Len(Candidates) :
          less[Candidates[l]].bal + AmtFrom(more, heap[Candidates[l]].ins) = heap[Candidates[l]].bal
    <3> TAKE l \in 1..Len(Candidates)
    <3> DEFINE p == Candidates[l]
    <3>1. p \in 1..Len(heap)  BY <1>1 DEF CandidatesDiffer
    <3>2. heap[p].ins \in Nat /\ r.heap[p].bal \in Nat
      <4>1. heap[p] \in TransferStates /\ r.heap[p] \in TransferStates  BY <1>1, <3>1
      <4> QED BY <4>1 DEF TransferStates
    <3>3. r.heap[p].bal + AmtFrom(r.events, heap[p].ins) = heap[p].bal  BY DEF ApprovalMatched
    <3> HIDE DEF p
    <3>4. AmtFrom(r.events, heap[p].ins) \in Nat  BY <2>6, <3>2
    <3>5. CASE l = k
      <4>1. p = q  BY <3>5 DEF p, q
      <4>2. less[p].bal = r.heap[p].bal - got  BY <2>4, <4>1 DEF h
      <4>3. AmtFrom(more, heap[p].ins) = AmtFrom(r.events, heap[p].ins) + got
        BY <1>3, <2>6, <3>2, <4>1
      <4>4. less[p].bal + AmtFrom(more, heap[p].ins) = heap[p].bal
        BY <2>2, <3>2, <3>3, <3>4, <4>2, <4>3
      <4> QED BY <4>4 DEF p
    <3>6. CASE l # k
      <4>1. heap[p].ins # heap[q].ins  BY <1>1, <3>6 DEF CandidatesDiffer, p, q
      <4>2. less[p].bal = r.heap[p].bal  BY <2>4, <3>1, <4>1
      <4>3. AmtFrom(more, heap[p].ins) = AmtFrom(r.events, heap[p].ins)
        BY <1>3, <2>6, <3>2, <3>4, <4>1
      <4>4. less[p].bal + AmtFrom(more, heap[p].ins) = heap[p].bal  BY <3>3, <4>2, <4>3
      <4> QED BY <4>4 DEF p
    <3> QED BY <3>5, <3>6
  <2>8. ASSUME NEW j \in Nat, \A l \in 1..Len(Candidates) : heap[Candidates[l]].ins # j
        PROVE  AmtFrom(more, j) = 0
    <3>1. AmtFrom(r.events, j) = 0  BY <2>8 DEF ApprovalMatched
    <3>2. h.ins # j  BY <1>3, <2>8 DEF q
    <3> QED BY <2>6, <3>1, <3>2
  <2>9. \A a \in 1..Len(more) :
          /\ more[a].i = i
          /\ more[a].rest = (IF a = 1 THEN ins[i].bal ELSE more[a - 1].rest) - more[a].amt
    <3> TAKE a \in 1..Len(more)
    <3>1. CASE a = n + 1
      <4>1. more[a] = e  BY <2>5, <3>1
      <4>2. r.left = IF a = 1 THEN ins[i].bal ELSE more[a - 1].rest
        <5>1. r.left = IF n = 0 THEN ins[i].bal ELSE r.events[n].rest  BY DEF ApprovalMatched
        <5>2. CASE n = 0  BY <3>1, <5>1, <5>2
        <5>3. CASE n # 0
          <6>1. a - 1 = n /\ a # 1 /\ n \in 1..n  BY <1>1, <3>1, <5>3
          <6> QED BY <2>5, <5>1, <5>3, <6>1
        <5> QED BY <5>2, <5>3
      <4> QED BY <2>3, <4>1, <4>2
    <3>2. CASE a # n + 1
      <4>1. a \in 1..n /\ more[a] = r.events[a]  BY <1>1, <2>5, <3>2
      <4>2. a # 1 => a - 1 \in 1..n /\ more[a - 1] = r.events[a - 1]  BY <1>1, <2>5, <4>1
      <4>3. /\ r.events[a].i = i
            /\ r.events[a].rest = (IF a = 1 THEN ins[i].bal ELSE r.events[a - 1].rest) - r.events[a].amt
        BY <4>1 DEF ApprovalMatched
      <4> QED BY <4>1, <4>2, <4>3
    <3> QED BY <3>1, <3>2
  <2>10. /\ c.left = r.left - got /\ c.heap = less /\ c.events = more /\ r.left - got \in Nat
         /\ r.left - got = more[Len(more)].rest /\ Len(more) # 0
    BY <1>1, <2>1, <2>2, <2>3, <2>5
  <2>11. \A p \in 1..Len(heap) : less[p].ins = heap[p].ins  BY <2>4 DEF ApprovalMatched
  <2> HIDE DEF c
  <2>12. ApprovalMatched(i, c)  BY <2>4, <2>5, <2>7, <2>8, <2>9, <2>10, <2>11 DEF ApprovalMatched
  <2> QED BY <2>12 DEF c, q
<1> QED BY <1>4, <1>5

\* What MatchApproval computes.
LEMMA ApprovalIsMatched ==
  ASSUME heap \in Seq(TransferStates), CandidatesDiffer, NEW i \in Nat, ins[i].bal \in Nat
  PROVE  ApprovalMatched(i, MatchApproval(i))
<1> DEFINE n == Len(Candidates)
           R == ApprovalRun(i)
           T == {k \in 0..n : ApprovalMatched(i, R[k])}
<1>1. n \in Nat  BY DEF CandidatesDiffer
<1>2. /\ R[0] = [left |-> ins[i].bal, heap |-> heap, events |-> << >>]
      /\ \A k \in 1..n : R[k] = SpendTransfer(R[k - 1], i, Candidates[k])
  BY <1>1, ApprovalRunUnfolds
<1>3. ApprovalMatched(i, R[0])
  <2>1. \A j : AmtFrom(<< >>, j) = 0
    <3> TAKE j
    <3> DEFINE S == {l \in DOMAIN << >> : << >>[l].from = j}
    <3>1. S = {}  OBVIOUS
    <3> QED BY <3>1, SumEmpty DEF AmtFrom
  <2> HIDE DEF R
  <2>2. R[0].left = ins[i].bal /\ R[0].heap = heap /\ R[0].events = << >>  BY <1>2
  <2>3. << >> \in Seq(Events) /\ Len(<< >>) = 0  OBVIOUS
  <2>4. \A l \in 1..Len(Candidates) : heap[Candidates[l]].bal \in Nat
    <3> TAKE l \in 1..Len(Candidates)
    <3>1. Candidates[l] \in 1..Len(heap)  BY DEF CandidatesDiffer
    <3> HIDE DEF n
    <3>2. heap[Candidates[l]] \in TransferStates  BY <3>1
    <3> QED BY <3>2 DEF TransferStates
  <2> QED BY <2>1, <2>2, <2>3, <2>4 DEF ApprovalMatched
<1>4. ASSUME NEW j \in 1..n, j - 1 \in T PROVE j \in T
  <2>1. ApprovalMatched(i, R[j - 1])  BY <1>4
  <2>2. ApprovalMatched(i, R[j])
    <3> HIDE DEF R
    <3> QED BY <1>2, <2>1, SpendStep
  <2> QED BY <2>2
<1>5. ApprovalMatched(i, R[n])
  <2>1. 0 \in T  BY <1>1, <1>3
  <2>2. n \in T
    <3> HIDE DEF n, T
    <3> QED BY <1>1, <1>4, <2>1, UpTo
  <2> QED BY <2>2
<1> QED BY <1>5, MatchApprovalIsRun

-----------------------------------------------------------------------------
\* Booking: what the events do to the balances of the module.

\* One event, field by field.
LEMMA BookEventFields ==
  ASSUME NEW m \in Modules, NEW e \in Events, ins[e.i] \in Inscriptions
  PROVE  LET n == BookEvent(m, e)  o == ins[e.i].owner  s == ins[e.i].tick
         IN  /\ n \in Modules /\ KeepsPools(m, n) /\ KeepsChain(m, n)
             /\ n.avail = m.avail /\ n.appr = m.appr /\ n.ready = m.ready
             /\ n.dep = m.dep /\ n.newAppr = m.newAppr
             /\ \A u \in Users, t \in Ticks :
                  /\ n.cond[u][t] = m.cond[u][t] - (IF u = o /\ t = s THEN e.amt ELSE 0)
                  /\ n.swap[u][t] = m.swap[u][t] + (IF u = e.to /\ t = s THEN e.amt ELSE 0)
             /\ \A t \in Ticks : n.cancel[t] + n.okAppr[t]
                                 = m.cancel[t] + m.okAppr[t] + (IF t = s THEN e.amt ELSE 0)
<1> DEFINE n == BookEvent(m, e)
           o == ins[e.i].owner
           s == ins[e.i].tick
           cond == [m.cond EXCEPT ![o][s] = @ - e.amt]
           swap == [m.swap EXCEPT ![e.to][s] = @ + e.amt]
           cancel == [m.cancel EXCEPT ![s] = IF o = e.to THEN @ + e.amt ELSE @]
           okAppr == [m.okAppr EXCEPT ![s] = IF o = e.to THEN @ ELSE @ + e.amt]
<1>1. o \in Users /\ s \in Ticks  BY DEF Inscriptions
<1>2. e.amt \in Nat /\ e.to \in Users  BY DEF Events
<1>3. n = [m EXCEPT !.cond = cond, !.swap = swap, !.cancel = cancel, !.okAppr = okAppr]
  BY DEF BookEvent
<1>4. m.cond \in Balances /\ m.swap \in Balances /\ m.cancel \in Totals /\ m.okAppr \in Totals
  BY DEF Modules
<1> HIDE DEF n, o, s
<1>5. /\ cond \in Balances /\ swap \in Balances /\ cancel \in Totals /\ okAppr \in Totals
  BY <1>1, <1>2, <1>4 DEF Balances, Totals
<1>6. \A u \in Users, t \in Ticks :
        /\ cond[u][t] = m.cond[u][t] - (IF u = o /\ t = s THEN e.amt ELSE 0)
        /\ swap[u][t] = m.swap[u][t] + (IF u = e.to /\ t = s THEN e.amt ELSE 0)
  BY <1>1, <1>2, <1>4 DEF Balances
<1>7. \A t \in Ticks : cancel[t] + okAppr[t]
                         = m.cancel[t] + m.okAppr[t] + (IF t = s THEN e.amt ELSE 0)
  BY <1>1, <1>2, <1>4 DEF Totals
<1> HIDE DEF cond, swap, cancel, okAppr
<1>8. n \in Modules  BY <1>3, <1>5 DEF Modules
<1>9. n.cond = cond /\ n.swap = swap /\ n.cancel = cancel /\ n.okAppr = okAppr  BY <1>3 DEF Modules
<1>10. /\ KeepsPools(m, n) /\ KeepsChain(m, n)
       /\ n.avail = m.avail /\ n.appr = m.appr /\ n.ready = m.ready
       /\ n.dep = m.dep /\ n.newAppr = m.newAppr
  BY <1>3 DEF Modules, KeepsPools, KeepsChain
<1> QED BY <1>6, <1>7, <1>8, <1>9, <1>10 DEF n, o, s

\* It is what the last of them left it.
LEMMA RestAfterStep ==
  ASSUME NEW events, NEW k \in Nat, NEW j
  PROVE  /\ RestAfter(events, 0, j) = ins[j].bal
         /\ k > 0 /\ events[k].i = j => RestAfter(events, k, j) = events[k].rest
         /\ k > 0 /\ events[k].i # j => RestAfter(events, k, j) = RestAfter(events, k - 1, j)
<1>1. RestAfter(events, 0, j) = ins[j].bal
  <2>1. Charges(events, 0, j) = {}  BY DEF Charges
  <2> QED BY <2>1 DEF RestAfter
<1>2. ASSUME k > 0, events[k].i = j PROVE RestAfter(events, k, j) = events[k].rest
  <2> DEFINE S == Charges(events, k, j)
  <2>1. k \in S /\ \A l \in S : l \in 1..k /\ l <= k  BY <1>2 DEF Charges
  <2> HIDE DEF S
  <2>2. LastOf(S) \in S /\ \A l \in S : l <= LastOf(S)
    <3> DEFINE Last(q) == \A l \in S : l <= q
    <3>1. k \in S /\ Last(k)  BY <2>1
    <3>2. LastOf(S) = CHOOSE q \in S : Last(q)  BY DEF LastOf
    <3> HIDE DEF Last
    <3>3. LastOf(S) \in S /\ Last(LastOf(S))  BY <3>1, <3>2
    <3> QED BY <3>3 DEF Last
  <2>3. LastOf(S) = k
    <3>1. LastOf(S) \in 1..k /\ k <= LastOf(S)  BY <2>1, <2>2
    <3> QED BY <3>1
  <2> QED BY <2>1, <2>3 DEF RestAfter, S
<1>3. ASSUME k > 0, events[k].i # j
      PROVE  RestAfter(events, k, j) = RestAfter(events, k - 1, j)
  <2>1. Charges(events, k, j) = Charges(events, k - 1, j)
    <3>1. \A q \in 1..k : events[q].i = j => q # k  BY <1>3
    <3>2. \A q \in 1..k : q # k => q \in 1..(k - 1)  OBVIOUS
    <3>3. \A q \in 1..(k - 1) : q \in 1..k  OBVIOUS
    <3> QED BY <3>1, <3>2, <3>3 DEF Charges
  <2> QED BY <2>1 DEF RestAfter
<1> QED BY <1>1, <1>2, <1>3

\* The inscriptions of an owner are finitely many.
LEMMA PendingFinite ==
  ASSUME ins \in Seq(Inscriptions), NEW kind, NEW u, NEW t
  PROVE  IsFiniteSet(Pending(kind, u, t)) /\ Pending(kind, u, t) \subseteq DOMAIN ins
<1>1. Len(ins) \in Nat /\ DOMAIN ins = 1..Len(ins)  OBVIOUS
<1>2. IsFiniteSet(1..Len(ins))  BY <1>1, FS_Interval
<1>3. Pending(kind, u, t) \subseteq DOMAIN ins  BY DEF Pending
<1> QED BY <1>1, <1>2, <1>3, FS_Subset

\* One event more.
LEMMA BookedStep ==
  ASSUME ins \in Seq(Inscriptions), NEW m \in Modules, NEW n, NEW events, Sound(events),
         NEW k \in 1..Len(events), Booked(m, n, events, k - 1)
  PROVE  Booked(m, BookEvent(n, events[k]), events, k)
<1> DEFINE e == events[k]
           o == ins[e.i].owner
           s == ins[e.i].tick
           b == BookEvent(n, e)
<1>1. n \in Modules /\ e \in Events /\ Len(events) \in Nat /\ k \in Nat /\ k > 0
  BY DEF Booked, Sound
<1>2. /\ e.i \in DOMAIN ins /\ ins[e.i].kind = "cond" /\ ins[e.i].pending
      /\ e.rest = RestAfter(events, k - 1, e.i) - e.amt
  BY DEF Sound
<1>3. /\ ins[e.i] \in Inscriptions /\ o \in Users /\ s \in Ticks
      /\ e.amt \in Nat /\ e.to \in Users /\ e.rest \in Nat
  <2>1. ins[e.i] \in Inscriptions  BY <1>2
  <2>2. o \in Users /\ s \in Ticks  BY <2>1 DEF Inscriptions
  <2> QED BY <1>1, <2>1, <2>2 DEF Events
<1> HIDE DEF e
<1>4. /\ b \in Modules /\ KeepsPools(n, b) /\ KeepsChain(n, b)
      /\ b.avail = n.avail /\ b.appr = n.appr /\ b.ready = n.ready
      /\ b.dep = n.dep /\ b.newAppr = n.newAppr
      /\ \A u \in Users, t \in Ticks :
           /\ b.cond[u][t] = n.cond[u][t] - (IF u = o /\ t = s THEN e.amt ELSE 0)
           /\ b.swap[u][t] = n.swap[u][t] + (IF u = e.to /\ t = s THEN e.amt ELSE 0)
      /\ \A t \in Ticks : b.cancel[t] + b.okAppr[t]
                             = n.cancel[t] + n.okAppr[t] + (IF t = s THEN e.amt ELSE 0)
  BY <1>1, <1>3, BookEventFields
<1> HIDE DEF b, o, s
<1>5. /\ KeepsPools(m, b) /\ KeepsChain(m, b)
      /\ b.avail = m.avail /\ b.appr = m.appr /\ b.ready = m.ready
      /\ b.dep = m.dep /\ b.newAppr = m.newAppr
  BY <1>4 DEF Booked, KeepsPools, KeepsChain
<1>6. \A u \in Users, t \in Ticks :
        /\ n.cond[u][t] \in Int /\ n.swap[u][t] \in Int
        /\ n.avail[u][t] \in Int /\ n.appr[u][t] \in Int
  BY <1>1 DEF Modules, Balances
<1>7. \A t \in Ticks : n.cancel[t] \in Int /\ n.okAppr[t] \in Int  BY <1>1 DEF Modules, Totals
<1>8. \A j \in DOMAIN ins : RestAfter(events, k, j) =
                              IF j = e.i THEN e.rest ELSE RestAfter(events, k - 1, j)
  BY <1>1, RestAfterStep DEF e
<1>9. \A j \in DOMAIN ins : RestAfter(events, k - 1, j) \in Nat /\ RestAfter(events, k, j) \in Nat
  BY <1>3, <1>8 DEF Booked
<1>10. ASSUME NEW t \in Ticks
       PROVE  SumFunctionOnSet(OwedTo(b, t), Users) = SumFunctionOnSet(OwedTo(m, t), Users)
  <2> DEFINE f == OwedTo(n, t)
             g == OwedTo(b, t)
             d == IF t = s THEN e.amt ELSE 0
  <2>1. \A u \in Users : f[u] \in Int  BY <1>6 DEF OwedTo
  <2>2. d \in Int /\ -d \in Int  BY <1>3
  <2>3. \A u \in Users : g[u] = f[u] + (IF u = e.to THEN d ELSE 0) + (IF u = o THEN -d ELSE 0)
    <3> TAKE u \in Users
    <3>1. g[u] = b.swap[u][t] + b.avail[u][t] + b.appr[u][t] + b.cond[u][t]  BY DEF OwedTo
    <3>2. f[u] = n.swap[u][t] + n.avail[u][t] + n.appr[u][t] + n.cond[u][t]  BY DEF OwedTo
    <3>3. b.avail[u][t] = n.avail[u][t] /\ b.appr[u][t] = n.appr[u][t]  BY <1>4
    <3>4. b.cond[u][t] = n.cond[u][t] - (IF u = o THEN d ELSE 0)
      <4>1. b.cond[u][t] = n.cond[u][t] - (IF u = o /\ t = s THEN e.amt ELSE 0)  BY <1>4
      <4>2. CASE t = s  BY <4>1, <4>2
      <4>3. CASE t # s  BY <4>1, <4>3
      <4> QED BY <4>2, <4>3
    <3>5. b.swap[u][t] = n.swap[u][t] + (IF u = e.to THEN d ELSE 0)
      <4>1. b.swap[u][t] = n.swap[u][t] + (IF u = e.to /\ t = s THEN e.amt ELSE 0)  BY <1>4
      <4>2. CASE t = s  BY <4>1, <4>2
      <4>3. CASE t # s  BY <4>1, <4>3
      <4> QED BY <4>2, <4>3
    <3>6. /\ n.swap[u][t] \in Int /\ n.avail[u][t] \in Int
          /\ n.appr[u][t] \in Int /\ n.cond[u][t] \in Int
      BY <1>6
    <3> DEFINE x == IF u = e.to THEN d ELSE 0
               y == IF u = o THEN d ELSE 0
               z == IF u = o THEN -d ELSE 0
    <3>7. x \in Int /\ y \in Int /\ z \in Int /\ y + z = 0
      <4> HIDE DEF d
      <4> QED BY <2>2
    <3>8. b.cond[u][t] = n.cond[u][t] - y /\ b.swap[u][t] = n.swap[u][t] + x  BY <3>4, <3>5
    <3> HIDE DEF f, g, d, x, y, z
    <3>9. g[u] = f[u] + x + z
      <4>1. g[u] = (n.swap[u][t] + x) + n.avail[u][t] + n.appr[u][t] + (n.cond[u][t] - y)
        BY <3>1, <3>3, <3>8
      <4> DEFINE A == n.swap[u][t]  B == n.avail[u][t]  C == n.appr[u][t]  D == n.cond[u][t]
      <4>2. A \in Int /\ B \in Int /\ C \in Int /\ D \in Int  BY <3>6
      <4>3. g[u] = (A + x) + B + C + (D - y) /\ f[u] = A + B + C + D  BY <3>2, <4>1
      <4> HIDE DEF A, B, C, D
      <4>4. (A + x) + B + C + (D - y) = (A + B + C + D) + x + z  BY SMTT(60), <3>7, <4>2
      <4> QED BY Zenon, <4>3, <4>4
    <3> QED BY <3>9 DEF x, z
  <2> HIDE DEF f, g, d
  <2>4. Shifts(Users, f, g, e.to, d, o, -d)  BY <1>3, <2>1, <2>2, <2>3, ScriptsAssumption DEF Shifts
  <2>5. /\ SumFunctionOnSet(f, Users) \in Int
        /\ SumFunctionOnSet(g, Users) = SumFunctionOnSet(f, Users) + d + (-d)
    BY <2>4, SumShifts
  <2>6. SumFunctionOnSet(f, Users) = SumFunctionOnSet(OwedTo(m, t), Users)  BY DEF Booked, f
  <2>7. SumFunctionOnSet(g, Users) = SumFunctionOnSet(f, Users)  BY <2>2, <2>5
  <2> QED BY <2>6, <2>7 DEF g
<1>11. ASSUME NEW t \in Ticks
       PROVE  SumFunctionOnSet(CondOf(b, t), Users) + (b.cancel[t] + b.okAppr[t])
               = SumFunctionOnSet(CondOf(m, t), Users) + (m.cancel[t] + m.okAppr[t])
  <2> DEFINE f == CondOf(n, t)
             g == CondOf(b, t)
             d == IF t = s THEN e.amt ELSE 0
  <2>1. \A u \in Users : f[u] \in Int  BY <1>6 DEF CondOf
  <2>2. d \in Int /\ -d \in Int  BY <1>3
  <2>3. \A u \in Users : g[u] = f[u] + (IF u = o THEN -d ELSE 0)
    <3> TAKE u \in Users
    <3>1. g[u] = b.cond[u][t] /\ f[u] = n.cond[u][t]  BY DEF CondOf
    <3>2. b.cond[u][t] = n.cond[u][t] - (IF u = o THEN d ELSE 0)
      <4>1. b.cond[u][t] = n.cond[u][t] - (IF u = o /\ t = s THEN e.amt ELSE 0)  BY <1>4
      <4>2. CASE t = s  BY <4>1, <4>2
      <4>3. CASE t # s  BY <4>1, <4>3
      <4> QED BY <4>2, <4>3
    <3> HIDE DEF f, g, d
    <3> QED BY <1>6, <2>2, <3>1, <3>2
  <2> HIDE DEF f, g, d
  <2>4. Adds(Users, f, g, o, -d)  BY <1>3, <2>1, <2>2, <2>3, ScriptsAssumption DEF Adds
  <2>5. /\ SumFunctionOnSet(f, Users) \in Int
        /\ SumFunctionOnSet(g, Users) = SumFunctionOnSet(f, Users) + (-d)
    BY <2>4, SumAdds
  <2>6. SumFunctionOnSet(f, Users) + (n.cancel[t] + n.okAppr[t])
          = SumFunctionOnSet(CondOf(m, t), Users) + (m.cancel[t] + m.okAppr[t])
    BY DEF Booked, f
  <2>7. b.cancel[t] + b.okAppr[t] = n.cancel[t] + n.okAppr[t] + d  BY <1>4 DEF d
  <2>8. SumFunctionOnSet(g, Users) + (b.cancel[t] + b.okAppr[t])
          = SumFunctionOnSet(f, Users) + (n.cancel[t] + n.okAppr[t])
    BY <1>7, <2>2, <2>5, <2>7
  <2> QED BY <2>6, <2>8 DEF g
<1>12. ASSUME NEW t \in Ticks, NEW u \in Users
       PROVE  b.cond[u][t] - SumFunctionOnSet(RestsOf(events, k, u, t), Pending("cond", u, t))
               = m.cond[u][t] - SumFunctionOnSet(RestsOf(events, 0, u, t), Pending("cond", u, t))
  <2> DEFINE P == Pending("cond", u, t)
             f == RestsOf(events, k - 1, u, t)
             g == RestsOf(events, k, u, t)
  <2>1. IsFiniteSet(P) /\ P \subseteq DOMAIN ins  BY PendingFinite
  <2>2. \A i \in P : /\ f[i] = RestAfter(events, k - 1, i) /\ f[i] \in Int
                     /\ g[i] = RestAfter(events, k, i)
    BY <1>9, <2>1 DEF RestsOf
  <2>3. e.i \in P <=> u = o /\ t = s  BY <1>2 DEF Pending, o, s
  <2> HIDE DEF P, f, g
  <2>4. SumFunctionOnSet(f, P) \in Int  BY <2>1, <2>2, SumInt
  <2>5. n.cond[u][t] - SumFunctionOnSet(f, P)
          = m.cond[u][t] - SumFunctionOnSet(RestsOf(events, 0, u, t), Pending("cond", u, t))
    BY DEF Booked, P, f
  <2>6. CASE u = o /\ t = s
    <3>1. e.i \in P  BY <2>3, <2>6
    <3>2. -e.amt \in Int /\ 0 \in Int  BY <1>3
    <3>3. \A i \in P : g[i] = f[i] + (IF i = e.i THEN -e.amt ELSE 0)
      <4> TAKE i \in P
      <4>1. CASE i = e.i
        <5>1. g[i] = e.rest /\ e.rest = f[i] - e.amt  BY <1>2, <1>8, <2>1, <2>2, <4>1
        <5> QED BY <1>3, <2>2, <4>1, <5>1
      <4>2. CASE i # e.i
        <5>1. g[i] = f[i]  BY <1>8, <2>1, <2>2, <4>2
        <5> QED BY <2>2, <4>2, <5>1
      <4> QED BY <4>1, <4>2
    <3>4. SumFunctionOnSet(g, P) = SumFunctionOnSet(f, P) + (-e.amt)
      <4>1. Adds(P, f, g, e.i, -e.amt)  BY <2>1, <2>2, <3>1, <3>2, <3>3 DEF Adds
      <4> QED BY <4>1, SumAdds
    <3>5. b.cond[u][t] = n.cond[u][t] - e.amt
      <4>1. b.cond[u][t] = n.cond[u][t] - (IF u = o /\ t = s THEN e.amt ELSE 0)  BY <1>4
      <4> QED BY <1>6, <2>6, <4>1
    <3>6. b.cond[u][t] - SumFunctionOnSet(g, P) = n.cond[u][t] - SumFunctionOnSet(f, P)
      BY <1>3, <1>6, <2>4, <3>4, <3>5
    <3> QED BY <2>5, <3>6 DEF P, g
  <2>7. CASE ~(u = o /\ t = s)
    <3>1. \A i \in P : g[i] = f[i]  BY <1>8, <2>1, <2>2, <2>3, <2>7
    <3>2. SumFunctionOnSet(g, P) = SumFunctionOnSet(f, P)  BY <2>1, <3>1, SumAgrees
    <3>3. b.cond[u][t] = n.cond[u][t]
      <4>1. b.cond[u][t] = n.cond[u][t] - (IF u = o /\ t = s THEN e.amt ELSE 0)  BY <1>4
      <4> QED BY <1>6, <2>7, <4>1
    <3> QED BY <2>5, <3>2, <3>3 DEF P, g
  <2> QED BY <2>6, <2>7
<1>13. Booked(m, b, events, k)  BY <1>4, <1>5, <1>9, <1>10, <1>11, <1>12 DEF Booked
<1> QED BY <1>13 DEF b, e

\* What BookEvents computes.
LEMMA EventsAreBooked ==
  ASSUME ins \in Seq(Inscriptions), NEW m \in Modules, NEW events, Sound(events)
  PROVE  Booked(m, BookEvents(m, events), events, Len(events))
<1> DEFINE n == Len(events)
           R == BookRun(m, events)
           T == {k \in 0..n : Booked(m, R[k], events, k)}
<1>1. n \in Nat  BY DEF Sound
<1>2. R[0] = m /\ \A k \in 1..n : R[k] = BookEvent(R[k - 1], events[k])  BY <1>1, BookRunUnfolds
<1>3. Booked(m, R[0], events, 0)
  <2>1. \A j \in DOMAIN ins : RestAfter(events, 0, j) \in Nat
    <3> TAKE j \in DOMAIN ins
    <3>1. ins[j] \in Inscriptions  OBVIOUS
    <3>2. ins[j].bal \in Nat  BY <3>1 DEF Inscriptions
    <3> QED BY <3>2, RestAfterStep
  <2> HIDE DEF R
  <2> QED BY <1>2, <2>1 DEF Booked, KeepsPools, KeepsChain
<1>4. ASSUME NEW j \in 1..n, j - 1 \in T PROVE j \in T
  <2>1. Booked(m, R[j - 1], events, j - 1)  BY <1>4
  <2>2. Booked(m, R[j], events, j)
    <3> HIDE DEF R
    <3> QED BY <1>2, <2>1, BookedStep
  <2> QED BY <2>2
<1>5. Booked(m, R[n], events, n)
  <2>1. 0 \in T  BY <1>1, <1>3
  <2>2. n \in T
    <3> HIDE DEF n, T
    <3> QED BY <1>1, <1>4, <2>1, UpTo
  <2> QED BY <2>2
<1> QED BY <1>5, BookEventsIsRun

\* Approvals no event charges keep their balance.
LEMMA RestUncharged ==
  ASSUME NEW events, NEW k \in Nat, NEW j, \A q \in 1..k : events[q].i # j
  PROVE  RestAfter(events, k, j) = ins[j].bal
<1>1. Charges(events, k, j) = {}  BY DEF Charges
<1> QED BY <1>1 DEF RestAfter

\* The events of a transfer are sound, and say what the approvals keep.
LEMMA TransferSound ==
  ASSUME apprs \in Seq(ApproveStates), WaitOnce, WaitingArePending, NEW h, NEW r,
         TransferMatched(h, r, Len(apprs))
  PROVE  /\ Sound(r.events)
         /\ \A q \in 1..Len(apprs) :
              RestAfter(r.events, Len(r.events), apprs[q].i) = r.apprs[q].bal
<1> DEFINE n == Len(r.events)
<1>1. r.events \in Seq(Events) /\ n \in Nat  BY DEF TransferMatched
<1>2. \A a, b \in 1..n : r.events[a].i = r.events[b].i => a = b  BY DEF TransferMatched
<1>3. ASSUME NEW a \in 1..n
      PROVE  RestAfter(r.events, a - 1, r.events[a].i) = ins[r.events[a].i].bal
  <2>1. a - 1 \in Nat /\ \A q \in 1..(a - 1) : q \in 1..n /\ q # a  BY <1>1
  <2>2. \A q \in 1..(a - 1) : r.events[q].i # r.events[a].i  BY <1>2, <2>1
  <2> QED BY <2>1, <2>2, RestUncharged
<1>4. \A a \in 1..n : \E q \in 1..Len(apprs) :
         /\ r.events[a].i = apprs[q].i /\ r.events[a].rest = r.apprs[q].bal
         /\ r.events[a].rest = apprs[q].bal - r.events[a].amt
  BY DEF TransferMatched
<1>5. Sound(r.events)
  <2>1. ASSUME NEW a \in 1..n
        PROVE  /\ r.events[a].i \in DOMAIN ins /\ ins[r.events[a].i].kind = "cond"
               /\ ins[r.events[a].i].pending
               /\ r.events[a].rest = RestAfter(r.events, a - 1, r.events[a].i) - r.events[a].amt
    <3>1. PICK q \in 1..Len(apprs) : /\ r.events[a].i = apprs[q].i
                                    /\ r.events[a].rest = apprs[q].bal - r.events[a].amt
      BY <1>4
    <3>2. /\ apprs[q].i \in DOMAIN ins /\ ins[apprs[q].i].kind = "cond"
          /\ ins[apprs[q].i].pending /\ apprs[q].bal = ins[apprs[q].i].bal
      BY DEF WaitingArePending
    <3> QED BY <1>3, <3>1, <3>2
  <2> QED BY <1>1, <2>1 DEF Sound
<1>6. ASSUME NEW q \in 1..Len(apprs)
      PROVE  RestAfter(r.events, n, apprs[q].i) = r.apprs[q].bal
  <2>1. CASE \A a \in 1..n : r.events[a].i # apprs[q].i
    <3>1. RestAfter(r.events, n, apprs[q].i) = ins[apprs[q].i].bal  BY <1>1, <2>1, RestUncharged
    <3>2. r.apprs[q].bal = apprs[q].bal  BY <2>1 DEF TransferMatched
    <3> QED BY <3>1, <3>2 DEF WaitingArePending
  <2>2. ASSUME NEW a \in 1..n, r.events[a].i = apprs[q].i
        PROVE  RestAfter(r.events, n, apprs[q].i) = r.apprs[q].bal
    <3>1. Charges(r.events, n, apprs[q].i) = {a}  BY <1>2, <2>2 DEF Charges
    <3>2. LastOf({a}) = a  BY DEF LastOf
    <3>3. RestAfter(r.events, n, apprs[q].i) = r.events[a].rest  BY <3>1, <3>2 DEF RestAfter
    <3>4. PICK p \in 1..Len(apprs) : r.events[a].i = apprs[p].i /\ r.events[a].rest = r.apprs[p].bal
      BY <1>4
    <3>5. p = q
      <4>1. apprs[p].i = apprs[q].i /\ DOMAIN apprs = 1..Len(apprs)  BY <2>2, <3>4
      <4> QED BY <4>1 DEF WaitOnce
    <3> QED BY <3>3, <3>4, <3>5
  <2> QED BY <2>1, <2>2
<1> QED BY <1>5, <1>6

\* The events of an approval are sound, and say what it keeps.
LEMMA ApprovalSound ==
  ASSUME NEW i \in DOMAIN ins, ins[i].kind = "cond", ins[i].pending,
         NEW r, ApprovalMatched(i, r)
  PROVE  /\ Sound(r.events)
         /\ RestAfter(r.events, Len(r.events), i) = r.left
<1> DEFINE n == Len(r.events)
           Start(a) == IF a = 1 THEN ins[i].bal ELSE r.events[a - 1].rest
<1>1. r.events \in Seq(Events) /\ n \in Nat  BY DEF ApprovalMatched
<1>2. \A a \in 1..n : r.events[a].i = i /\ r.events[a].rest = Start(a) - r.events[a].amt
  BY DEF ApprovalMatched
<1>3. ASSUME NEW a \in 1..(n + 1)
      PROVE  RestAfter(r.events, a - 1, i) = Start(a)
  <2>1. CASE a = 1
    <3>1. a - 1 = 0 /\ Start(a) = ins[i].bal  BY <2>1
    <3>2. RestAfter(r.events, 0, i) = ins[i].bal  BY RestAfterStep
    <3> QED BY <3>1, <3>2
  <2>2. CASE a # 1
    <3>1. a - 1 \in 1..n /\ a - 1 \in Nat /\ a - 1 > 0  BY <1>1, <2>2
    <3>2. r.events[a - 1].i = i  BY <1>2, <3>1
    <3> QED BY <2>2, <3>1, <3>2, RestAfterStep
  <2> QED BY <2>1, <2>2
<1> HIDE DEF Start
<1>4. Sound(r.events)
  <2>1. \A a \in 1..n : a \in 1..(n + 1)  BY <1>1
  <2> QED BY <1>1, <1>2, <1>3, <2>1 DEF Sound
<1>5. RestAfter(r.events, n, i) = Start(n + 1)
  <2>1. n + 1 \in 1..(n + 1) /\ (n + 1) - 1 = n  BY <1>1
  <2> QED BY <1>3, <2>1
<1>6. r.left = Start(n + 1)
  <2>1. r.left = IF n = 0 THEN ins[i].bal ELSE r.events[n].rest  BY DEF ApprovalMatched
  <2>2. (n + 1) - 1 = n /\ (n + 1 = 1 <=> n = 0)  BY <1>1
  <2> QED BY <2>1, <2>2 DEF Start
<1> QED BY <1>4, <1>5, <1>6

\* So is the event of a refund.
LEMMA RefundSound ==
  ASSUME ins \in Seq(Inscriptions), NEW i \in DOMAIN ins, ins[i].kind = "cond", ins[i].pending
  PROVE  LET events == <<Event(i, ins[i].owner, ins[i].bal, 0, 0)>>
         IN  /\ Sound(events) /\ Len(events) = 1 /\ events[1].i = i /\ events[1].from = 0
             /\ RestAfter(events, 1, i) = 0
<1> DEFINE e == Event(i, ins[i].owner, ins[i].bal, 0, 0)
           events == <<e>>
<1>1. ins[i] \in Inscriptions /\ i \in Nat  OBVIOUS
<1>2. ins[i].owner \in Users /\ ins[i].bal \in Nat  BY <1>1 DEF Inscriptions
<1>3. e \in Events /\ e.i = i /\ e.amt = ins[i].bal /\ e.rest = 0 /\ e.from = 0
  BY <1>1, <1>2 DEF Event, Events
<1> HIDE DEF e
<1>4. events \in Seq(Events) /\ Len(events) = 1 /\ events[1] = e  BY <1>3
<1> HIDE DEF events
<1>5. RestAfter(events, 0, i) = ins[i].bal  BY RestAfterStep
<1>6. RestAfter(events, 1, i) = 0  BY <1>3, <1>4, RestAfterStep
<1>7. Sound(events)
  <2>1. ASSUME NEW k \in 1..Len(events)
        PROVE  /\ events[k].i \in DOMAIN ins /\ ins[events[k].i].kind = "cond"
               /\ ins[events[k].i].pending
               /\ events[k].rest = RestAfter(events, k - 1, events[k].i) - events[k].amt
    <3>1. k = 1 /\ k - 1 = 0  BY <1>4
    <3> QED BY <1>2, <1>3, <1>4, <1>5, <3>1
  <2> QED BY <1>4, <2>1 DEF Sound
<1> QED BY <1>3, <1>4, <1>6, <1>7 DEF events, e

\* No event is sound.
LEMMA NoEventSound ==
  Sound(<< >>) /\ Len(<< >>) = 0
BY DEF Sound

\* What RestOf leaves of a changed list of inscriptions.
LEMMA RestOfFields ==
  ASSUME NEW y, NEW events, Sound(events), \A j \in DOMAIN y : y[j].bal = ins[j].bal,
         y \in Seq(Inscriptions), DOMAIN y = DOMAIN ins,
         \A j \in DOMAIN ins : RestAfter(events, Len(events), j) \in Nat
  PROVE  /\ RestOf(y, events) \in Seq(Inscriptions) /\ Len(RestOf(y, events)) = Len(y)
         /\ DOMAIN RestOf(y, events) = DOMAIN y
         /\ \A j \in DOMAIN y :
              LET x == RestOf(y, events)[j]
              IN  /\ x.kind = y[j].kind /\ x.owner = y[j].owner /\ x.tick = y[j].tick
                  /\ x.amt = y[j].amt /\ x.valid = y[j].valid /\ x.pending = y[j].pending
                  /\ x.moves = y[j].moves /\ x.agent = y[j].agent /\ x.c = y[j].c
                  /\ x.bal = RestAfter(events, Len(events), j)
<1> DEFINE z == RestOf(y, events)
<1>1. events \in Seq(Events) /\ Len(events) \in Nat /\ DOMAIN events = 1..Len(events)  BY DEF Sound
<1>2. DOMAIN z = DOMAIN y /\ DOMAIN y = 1..Len(y) /\ Len(y) \in Nat  BY DEF RestOf
<1>3. ASSUME NEW j \in DOMAIN y
      PROVE  /\ z[j] \in Inscriptions
             /\ z[j].kind = y[j].kind /\ z[j].owner = y[j].owner /\ z[j].tick = y[j].tick
             /\ z[j].amt = y[j].amt /\ z[j].valid = y[j].valid /\ z[j].pending = y[j].pending
             /\ z[j].moves = y[j].moves /\ z[j].agent = y[j].agent /\ z[j].c = y[j].c
             /\ z[j].bal = RestAfter(events, Len(events), j)
  <2> DEFINE S == Charges(events, Len(events), j)
             b == events[LastOf(S)].rest
  <2>1. y[j] \in Inscriptions  OBVIOUS
  <2>2. z[j] = IF S = {} THEN y[j] ELSE [y[j] EXCEPT !.bal = b]  BY <1>1 DEF RestOf, Charges, LastOf
  <2>3. CASE S = {}
    <3>1. z[j] = y[j] /\ RestAfter(events, Len(events), j) = ins[j].bal  BY <2>2, <2>3 DEF RestAfter
    <3> QED BY <2>1, <3>1
  <2>4. CASE S # {}
    <3>1. RestAfter(events, Len(events), j) = b  BY <2>4 DEF RestAfter
    <3>2. b \in Nat  BY <3>1
    <3> HIDE DEF S, b
    <3>3. z[j] = [y[j] EXCEPT !.bal = b]  BY <2>2, <2>4
    <3> HIDE DEF z
    <3> QED BY <2>1, <3>1, <3>2, <3>3 DEF Inscriptions
  <2> QED BY <2>3, <2>4
<1>4. z \in Seq(Inscriptions) /\ Len(z) = Len(y)
  <2>1. z = [j \in 1..Len(y) |-> z[j]]  BY <1>2 DEF RestOf
  <2>2. \A j \in 1..Len(y) : z[j] \in Inscriptions  BY <1>2, <1>3
  <2> HIDE DEF z
  <2> QED BY <1>2, <2>1, <2>2
<1> QED BY <1>2, <1>3, <1>4

-----------------------------------------------------------------------------
\* Pairs of ticks and roots.

\* A pair has two ticks, each the other one of the other.
LEMMA PairFacts ==
  ASSUME NEW p \in Pairs, NEW t \in p
  PROVE  /\ Other(p, t) \in p /\ Other(p, t) # t /\ p = {t, Other(p, t)}
         /\ t \in Ticks /\ Other(p, t) \in Ticks /\ Other(p, Other(p, t)) = t
<1>1. p \subseteq Ticks  BY DEF Pairs
<1>2. PICK x \in p, y \in p : x # y /\ p = {x, y}  BY DEF Pairs
<1>3. PICK s \in p : s # t  BY <1>2
<1>4. s \in p /\ s # t /\ p = {t, s}  BY <1>2, <1>3
<1>5. Other(p, t) = s
  <2>1. Other(p, t) \in p /\ Other(p, t) # t  BY <1>4, Zenon DEF Other
  <2> QED BY <1>4, <2>1
<1>6. Other(p, s) = t
  <2>1. Other(p, s) \in p /\ Other(p, s) # s  BY <1>4, Zenon DEF Other
  <2> QED BY <1>4, <2>1
<1> QED BY <1>1, <1>4, <1>5, <1>6

\* The ticks of a function make a pair when they differ.
LEMMA PairOf ==
  ASSUME NEW f \in SwapFunctions
  PROVE  /\ f.t0 # f.t1 <=> Pair(f) \in Pairs
         /\ Pair(f) \in Pairs => Other(Pair(f), f.t0) = f.t1 /\ Other(Pair(f), f.t1) = f.t0
<1>1. f.t0 \in Ticks /\ f.t1 \in Ticks  BY DEF SwapFunctions
<1>2. ASSUME f.t0 # f.t1 PROVE Pair(f) \in Pairs  BY <1>1, <1>2 DEF Pair, Pairs
<1>3. ASSUME f.t0 = f.t1 PROVE Pair(f) \notin Pairs  BY <1>3 DEF Pair, Pairs
<1>4. ASSUME Pair(f) \in Pairs
      PROVE  Other(Pair(f), f.t0) = f.t1 /\ Other(Pair(f), f.t1) = f.t0
  <2>1. f.t0 # f.t1 /\ f.t0 \in Pair(f) /\ f.t1 \in Pair(f)  BY <1>3, <1>4 DEF Pair
  <2>2. Other(Pair(f), f.t0) \in Pair(f) /\ Other(Pair(f), f.t0) # f.t0  BY <1>4, <2>1, PairFacts
  <2>3. Other(Pair(f), f.t1) \in Pair(f) /\ Other(Pair(f), f.t1) # f.t1  BY <1>4, <2>1, PairFacts
  <2> QED BY <2>2, <2>3 DEF Pair
<1> QED BY <1>2, <1>3, <1>4

\* There are finitely many pairs.
LEMMA PairsFinite == IsFiniteSet(Pairs)
<1>1. IsFiniteSet(SUBSET Ticks)  BY ScriptsAssumption, FS_SUBSET
<1> QED BY <1>1, FS_Subset DEF Pairs

\* The root exists and rounds down.
LEMMA SqrtFacts ==
  ASSUME NEW n \in Nat
  PROVE  /\ Sqrt(n) \in Nat
         /\ Sqrt(n) * Sqrt(n) <= n
         /\ n < (Sqrt(n) + 1) * (Sqrt(n) + 1)
<1> DEFINE Root(x) == x * x <= n /\ (x + 1) * (x + 1) > n
           s == CHOOSE x \in 0..n : Root(x)
<1>1. \E x \in 0..n : Root(x)
  <2>1. PICK x \in 0..n : x * x <= n /\ n < (x + 1) * (x + 1)  BY RootExists
  <2>2. Root(x)  BY <2>1
  <2> QED BY <2>2
<1>2. s \in 0..n /\ Root(s)
  <2> HIDE DEF Root
  <2> QED BY <1>1, Zenon
<1>3. Sqrt(n) = s  BY DEF Sqrt
<1> HIDE DEF s
<1>4. s \in Nat /\ s * s <= n /\ n < (s + 1) * (s + 1)  BY <1>2
<1> QED BY <1>3, <1>4

\* Roots grow with their squares.
LEMMA SqrtMono ==
  ASSUME NEW m \in Nat, NEW n \in Nat, m <= n
  PROVE  Sqrt(m) <= Sqrt(n)
<1>1. Sqrt(m) \in Nat /\ Sqrt(m) * Sqrt(m) <= m  BY SqrtFacts
<1>2. Sqrt(n) \in Nat /\ n < (Sqrt(n) + 1) * (Sqrt(n) + 1)  BY SqrtFacts
<1> QED BY <1>1, <1>2, RootMono

\* The root of a positive number is positive, that of 0 is 0.
LEMMA SqrtPositive ==
  ASSUME NEW n \in Nat
  PROVE  n > 0 <=> Sqrt(n) > 0
<1> DEFINE s == Sqrt(n)
<1>1. s \in Nat /\ s * s <= n /\ n < (s + 1) * (s + 1)  BY SqrtFacts
<1> HIDE DEF s
<1>2. CASE s = 0
  <2>1. (s + 1) * (s + 1) = 1  BY <1>2
  <2> QED BY <1>1, <1>2, <2>1 DEF s
<1>3. CASE s > 0
  <2>1. 1 * 1 <= s * s  BY <1>1, <1>3, MulMono2
  <2> QED BY <1>1, <1>3, <2>1 DEF s
<1> QED BY <1>1, <1>2, <1>3

\* The root K of a pool, whichever tick it starts from.
LEMMA RootKFacts ==
  ASSUME NEW m \in Modules, NEW p \in Pairs, m.tick0[p] \in p, NEW t \in p
  PROVE  /\ RootK(m, p) = Sqrt(m.res[p][t] * m.res[p][Other(p, t)])
         /\ m.res[p][t] \in Nat /\ m.res[p][Other(p, t)] \in Nat
         /\ m.res[p][t] * m.res[p][Other(p, t)] \in Nat
         /\ RootK(m, p) \in Nat
<1> DEFINE s == m.tick0[p]
           a == m.res[p][t]
           b == m.res[p][Other(p, t)]
<1>1. t \in Ticks /\ Other(p, t) \in Ticks /\ p = {t, Other(p, t)} /\ Other(p, Other(p, t)) = t
  BY PairFacts
<1>2. a \in Nat /\ b \in Nat  BY <1>1 DEF Modules
<1>3. a * b \in Nat /\ a * b = b * a
  <2> HIDE DEF a, b
  <2> QED BY <1>2, MulNat
<1>4. RootK(m, p) = Sqrt(m.res[p][s] * m.res[p][Other(p, s)])  BY DEF RootK
<1>5. s = t \/ s = Other(p, t)  BY <1>1
<1>6. m.res[p][s] * m.res[p][Other(p, s)] = a * b
  <2>1. CASE s = t  BY <2>1
  <2>2. CASE s = Other(p, t)
    <3>1. m.res[p][s] = b /\ m.res[p][Other(p, s)] = a  BY <1>1, <2>2
    <3> HIDE DEF s, a, b
    <3> QED BY <1>3, <3>1
  <2> QED BY <1>5, <2>1, <2>2
<1>7. RootK(m, p) = Sqrt(a * b)  BY <1>4, <1>6
<1> HIDE DEF a, b, s
<1>8. RootK(m, p) \in Nat  BY <1>3, <1>7, SqrtFacts
<1> QED BY <1>2, <1>3, <1>7, <1>8 DEF a, b

-----------------------------------------------------------------------------
\* Commits.  A function changes swap and available balances and pools, and
\* nothing else of the module.

\* Liabilities are what is owed to users and what pools hold.
LEMMA LiabilitiesAre ==
  ASSUME NEW m, NEW t
  PROVE  Liabilities(m, t) = SumFunctionOnSet(OwedTo(m, t), Users)
                             + SumFunctionOnSet(InPools(m, t), Pairs)
BY DEF Liabilities, SumOf, OwedTo, InPools

\* Sums over the balances of a module are integers.
LEMMA OwedInt ==
  ASSUME NEW m \in Modules, NEW t \in Ticks
  PROVE  /\ \A u \in Users : OwedTo(m, t)[u] \in Int
         /\ SumFunctionOnSet(OwedTo(m, t), Users) \in Int
         /\ \A p \in Pairs : InPools(m, t)[p] \in Int
         /\ SumFunctionOnSet(InPools(m, t), Pairs) \in Int
<1>1. \A u \in Users : OwedTo(m, t)[u] \in Int
  <2> TAKE u \in Users
  <2>1. /\ m.swap[u][t] \in Int /\ m.avail[u][t] \in Int
        /\ m.appr[u][t] \in Int /\ m.cond[u][t] \in Int
    BY DEF Modules, Balances
  <2> QED BY <2>1 DEF OwedTo
<1>2. \A p \in Pairs : InPools(m, t)[p] \in Int
  <2>1. \A p \in Pairs : m.res[p][t] \in Nat  BY DEF Modules
  <2> QED BY <2>1 DEF InPools
<1>3. SumFunctionOnSet(OwedTo(m, t), Users) \in Int  BY <1>1, ScriptsAssumption, SumInt
<1>4. SumFunctionOnSet(InPools(m, t), Pairs) \in Int  BY <1>2, PairsFinite, SumInt
<1> QED BY <1>1, <1>2, <1>3, <1>4

\* The sum moves with it.
LEMMA OwedFlows ==
  ASSUME NEW m \in Modules, NEW n \in Modules, NEW t \in Ticks,
         NEW y, NEW d, NEW z, NEW e, Flows(m, n, t, y, d, z, e)
  PROVE  SumFunctionOnSet(OwedTo(n, t), Users)
           = SumFunctionOnSet(OwedTo(m, t), Users) + d + e
<1> DEFINE f == OwedTo(m, t)
           g == OwedTo(n, t)
<1>1. y \in Users /\ d \in Int /\ z \in Users /\ e \in Int  BY DEF Flows
<1>2. \A u \in Users : f[u] \in Int  BY OwedInt
<1>3. ASSUME NEW u \in Users
      PROVE  g[u] = f[u] + (IF u = y THEN d ELSE 0) + (IF u = z THEN e ELSE 0)
  <2> DEFINE x == IF u = y THEN d ELSE 0
             w == IF u = z THEN e ELSE 0
             A == m.swap[u][t]  B == m.avail[u][t]  C == m.appr[u][t]  D == m.cond[u][t]
             E == n.swap[u][t]  F == n.avail[u][t]
  <2>1. /\ A \in Int /\ B \in Int /\ C \in Int /\ D \in Int /\ E \in Int /\ F \in Int
        /\ x \in Int /\ w \in Int
    BY <1>1 DEF Modules, Balances
  <2>2. E + F = A + B + x + w  BY DEF Flows
  <2>3. n.appr[u][t] = C /\ n.cond[u][t] = D  BY DEF Flows
  <2>4. f[u] = A + B + C + D  BY DEF OwedTo
  <2>5. g[u] = E + F + C + D  BY <2>3 DEF OwedTo
  <2> HIDE DEF f, g, x, w, A, B, C, D, E, F
  <2>6. g[u] = f[u] + x + w  BY <2>1, <2>2, <2>4, <2>5
  <2> QED BY <2>6 DEF x, w
<1> HIDE DEF f, g
<1>4. Shifts(Users, f, g, y, d, z, e)  BY <1>1, <1>2, <1>3, ScriptsAssumption DEF Shifts
<1>5. SumFunctionOnSet(g, Users) = SumFunctionOnSet(f, Users) + d + e  BY <1>4, SumShifts
<1> QED BY <1>5 DEF f, g

\* That leaves the liabilities as they are.
LEMMA TradeBalances ==
  ASSUME NEW m \in Modules, NEW n \in Modules, NEW u, NEW p, NEW x, Trades(m, n, u, p, x)
  PROVE  Balanced(m, n)
<1> SUFFICES ASSUME NEW t \in Ticks
             PROVE  Liabilities(n, t) = Liabilities(m, t)
  BY DEF Balanced
<1> DEFINE d == x[t]
           f == InPools(m, t)
           g == InPools(n, t)
<1>1. u \in Users /\ p \in Pairs /\ d \in Int /\ -d \in Int /\ 0 \in Int  BY DEF Trades
<1>2. Flows(m, n, t, u, -d, u, 0)
  <2>1. ASSUME NEW v \in Users
        PROVE  n.swap[v][t] + n.avail[v][t] = m.swap[v][t] + m.avail[v][t]
                 + (IF v = u THEN -d ELSE 0) + (IF v = u THEN 0 ELSE 0)
    <3> DEFINE A == m.swap[v][t]  B == m.avail[v][t]
    <3>1. A \in Int /\ B \in Int  BY DEF Modules, Balances
    <3>2. n.swap[v][t] = A - (IF v = u THEN d ELSE 0) /\ n.avail[v][t] = B  BY DEF Trades
    <3> HIDE DEF A, B, d
    <3>3. CASE v = u
      <4>1. n.swap[v][t] = A - d  BY <3>2, <3>3
      <4>2. (A - d) + B = A + B + (-d) + 0  BY <1>1, <3>1
      <4> QED BY <3>2, <3>3, <4>1, <4>2 DEF A, B
    <3>4. CASE v # u
      <4>1. n.swap[v][t] = A - 0  BY <3>2, <3>4
      <4>2. (A - 0) + B = A + B + 0 + 0  BY <3>1
      <4> QED BY <3>2, <3>4, <4>1, <4>2 DEF A, B
    <3> QED BY <3>3, <3>4
  <2> HIDE DEF d
  <2> QED BY <1>1, <2>1 DEF Flows, Trades
<1>3. Adds(Pairs, f, g, p, d)
  <2>1. \A q \in Pairs : f[q] \in Int  BY OwedInt
  <2>2. \A q \in Pairs : g[q] = f[q] + (IF q = p THEN d ELSE 0)  BY DEF Trades, InPools
  <2> HIDE DEF f, g, d
  <2> QED BY <1>1, <2>1, <2>2, PairsFinite DEF Adds
<1> HIDE DEF d, f, g
<1>4. SumFunctionOnSet(OwedTo(n, t), Users) = SumFunctionOnSet(OwedTo(m, t), Users) + (-d) + 0
  BY <1>2, OwedFlows
<1>5. SumFunctionOnSet(g, Pairs) = SumFunctionOnSet(f, Pairs) + d  BY <1>3, SumAdds
<1>6. SumFunctionOnSet(OwedTo(m, t), Users) \in Int /\ SumFunctionOnSet(f, Pairs) \in Int
  BY OwedInt DEF f
<1>7. SumFunctionOnSet(OwedTo(n, t), Users) + SumFunctionOnSet(g, Pairs)
        = SumFunctionOnSet(OwedTo(m, t), Users) + SumFunctionOnSet(f, Pairs)
  BY <1>1, <1>4, <1>5, <1>6
<1> QED BY <1>7, LiabilitiesAre DEF f, g

\* So do moves between users that leave the pools alone.
LEMMA FlowBalances ==
  ASSUME NEW m \in Modules, NEW n \in Modules, n.res = m.res,
         \A t \in Ticks : \E y, d, z, e : d + e = 0 /\ Flows(m, n, t, y, d, z, e)
  PROVE  Balanced(m, n)
<1> SUFFICES ASSUME NEW t \in Ticks
             PROVE  Liabilities(n, t) = Liabilities(m, t)
  BY DEF Balanced
<1>1. PICK y, d, z, e : d + e = 0 /\ Flows(m, n, t, y, d, z, e)  OBVIOUS
<1>2. SumFunctionOnSet(OwedTo(n, t), Users) = SumFunctionOnSet(OwedTo(m, t), Users) + d + e
  BY <1>1, OwedFlows
<1>3. d \in Int /\ e \in Int  BY <1>1 DEF Flows
<1>4. SumFunctionOnSet(OwedTo(m, t), Users) \in Int  BY OwedInt
<1>5. SumFunctionOnSet(OwedTo(n, t), Users) = SumFunctionOnSet(OwedTo(m, t), Users)
  BY <1>1, <1>2, <1>3, <1>4
<1>6. InPools(n, t) = InPools(m, t)  BY DEF InPools
<1> QED BY <1>5, <1>6, LiabilitiesAre

\* Pools that nobody touches stay sound.
LEMMA PoolsUntouched ==
  ASSUME NEW m, NEW n, PoolsSound(m), n.tick0 = m.tick0, n.res = m.res, n.lp = m.lp,
         n.lastK = m.lastK
  PROVE  PoolsSound(n)
<1>1. \A p \in Pairs : RootK(n, p) = RootK(m, p)  BY DEF RootK
<1> QED BY <1>1 DEF PoolsSound, PoolSound

\* MoveSwap moves an amount between two users, or from one to itself.
LEMMA MoveSwapFacts ==
  ASSUME NEW m \in Modules, NEW from \in Users, NEW to \in Users, NEW t \in Ticks, NEW amt \in Nat
  PROVE  LET n == MoveSwap(m, from, to, t, amt)
         IN  n \in Modules /\ KeepsPools(m, n) /\ KeepsRest(m, n) /\ Balanced(m, n)
<1> DEFINE n == MoveSwap(m, from, to, t, amt)
           swap1 == [m.swap EXCEPT ![from][t] = @ - amt]
           swap2 == [swap1 EXCEPT ![to][t] = @ + amt]
<1>1. n = [m EXCEPT !.swap = swap2]  BY DEF MoveSwap
<1>2. m.swap \in Balances  BY DEF Modules
<1>3. swap1 \in Balances  BY <1>2 DEF Balances
<1>4. \A u \in Users, s \in Ticks :
        swap1[u][s] = m.swap[u][s] - (IF u = from /\ s = t THEN amt ELSE 0)
  BY <1>2 DEF Balances
<1> HIDE DEF swap1
<1>5. swap2 \in Balances  BY <1>3 DEF Balances
<1>6. \A u \in Users, s \in Ticks :
        swap2[u][s] = swap1[u][s] + (IF u = to /\ s = t THEN amt ELSE 0)
  BY <1>3 DEF Balances
<1> HIDE DEF swap2
<1>7. n \in Modules /\ n.swap = swap2  BY <1>1, <1>5 DEF Modules
<1>8. KeepsPools(m, n) /\ KeepsRest(m, n) /\ n.avail = m.avail
  BY <1>1 DEF Modules, KeepsPools, KeepsRest, KeepsChain
<1> HIDE DEF n
<1>9. ASSUME NEW s \in Ticks
      PROVE  \E y, d, z, e : d + e = 0 /\ Flows(m, n, s, y, d, z, e)
  <2> DEFINE d == IF s = t THEN -amt ELSE 0
             e == IF s = t THEN amt ELSE 0
  <2>1. d \in Int /\ e \in Int /\ d + e = 0  OBVIOUS
  <2>2. ASSUME NEW u \in Users
        PROVE  n.swap[u][s] + n.avail[u][s] = m.swap[u][s] + m.avail[u][s]
                 + (IF u = from THEN d ELSE 0) + (IF u = to THEN e ELSE 0)
    <3> DEFINE A == m.swap[u][s]  B == m.avail[u][s]
               x == IF u = from /\ s = t THEN amt ELSE 0
               y == IF u = from THEN d ELSE 0
               z == IF u = to THEN e ELSE 0
    <3>1. A \in Int /\ B \in Int  BY DEF Modules, Balances
    <3>2. x \in Int /\ y \in Int /\ z \in Int /\ x + y = 0  OBVIOUS
    <3>3. z = IF u = to /\ s = t THEN amt ELSE 0  OBVIOUS
    <3> HIDE DEF A, B, d, e, x, z, y
    <3>4. swap1[u][s] = A - x  BY <1>4 DEF A, x
    <3>5. n.swap[u][s] = (A - x) + z  BY <1>6, <1>7, <3>3, <3>4
    <3>6. n.avail[u][s] = B  BY <1>8 DEF B
    <3>7. ((A - x) + z) + B = A + B + y + z  BY <3>1, <3>2
    <3> QED BY <3>5, <3>6, <3>7 DEF A, B, y, z
  <2> HIDE DEF d, e
  <2>3. Flows(m, n, s, from, d, to, e)  BY <1>8, <2>1, <2>2 DEF Flows, KeepsRest
  <2> QED BY <2>1, <2>3
<1>10. Balanced(m, n)  BY <1>7, <1>8, <1>9, FlowBalances DEF KeepsPools
<1> QED BY <1>7, <1>8, <1>10 DEF n

\* Gas is paid between users.
LEMMA GasFacts ==
  ASSUME NEW m \in Modules, NEW f \in SwapFunctions, NEW price \in Nat, NEW e
  PROVE  LET n == GasFee(m, f, price, e).m
         IN  n \in Modules /\ KeepsPools(m, n) /\ KeepsRest(m, n) /\ Balanced(m, n)
<1> DEFINE gas == price * (IF e.enabled THEN 1 ELSE f.size)
           n == GasFee(m, f, price, e).m
<1>1. f.by \in Users /\ f.size \in Nat  BY DEF SwapFunctions
<1>2. gas \in Nat
  <2>1. CASE e.enabled  BY <2>1
  <2>2. CASE ~e.enabled
    <3>1. price * f.size \in Nat  BY <1>1, MulNat
    <3> QED BY <2>2, <3>1
  <2> QED BY <2>1, <2>2
<1>3. n = m \/ n = MoveSwap(m, f.by, GasTo, GasTick, gas)
  <2>1. GasFee(m, f, price, e) =
          IF price = 0 THEN Ok(m)
          ELSE IF m.swap[f.by][GasTick] < gas THEN Err(m)
          ELSE Ok(MoveSwap(m, f.by, GasTo, GasTick, gas))
    BY DEF GasFee
  <2> HIDE DEF gas
  <2> QED BY <2>1 DEF Ok, Err
<1> HIDE DEF gas
<1>4. GasTo \in Users /\ GasTick \in Ticks  BY AddressesAssumption
<1>5. CASE n = m  BY <1>5 DEF KeepsPools, KeepsRest, KeepsChain, Balanced
<1>6. CASE n = MoveSwap(m, f.by, GasTo, GasTick, gas)
  <2> HIDE DEF n
  <2> QED BY <1>1, <1>2, <1>4, <1>6, MoveSwapFacts DEF n
<1> QED BY <1>3, <1>5, <1>6

\* A function that changes nothing.
LEMMA NothingExecuted ==
  ASSUME NEW m \in Modules, PoolsSound(m), NEW f
  PROVE  Executed(m, f, m)
BY DEF Executed, KeepsRest, KeepsChain, Balanced

\* Sends.
LEMMA SendExecuted ==
  ASSUME NEW m \in Modules, PoolsSound(m), NEW f \in SwapFunctions, NEW e
  PROVE  Executed(m, f, Send(m, f, e).m)
<1> DEFINE amt == CheckTickVerify(e, f.t0, f.amt)
           n == Send(m, f, e).m
<1>1. f.by \in Users /\ f.to \in Users /\ f.t0 \in Ticks /\ amt \in Nat
  BY DEF SwapFunctions, CheckTickVerify
<1>2. n = m \/ n = MoveSwap(m, f.by, f.to, f.t0, amt)  BY DEF Send, Ok, Err
<1> HIDE DEF amt
<1>3. CASE n = m  BY <1>3, NothingExecuted
<1>4. CASE n = MoveSwap(m, f.by, f.to, f.t0, amt)
  <2> HIDE DEF n
  <2>1. n \in Modules /\ KeepsPools(m, n) /\ KeepsRest(m, n) /\ Balanced(m, n)
    BY <1>1, <1>4, MoveSwapFacts
  <2>2. PoolsSound(n)  BY <2>1, PoolsUntouched DEF KeepsPools
  <2>3. Executed(m, f, n)  BY <2>1, <2>2 DEF Executed
  <2> QED BY <2>3 DEF n
<1> QED BY <1>2, <1>3, <1>4

\* Decreased approvals.
LEMMA DecreaseExecuted ==
  ASSUME NEW m \in Modules, PoolsSound(m), NEW f \in SwapFunctions, NEW e
  PROVE  Executed(m, f, DecreaseApproval(m, f, e).m)
<1> DEFINE amt == CheckTickVerify(e, f.t0, f.amt)
           n == DecreaseApproval(m, f, e).m
           swap == [m.swap EXCEPT ![f.by][f.t0] = @ - amt]
           avail == [m.avail EXCEPT ![f.by][f.t0] = @ + amt]
<1>1. f.by \in Users /\ f.t0 \in Ticks /\ amt \in Nat  BY DEF SwapFunctions, CheckTickVerify
<1>2. n = m \/ n = [m EXCEPT !.swap = swap, !.avail = avail]  BY DEF DecreaseApproval, Ok, Err
<1> HIDE DEF amt
<1>3. CASE n = m  BY <1>3, NothingExecuted
<1>4. CASE n = [m EXCEPT !.swap = swap, !.avail = avail]
  <2>1. m.swap \in Balances /\ m.avail \in Balances  BY DEF Modules
  <2>2. swap \in Balances /\ avail \in Balances  BY <1>1, <2>1 DEF Balances
  <2>3. \A u \in Users, t \in Ticks :
          swap[u][t] + avail[u][t] = m.swap[u][t] + m.avail[u][t]
    BY <1>1, <2>1 DEF Balances
  <2> HIDE DEF n, swap, avail
  <2>4. n \in Modules /\ n.swap = swap /\ n.avail = avail  BY <1>4, <2>2 DEF Modules
  <2>5. KeepsPools(m, n) /\ KeepsRest(m, n)  BY <1>4 DEF Modules, KeepsPools, KeepsRest, KeepsChain
  <2>6. ASSUME NEW t \in Ticks
        PROVE  \E y, d, z, k : d + k = 0 /\ Flows(m, n, t, y, d, z, k)
    <3>1. ASSUME NEW u \in Users
          PROVE  n.swap[u][t] + n.avail[u][t] = m.swap[u][t] + m.avail[u][t]
                   + (IF u = f.by THEN 0 ELSE 0) + (IF u = f.by THEN 0 ELSE 0)
      <4> DEFINE A == m.swap[u][t]  B == m.avail[u][t]
      <4>1. A \in Int /\ B \in Int  BY <2>1 DEF Balances
      <4>2. n.swap[u][t] + n.avail[u][t] = A + B  BY <2>3, <2>4
      <4> HIDE DEF A, B
      <4>3. n.swap[u][t] + n.avail[u][t] = A + B + 0 + 0  BY <4>1, <4>2
      <4> QED BY <4>3 DEF A, B
    <3>2. Flows(m, n, t, f.by, 0, f.by, 0)  BY <1>1, <2>5, <3>1 DEF Flows, KeepsRest
    <3> QED BY <3>2
  <2>7. Balanced(m, n)  BY <2>4, <2>5, <2>6, FlowBalances DEF KeepsPools
  <2>8. PoolsSound(n)  BY <2>5, PoolsUntouched DEF KeepsPools
  <2>9. Executed(m, f, n)  BY <2>4, <2>5, <2>7, <2>8 DEF Executed
  <2> QED BY <2>9 DEF n
<1> QED BY <1>2, <1>3, <1>4

\* It is transitive, and balanced.
LEMMA KeepsButLpTwice ==
  ASSUME NEW m, NEW n, NEW o, KeepsButLp(m, n), KeepsButLp(n, o)
  PROVE  KeepsButLp(m, o)
BY DEF KeepsButLp, KeepsRest, KeepsChain

\* The liabilities are the same.
LEMMA KeepsButLpBalanced ==
  ASSUME NEW m, NEW n, KeepsButLp(m, n)
  PROVE  Balanced(m, n)
<1>1. \A t \in Ticks : OwedTo(n, t) = OwedTo(m, t) /\ InPools(n, t) = InPools(m, t)
  BY DEF OwedTo, InPools, KeepsButLp, KeepsRest
<1> QED BY <1>1, LiabilitiesAre DEF Balanced

\* LP is credited in both maps.
LEMMA CreditLpFacts ==
  ASSUME NEW m \in Modules, NEW p \in Pairs, NEW u \in Users, NEW amt \in Int
  PROVE  LET n == CreditLp(m, p, u, amt)
         IN  n \in Modules /\ KeepsButLp(m, n) /\ n.lp = m.lp
<1> DEFINE n == CreditLp(m, p, u, amt)
           b == m.lpOfPool[p][u] + amt
           ofPool == [m.lpOfPool EXCEPT ![p][u] = b]
           ofUser == [m.lpOfUser EXCEPT ![u][p] = b]
           us == m.lpUsers \cup {u}
<1>1. n = [m EXCEPT !.lpOfPool = ofPool, !.lpOfUser = ofUser, !.lpUsers = us]  BY DEF CreditLp
<1>2. /\ m.lpOfPool \in [Pairs -> [Users -> Int]] /\ m.lpOfUser \in [Users -> [Pairs -> Int]]
      /\ m.lpUsers \subseteq Users
  BY DEF Modules
<1>3. b \in Int  BY <1>2
<1> HIDE DEF b
<1>4. /\ ofPool \in [Pairs -> [Users -> Int]] /\ ofUser \in [Users -> [Pairs -> Int]]
      /\ us \in SUBSET Users
  BY <1>2, <1>3
<1> HIDE DEF ofPool, ofUser, us, n
<1>5. n \in Modules  BY <1>1, <1>4 DEF Modules
<1>6. KeepsButLp(m, n) /\ n.lp = m.lp  BY <1>1 DEF Modules, KeepsButLp, KeepsRest, KeepsChain
<1> QED BY <1>5, <1>6 DEF n

\* LP is issued: nothing when there is nothing to issue.
LEMMA IssueLpFacts ==
  ASSUME NEW m \in Modules, NEW p \in Pairs, NEW u \in Users, NEW amt \in Int
  PROVE  LET n == IssueLp(m, p, u, amt)
         IN  /\ n \in Modules /\ KeepsButLp(m, n)
             /\ \A q \in Pairs : n.lp[q] = IF q = p /\ amt > 0 THEN m.lp[p] + amt ELSE m.lp[q]
<1> DEFINE n == IssueLp(m, p, u, amt)
<1>1. CASE amt <= 0
  <2>1. n = m  BY <1>1 DEF IssueLp
  <2> HIDE DEF n
  <2> QED BY <1>1, <2>1 DEF KeepsButLp, KeepsRest, KeepsChain, n
<1>2. CASE ~(amt <= 0)
  <2> DEFINE lp == [m.lp EXCEPT ![p] = @ + amt]
             o == [m EXCEPT !.lp = lp]
  <2>1. m.lp \in [Pairs -> Nat] /\ amt > 0  BY <1>2 DEF Modules
  <2>2. lp \in [Pairs -> Nat] /\ \A q \in Pairs : lp[q] = IF q = p THEN m.lp[p] + amt ELSE m.lp[q]
    BY <2>1
  <2>3. n = CreditLp(o, p, u, amt)  BY <1>2 DEF IssueLp
  <2> HIDE DEF n, lp
  <2>4. o \in Modules /\ o.lp = lp  BY <2>2 DEF Modules
  <2>5. KeepsButLp(m, o)  BY DEF Modules, KeepsButLp, KeepsRest, KeepsChain
  <2> HIDE DEF o
  <2>6. n \in Modules /\ KeepsButLp(o, n) /\ n.lp = o.lp  BY <2>3, <2>4, CreditLpFacts
  <2>7. KeepsButLp(m, n)  BY <2>5, <2>6, KeepsButLpTwice
  <2> QED BY <2>1, <2>2, <2>4, <2>6, <2>7 DEF n
<1> QED BY <1>1, <1>2

\* The service fee is a number, and 0 without LP.
LEMMA FeeLpInt ==
  ASSUME NEW m \in Modules, PoolsSound(m), NEW p \in Pairs, ~FeePanics(m, p)
  PROVE  FeeLp(m, p) \in Int /\ (m.lp[p] = 0 => FeeLp(m, p) = 0)
<1> DEFINE k == RootK(m, p)
           last == m.lastK[p]
           lp == m.lp[p]
<1>1. last \in Nat /\ lp \in Nat  BY DEF Modules
<1>2. k \in Nat
  <2>1. m.tick0[p] \in p  BY DEF PoolsSound
  <2> QED BY <2>1, RootKFacts
<1>3. FeeLp(m, p) = IF FeeRate = 0 \/ lp = 0 THEN 0 ELSE (lp * (k - last)) \div (5 * k + last)
  BY DEF FeeLp, FeeOf
<1>4. FeeRate > 0 /\ lp > 0 => 5 * k + last # 0  BY DEF FeePanics
<1> HIDE DEF k, last, lp
<1>5. CASE FeeRate = 0 \/ lp = 0
  <2>1. FeeLp(m, p) = 0  BY <1>3, <1>5
  <2> QED BY <2>1 DEF lp
<1>6. CASE ~(FeeRate = 0 \/ lp = 0)
  <2>1. FeeRate \in Nat /\ FeeRate > 0 /\ lp > 0  BY <1>1, <1>6, FeeRateAssumption
  <2> DEFINE den == 5 * k + last
             num == lp * (k - last)
  <2>2. den \in Nat /\ den > 0  BY <1>1, <1>2, <1>4, <2>1
  <2>3. num \in Int  BY <1>1, <1>2
  <2>4. FeeLp(m, p) = num \div den  BY <1>3, <1>6
  <2> HIDE DEF num, den
  <2>5. FeeLp(m, p) \in Int  BY <2>2, <2>3, <2>4
  <2> QED BY <1>6, <2>5 DEF lp
<1> QED BY <1>5, <1>6

\* It is issued to LpFeeTo, and leaves the pools sound.
LEMMA IssueFeeFacts ==
  ASSUME NEW m \in Modules, PoolsSound(m), NEW p \in Pairs, ~FeePanics(m, p)
  PROVE  LET n == IssueFee(m, p)
         IN  /\ n \in Modules /\ KeepsButLp(m, n) /\ PoolsSound(n)
             /\ \A q \in Pairs : q # p => n.lp[q] = m.lp[q]
             /\ m.lp[p] = 0 <=> n.lp[p] = 0
<1> DEFINE n == IssueFee(m, p)
           fee == FeeLp(m, p)
<1>1. fee \in Int /\ (m.lp[p] = 0 => fee = 0) /\ LpFeeTo \in Users  BY FeeLpInt, AddressesAssumption
<1>2. n = IssueLp(m, p, LpFeeTo, fee)  BY DEF IssueFee
<1> HIDE DEF n, fee
<1>3. /\ n \in Modules /\ KeepsButLp(m, n)
      /\ \A q \in Pairs : n.lp[q] = IF q = p /\ fee > 0 THEN m.lp[p] + fee ELSE m.lp[q]
  BY <1>1, <1>2, IssueLpFacts
<1>4. \A q \in Pairs : m.lp[q] \in Nat /\ n.lp[q] \in Nat  BY <1>3 DEF Modules
<1>5. \A q \in Pairs : n.lp[q] > 0 => m.lp[q] > 0  BY <1>1, <1>3, <1>4
<1>6. m.lp[p] = 0 <=> n.lp[p] = 0  BY <1>1, <1>3, <1>4
<1>7. \A q \in Pairs : RootK(n, q) = RootK(m, q)  BY <1>3 DEF RootK, KeepsButLp
<1>8. PoolsSound(n)  BY <1>3, <1>5, <1>7 DEF PoolsSound, PoolSound, KeepsButLp
<1> QED BY <1>3, <1>6, <1>8 DEF n

\* LP sent from one user to another.
LEMMA SendLpExecuted ==
  ASSUME NEW m \in Modules, PoolsSound(m), NEW f \in SwapFunctions
  PROVE  Executed(m, f, SendLp(m, f).m)
<1> DEFINE n == SendLp(m, f).m
           p == Pair(f)
           o == CreditLp(m, p, f.by, -f.amt)
<1>1. f.by \in Users /\ f.to \in Users /\ f.amt \in Int /\ -f.amt \in Int  BY DEF SwapFunctions
<1>2. n = m \/ (n = CreditLp(o, p, f.to, f.amt) /\ p \in m.pools)  BY DEF SendLp, Ok, Err
<1>3. CASE n = m  BY <1>3, NothingExecuted
<1>4. CASE n = CreditLp(o, p, f.to, f.amt) /\ p \in m.pools
  <2>1. p \in Pairs  BY <1>4 DEF Modules
  <2> HIDE DEF n, p
  <2>2. o \in Modules /\ KeepsButLp(m, o) /\ o.lp = m.lp  BY <1>1, <2>1, CreditLpFacts
  <2> HIDE DEF o
  <2>3. n \in Modules /\ KeepsButLp(o, n) /\ n.lp = o.lp  BY <1>1, <1>4, <2>1, <2>2, CreditLpFacts
  <2>4. KeepsButLp(m, n) /\ n.lp = m.lp  BY <2>2, <2>3, KeepsButLpTwice
  <2>5. PoolsSound(n)  BY <2>4, PoolsUntouched DEF KeepsButLp
  <2>6. Balanced(m, n)  BY <2>4, KeepsButLpBalanced
  <2>7. Executed(m, f, n)  BY <2>3, <2>4, <2>5, <2>6 DEF Executed, KeepsButLp
  <2> QED BY <2>7 DEF n
<1> QED BY <1>2, <1>3, <1>4

\* A new pool.
LEMMA DeployExecuted ==
  ASSUME NEW m \in Modules, PoolsSound(m), NEW f \in SwapFunctions, f.t0 # f.t1
  PROVE  Executed(m, f, DeployPool(m, f).m)
<1> DEFINE n == DeployPool(m, f).m
           p == Pair(f)
           pools == m.pools \cup {p}
           tick0 == [m.tick0 EXCEPT ![p] = f.t0]
<1>1. f.t0 \in Ticks /\ p \in Pairs /\ f.t0 \in p  BY PairOf DEF SwapFunctions, Pair
<1>2. n = m \/ n = [m EXCEPT !.pools = pools, !.tick0 = tick0]  BY DEF DeployPool, Ok, Err
<1>3. CASE n = m  BY <1>3, NothingExecuted
<1>4. CASE n = [m EXCEPT !.pools = pools, !.tick0 = tick0]
  <2>1. m.tick0 \in [Pairs -> Ticks] /\ m.pools \subseteq Pairs  BY DEF Modules
  <2> HIDE DEF p
  <2>2. /\ tick0 \in [Pairs -> Ticks] /\ pools \in SUBSET Pairs
        /\ \A q \in Pairs : tick0[q] = IF q = p THEN f.t0 ELSE m.tick0[q]
    BY <1>1, <2>1
  <2> HIDE DEF n, pools, tick0
  <2>3. n \in Modules /\ n.tick0 = tick0  BY <1>4, <2>2 DEF Modules
  <2>4. /\ n.swap = m.swap /\ n.avail = m.avail /\ n.res = m.res /\ n.lp = m.lp
        /\ n.lastK = m.lastK /\ KeepsRest(m, n)
    BY <1>4 DEF Modules, KeepsRest, KeepsChain
  <2>5. \A q \in Pairs : n.tick0[q] \in q /\ RootK(n, q) = RootK(m, q)
    <3> TAKE q \in Pairs
    <3>1. n.tick0[q] \in q /\ m.tick0[q] \in q  BY <1>1, <2>2, <2>3 DEF PoolsSound
    <3> DEFINE t == m.tick0[q]
    <3>2. t \in q  BY <3>1
    <3> HIDE DEF t
    <3>3. RootK(n, q) = Sqrt(n.res[q][t] * n.res[q][Other(q, t)])  BY <2>3, <3>1, <3>2, RootKFacts
    <3>4. RootK(m, q) = Sqrt(m.res[q][t] * m.res[q][Other(q, t)])  BY <3>1, <3>2, RootKFacts
    <3> QED BY <2>4, <3>1, <3>3, <3>4
  <2>6. PoolsSound(n)  BY <2>4, <2>5 DEF PoolsSound, PoolSound
  <2>7. Balanced(m, n)
    <3>1. \A t \in Ticks : OwedTo(n, t) = OwedTo(m, t) /\ InPools(n, t) = InPools(m, t)
      BY <2>4 DEF OwedTo, InPools, KeepsRest
    <3> QED BY <3>1, LiabilitiesAre DEF Balanced
  <2>8. Executed(m, f, n)  BY <2>3, <2>4, <2>6, <2>7 DEF Executed
  <2> QED BY <2>8 DEF n
<1> QED BY <1>2, <1>3, <1>4

\* What a trade does to the reserves, and that it balances when both ticks are
\* booked on their own reserve.
LEMMA TradeFacts ==
  ASSUME NEW m \in Modules, NEW u \in Users, NEW p \in Pairs, NEW t0 \in p, NEW s0 \in p,
         NEW x0 \in Int, NEW x1 \in Int,
         m.res[p][s0] + x0 \in Nat, m.res[p][Other(p, s0)] + x1 \in Nat
  PROVE  LET n == Trade(m, u, p, t0, x0, Other(p, t0), x1, s0)
         IN  /\ n \in Modules /\ KeepsButTrade(m, n)
             /\ n.res[p][s0] = m.res[p][s0] + x0
             /\ n.res[p][Other(p, s0)] = m.res[p][Other(p, s0)] + x1
             /\ \A q \in Pairs : q # p => n.res[q] = m.res[q]
             /\ s0 = t0 => Balanced(m, n)
<1> DEFINE t1 == Other(p, t0)
           s1 == Other(p, s0)
           n == Trade(m, u, p, t0, x0, t1, x1, s0)
           swap == [m.swap EXCEPT ![u][t0] = @ - x0, ![u][t1] = @ - x1]
           res == [m.res EXCEPT ![p][s0] = @ + x0, ![p][s1] = @ + x1]
           x == Paid(t0, x0, t1, x1)
<1>1. /\ t1 \in p /\ t1 # t0 /\ p = {t0, t1} /\ t0 \in Ticks /\ t1 \in Ticks
      /\ s1 \in p /\ s1 # s0 /\ p = {s0, s1} /\ s0 \in Ticks /\ s1 \in Ticks
  BY PairFacts
<1>2. m.swap \in Balances /\ m.res \in [Pairs -> [Ticks -> Nat]]  BY DEF Modules
<1>3. n = [m EXCEPT !.swap = swap, !.res = res]  BY DEF Trade, Modules
<1>4. m.res[p][s0] + x0 \in Nat /\ m.res[p][s1] + x1 \in Nat  OBVIOUS
<1> HIDE DEF t1, s1
<1>5. swap \in Balances  BY <1>1, <1>2 DEF Balances
<1>6. \A v \in Users, t \in Ticks : swap[v][t] = m.swap[v][t] - (IF v = u THEN x[t] ELSE 0)
  <2> TAKE v \in Users, t \in Ticks
  <2>1. CASE v = u /\ t = t0  BY <1>1, <1>2, <2>1 DEF Balances, Paid
  <2>2. CASE v = u /\ t = t1  BY <1>1, <1>2, <2>2 DEF Balances, Paid
  <2>3. CASE v # u \/ t \notin p  BY <1>1, <1>2, <2>3 DEF Balances, Paid
  <2> QED BY <1>1, <2>1, <2>2, <2>3
<1>7. res \in [Pairs -> [Ticks -> Nat]]  BY <1>1, <1>2, <1>4
<1>8. /\ res[p][s0] = m.res[p][s0] + x0 /\ res[p][s1] = m.res[p][s1] + x1
      /\ \A q \in Pairs : q # p => res[q] = m.res[q]
      /\ \A t \in Ticks \ p : res[p][t] = m.res[p][t]
  BY <1>1, <1>2
<1> HIDE DEF n, swap, res
<1>9. n \in Modules /\ n.swap = swap /\ n.res = res  BY <1>3, <1>5, <1>7 DEF Modules
<1>10. KeepsButTrade(m, n)  BY <1>3 DEF Modules, KeepsButTrade, KeepsRest, KeepsChain
<1>11. ASSUME s0 = t0 PROVE Balanced(m, n)
  <2>1. s1 = t1  BY <1>1, <1>11
  <2>2. x \in [Ticks -> Int] /\ \A t \in Ticks \ p : x[t] = 0  BY <1>1 DEF Paid
  <2>3. ASSUME NEW q \in Pairs, NEW t \in Ticks
        PROVE  n.res[q][t] = m.res[q][t] + (IF q = p THEN x[t] ELSE 0)
    <3>1. m.res[q][t] \in Nat  BY <1>2
    <3>2. x[t0] = x0 /\ x[t1] = x1 /\ (t \notin p => x[t] = 0)  BY <1>1, <2>2 DEF Paid
    <3> HIDE DEF x
    <3>3. CASE q = p /\ t = t0  BY <1>8, <1>9, <1>11, <3>2, <3>3
    <3>4. CASE q = p /\ t = t1  BY <1>8, <1>9, <2>1, <3>2, <3>4
    <3>5. CASE q = p /\ t \notin p  BY <1>8, <1>9, <3>1, <3>2, <3>5
    <3>6. CASE q # p  BY <1>8, <1>9, <3>1, <3>6
    <3> QED BY <1>1, <3>3, <3>4, <3>5, <3>6
  <2> HIDE DEF x
  <2>4. Trades(m, n, u, p, x)  BY <1>6, <1>9, <1>10, <2>2, <2>3 DEF Trades, KeepsButTrade, KeepsRest
  <2> QED BY <1>9, <2>4, TradeBalances
<1> QED BY <1>8, <1>9, <1>10, <1>11 DEF n, s1, t1

\* One pool changes and is sound, the others are as they were.
LEMMA PoolReplaced ==
  ASSUME NEW m, PoolsSound(m), NEW n, NEW p \in Pairs, n.tick0 = m.tick0,
         \A q \in Pairs : q # p => /\ n.res[q] = m.res[q] /\ n.lp[q] = m.lp[q]
                                  /\ n.lastK[q] = m.lastK[q],
         PoolSound(n, p)
  PROVE  PoolsSound(n)
<1>1. ASSUME NEW q \in Pairs, q # p PROVE PoolSound(n, q)
  <2>1. RootK(n, q) = RootK(m, q)  BY <1>1 DEF RootK
  <2> QED BY <1>1, <2>1 DEF PoolsSound, PoolSound
<1> QED BY <1>1 DEF PoolsSound

\* The mark is set to the root K of the pool, which is then sound if its LP
\* stands for something.
LEMMA SetLastKFacts ==
  ASSUME NEW m \in Modules, NEW p \in Pairs, m.tick0[p] \in p
  PROVE  LET n == SetLastK(m, p)
         IN  /\ n \in Modules /\ KeepsRest(m, n) /\ n.swap = m.swap /\ n.avail = m.avail
             /\ n.res = m.res /\ n.tick0 = m.tick0 /\ n.lp = m.lp
             /\ \A q \in Pairs : q # p => n.lastK[q] = m.lastK[q]
             /\ (m.lp[p] > 0 => \A t \in p : m.res[p][t] > 0) => PoolSound(n, p)
<1> DEFINE k == RootK(m, p)
           lastK == [m.lastK EXCEPT ![p] = k]
           n == SetLastK(m, p)
           t == m.tick0[p]
<1>1. /\ k = Sqrt(m.res[p][t] * m.res[p][Other(p, t)]) /\ k \in Nat
      /\ m.res[p][t] \in Nat /\ m.res[p][Other(p, t)] \in Nat
  BY RootKFacts
<1>2. n = [m EXCEPT !.lastK = lastK]  BY DEF SetLastK
<1>3. m.lastK \in [Pairs -> Nat]  BY DEF Modules
<1>4. lastK \in [Pairs -> Nat] /\ lastK[p] = k /\ \A q \in Pairs : q # p => lastK[q] = m.lastK[q]
  <2> HIDE DEF k
  <2> QED BY <1>1, <1>3
<1> HIDE DEF n, lastK
<1>5. n \in Modules /\ n.lastK = lastK  BY <1>2, <1>4 DEF Modules
<1>6. /\ n.swap = m.swap /\ n.avail = m.avail /\ n.res = m.res /\ n.tick0 = m.tick0
      /\ n.lp = m.lp /\ KeepsRest(m, n)
  BY <1>2 DEF Modules, KeepsRest, KeepsChain
<1>7. ASSUME m.lp[p] > 0 => \A s \in p : m.res[p][s] > 0 PROVE PoolSound(n, p)
  <2>1. RootK(n, p) = k  BY <1>6 DEF RootK
  <2>2. ASSUME n.lp[p] > 0
        PROVE  (\A s \in p : n.res[p][s] > 0) /\ k > 0
    <3>1. \A s \in p : m.res[p][s] > 0  BY <1>6, <1>7, <2>2
    <3>2. t \in p /\ Other(p, t) \in p  BY PairFacts
    <3> DEFINE a == m.res[p][t]
               b == m.res[p][Other(p, t)]
    <3>3. a > 0 /\ b > 0  BY <3>1, <3>2
    <3>4. a \in Nat /\ b \in Nat /\ k = Sqrt(a * b)  BY <1>1
    <3> HIDE DEF a, b, k
    <3>5. 1 * 1 <= a * b /\ a * b \in Nat  BY <3>3, <3>4, MulMono2, MulNat
    <3>6. k > 0  BY <3>4, <3>5, SqrtPositive
    <3> QED BY <1>6, <3>1, <3>6
  <2> HIDE DEF k
  <2>3. k >= k  BY <1>1
  <2> QED BY <1>4, <1>5, <2>1, <2>2, <2>3 DEF PoolSound
<1> QED BY <1>4, <1>5, <1>6, <1>7 DEF n

\* The side token0 is booked on is one of the pair, and its own when the ticks
\* are written as the deployer wrote them.
LEMMA Side0Facts ==
  ASSUME NEW m \in Modules, PoolsSound(m), NEW f \in SwapFunctions, Pair(f) \in Pairs
  PROVE  /\ Side0(m, f) \in Pair(f) /\ (f.same => Side0(m, f) = f.t0)
         /\ f.t0 \in Pair(f) /\ f.t1 = Other(Pair(f), f.t0) /\ m.tick0[Pair(f)] \in Pair(f)
<1> DEFINE p == Pair(f)
           t == m.tick0[p]
<1>1. t \in p  BY DEF PoolsSound
<1>2. f.t0 \in p /\ f.t1 = Other(p, f.t0)  BY PairOf DEF Pair
<1>3. Side0(m, f) = IF f.same /\ f.t0 = t THEN t ELSE Other(p, t)  BY DEF Side0
<1> HIDE DEF p, t
<1>4. Other(p, t) \in p /\ p = {t, Other(p, t)}  BY <1>1, PairFacts DEF p
<1> QED BY <1>1, <1>2, <1>3, <1>4 DEF p, t

\* Liquidity taken from a user.
LEMMA TakeLiqExecuted ==
  ASSUME NEW m \in Modules, PoolsSound(m), NEW f \in SwapFunctions, Pair(f) \in Pairs,
         NEW liq, liq.a0 \in Nat, liq.a1 \in Nat, liq.lp \in Nat, NEW locked \in Nat,
         m.lp[Pair(f)] + liq.lp > 0 =>
           \/ \A t \in Pair(f) : m.res[Pair(f)][t] > 0
           \/ liq.a0 > 0 /\ liq.a1 > 0
  PROVE  Executed(m, f, TakeLiq(m, f, liq, locked).m)
<1> DEFINE p == Pair(f)
           s0 == Side0(m, f)
           paid == Trade(m, f.by, p, f.t0, liq.a0, f.t1, liq.a1, s0)
           issued == [paid EXCEPT !.lp[p] = @ + liq.lp]
           held == CreditLp(issued, p, f.by, liq.lp - locked)
           full == IF locked > 0 THEN CreditLp(held, p, Zero, locked) ELSE held
           n == SetLastK(full, p)
           r == TakeLiq(m, f, liq, locked).m
<1>1. r = m \/ r = n  BY DEF TakeLiq, Ok, Err
<1>2. CASE r = m  BY <1>2, NothingExecuted
<1>3. f.by \in Users /\ Zero \in Users /\ liq.lp - locked \in Int
  BY AddressesAssumption DEF SwapFunctions
<1>4. /\ s0 \in p /\ (f.same => s0 = f.t0) /\ f.t0 \in p /\ f.t1 = Other(p, f.t0)
      /\ m.tick0[p] \in p /\ p \in Pairs
  BY Side0Facts
<1> DEFINE s1 == Other(p, s0)
<1> HIDE DEF p, s0
<1>5. s1 \in p /\ p = {s0, s1} /\ s0 \in Ticks /\ s1 \in Ticks  BY <1>4, PairFacts
<1>6. m.res[p][s0] \in Nat /\ m.res[p][s1] \in Nat /\ m.lp[p] \in Nat  BY <1>4, <1>5 DEF Modules
<1>7. /\ paid \in Modules /\ KeepsButTrade(m, paid)
      /\ paid.res[p][s0] = m.res[p][s0] + liq.a0
      /\ paid.res[p][s1] = m.res[p][s1] + liq.a1
      /\ \A q \in Pairs : q # p => paid.res[q] = m.res[q]
      /\ s0 = f.t0 => Balanced(m, paid)
  <2>1. m.res[p][s0] + liq.a0 \in Nat /\ m.res[p][s1] + liq.a1 \in Nat  BY <1>6
  <2>2. paid = Trade(m, f.by, p, f.t0, liq.a0, Other(p, f.t0), liq.a1, s0)  BY <1>4
  <2> HIDE DEF paid
  <2> QED BY <1>3, <1>4, <2>1, <2>2, TradeFacts
<1> HIDE DEF paid
<1>8. /\ issued \in Modules /\ KeepsButLp(paid, issued)
      /\ issued.lp[p] = m.lp[p] + liq.lp
      /\ \A q \in Pairs : q # p => issued.lp[q] = m.lp[q]
  <2> DEFINE lp == [paid.lp EXCEPT ![p] = @ + liq.lp]
  <2>1. issued = [paid EXCEPT !.lp = lp] /\ paid.lp = m.lp /\ paid.lp \in [Pairs -> Nat]
    BY <1>7 DEF Modules, KeepsButTrade
  <2>2. lp \in [Pairs -> Nat] /\ lp[p] = m.lp[p] + liq.lp /\ \A q \in Pairs : q # p => lp[q] = m.lp[q]
    BY <1>4, <2>1
  <2> HIDE DEF lp, issued
  <2>3. issued \in Modules /\ issued.lp = lp  BY <1>7, <2>1, <2>2 DEF Modules
  <2>4. KeepsButLp(paid, issued)  BY <1>7, <2>1 DEF Modules, KeepsButLp, KeepsRest, KeepsChain
  <2> QED BY <2>2, <2>3, <2>4
<1> HIDE DEF issued
<1>9. held \in Modules /\ KeepsButLp(issued, held) /\ held.lp = issued.lp
  BY <1>3, <1>4, <1>8, CreditLpFacts
<1> HIDE DEF held
<1>10. full \in Modules /\ KeepsButLp(held, full) /\ full.lp = held.lp
  <2>1. CASE locked > 0
    <3>1. full = CreditLp(held, p, Zero, locked) /\ locked \in Int  BY <2>1
    <3> HIDE DEF full
    <3> QED BY <1>3, <1>4, <1>9, <3>1, CreditLpFacts
  <2>2. CASE ~(locked > 0)  BY <1>9, <2>2 DEF KeepsButLp, KeepsRest, KeepsChain
  <2> QED BY <2>1, <2>2
<1> HIDE DEF full
<1>11. KeepsButLp(paid, full) /\ full.lp = issued.lp  BY <1>8, <1>9, <1>10, KeepsButLpTwice
<1>12. /\ full.tick0 = m.tick0 /\ full.lastK = m.lastK /\ full.res = paid.res
       /\ KeepsRest(m, full)
  BY <1>7, <1>11 DEF KeepsButLp, KeepsButTrade, KeepsRest, KeepsChain
<1>13. full.lp[p] > 0 => \A t \in p : full.res[p][t] > 0
  <2>1. full.lp[p] = m.lp[p] + liq.lp  BY <1>8, <1>11
  <2>2. /\ full.res[p][s0] = m.res[p][s0] + liq.a0
        /\ full.res[p][s1] = m.res[p][s1] + liq.a1
    BY <1>7, <1>12
  <2>3. ASSUME m.lp[p] + liq.lp > 0
        PROVE  m.res[p][s0] + liq.a0 > 0 /\ m.res[p][s1] + liq.a1 > 0
    <3>1. \/ m.res[p][s0] > 0 /\ m.res[p][s1] > 0
          \/ liq.a0 > 0 /\ liq.a1 > 0
      <4>1. (\A t \in p : m.res[p][t] > 0) \/ (liq.a0 > 0 /\ liq.a1 > 0)  BY <2>3 DEF p
      <4> QED BY <1>4, <1>5, <4>1
    <3> QED BY <1>6, <3>1
  <2> QED BY <1>5, <2>1, <2>2, <2>3
<1>14. /\ n \in Modules /\ KeepsRest(full, n) /\ n.swap = full.swap /\ n.avail = full.avail
       /\ n.res = full.res /\ n.tick0 = full.tick0 /\ n.lp = full.lp
       /\ \A q \in Pairs : q # p => n.lastK[q] = full.lastK[q]
       /\ PoolSound(n, p)
  <2>1. full.tick0[p] \in p  BY <1>4, <1>12
  <2> QED BY <1>4, <1>10, <1>13, <2>1, SetLastKFacts
<1> HIDE DEF n
<1>15. PoolsSound(n)
  <2>1. \A q \in Pairs : q # p => /\ n.res[q] = m.res[q] /\ n.lp[q] = m.lp[q]
                                 /\ n.lastK[q] = m.lastK[q]
    BY <1>7, <1>8, <1>11, <1>12, <1>14
  <2> QED BY <1>4, <1>12, <1>14, <2>1, PoolReplaced
<1>16. KeepsRest(m, n)  BY <1>12, <1>14 DEF KeepsRest, KeepsChain
<1>17. ASSUME f.same PROVE Balanced(m, n)
  <2>1. Balanced(m, paid)  BY <1>4, <1>7, <1>17
  <2>2. \A t \in Ticks : OwedTo(n, t) = OwedTo(paid, t) /\ InPools(n, t) = InPools(paid, t)
    BY <1>11, <1>14 DEF OwedTo, InPools, KeepsButLp, KeepsRest
  <2> QED BY <2>1, <2>2, LiabilitiesAre DEF Balanced
<1>18. Executed(m, f, n)  BY <1>14, <1>15, <1>16, <1>17 DEF Executed
<1> QED BY <1>1, <1>2, <1>18

\* After a change of LP only, a function executes as on the module before.
LEMMA ExecutedAfter ==
  ASSUME NEW m, NEW n, KeepsButLp(m, n), NEW f, NEW r, Executed(n, f, r)
  PROVE  Executed(m, f, r)
<1>1. Balanced(m, n)  BY KeepsButLpBalanced
<1>2. KeepsRest(m, r)  BY DEF Executed, KeepsButLp, KeepsRest, KeepsChain
<1> QED BY <1>1, <1>2 DEF Executed, Balanced

\* The amounts of a first addition.
LEMMA FirstLiqFacts ==
  ASSUME NEW b0 \in Nat, NEW b1 \in Nat
  PROVE  LET liq == FirstLiq(b0, b1)
         IN  /\ liq.a0 \in Nat /\ liq.a1 \in Nat /\ liq.lp \in Nat
             /\ liq.lp > 0 => liq.a0 > 0 /\ liq.a1 > 0
<1> DEFINE s == Sqrt(b0 * b1)
           liq == FirstLiq(b0, b1)
<1>1. b0 * b1 \in Nat  BY MulNat
<1>2. s \in Nat /\ (b0 * b1 > 0 <=> s > 0)  BY <1>1, SqrtFacts, SqrtPositive
<1>3. b0 * b1 > 0 => b0 > 0 /\ b1 > 0  OBVIOUS
<1>4. liq.a0 = b0 /\ liq.a1 = b1 /\ liq.lp = s  BY DEF FirstLiq
<1> HIDE DEF s, liq
<1>5. liq.lp > 0 => b0 > 0 /\ b1 > 0  BY <1>2, <1>3, <1>4
<1> QED BY <1>2, <1>4, <1>5 DEF liq

\* The amounts of a later one.
LEMMA NextLiqFacts ==
  ASSUME NEW m \in Modules, PoolsSound(m), NEW f \in SwapFunctions, Pair(f) \in Pairs,
         NEW b0 \in Nat, NEW b1 \in Nat,
         m.res[Pair(f)][Side0(m, f)] # 0,
         m.lp[Pair(f)] > 0 => m.res[Pair(f)][Other(Pair(f), Side0(m, f))] # 0
  PROVE  LET liq == NextLiq(m, f, b0, b1)
         IN  /\ liq.a0 \in Nat /\ liq.a1 \in Nat /\ liq.lp \in Nat
             /\ m.lp[Pair(f)] = 0 => liq.lp = 0
<1> DEFINE p == Pair(f)
           s0 == Side0(m, f)
           r0 == m.res[p][s0]
           r1 == m.res[p][Other(p, s0)]
           lp == m.lp[p]
           adj1 == (r1 * b0) \div r0
           a1 == IF b1 >= adj1 THEN adj1 ELSE b1
           a0 == IF b1 >= adj1 THEN b0 ELSE (r0 * b1) \div r1
           lp0 == (lp * a0) \div r0
           lp1 == IF lp = 0 THEN 0 ELSE (lp * a1) \div r1
           liq == NextLiq(m, f, b0, b1)
<1>1. liq.a0 = a0 /\ liq.a1 = a1 /\ liq.lp = IF lp0 > lp1 THEN lp1 ELSE lp0  BY DEF NextLiq
<1>2. p \in Pairs /\ s0 \in p /\ Other(p, s0) \in Ticks /\ s0 \in Ticks  BY Side0Facts, PairFacts
<1>3. r0 \in Nat \ {0} /\ r1 \in Nat /\ lp \in Nat /\ (lp > 0 => r1 \in Nat \ {0})
  BY <1>2 DEF Modules
<1> HIDE DEF p, s0, r0, r1, lp, liq
<1>4. r1 * b0 \in Nat /\ r0 * b1 \in Nat  BY <1>3, MulNat
<1>5. adj1 \in Nat /\ (r1 = 0 => adj1 = 0)
  <2>1. adj1 \in Nat  BY <1>3, <1>4, DivBounds
  <2>2. ASSUME r1 = 0 PROVE adj1 = 0
    <3>1. r1 * b0 = 0  BY <2>2
    <3>2. 0 < (0 + 1) * r0  BY <1>3
    <3> QED BY <1>3, <2>1, <3>1, <3>2, DivMax
  <2> QED BY <2>1, <2>2
<1> HIDE DEF adj1
<1>6. a1 \in Nat  BY <1>5
<1>7. a0 \in Nat
  <2>1. CASE b1 >= adj1  BY <2>1
  <2>2. CASE ~(b1 >= adj1)
    <3>1. r1 \in Nat \ {0}  BY <1>3, <1>5, <2>2
    <3>2. (r0 * b1) \div r1 \in Nat  BY <1>4, <3>1, DivBounds
    <3> QED BY <2>2, <3>2
  <2> QED BY <2>1, <2>2
<1> HIDE DEF a0, a1
<1>8. lp0 \in Nat /\ (lp = 0 => lp0 = 0)
  <2>1. lp * a0 \in Nat  BY <1>3, <1>7, MulNat
  <2>2. lp0 \in Nat  BY <1>3, <2>1, DivBounds
  <2>3. ASSUME lp = 0 PROVE lp0 = 0
    <3>1. lp * a0 = 0  BY <1>7, <2>3
    <3>2. 0 < (0 + 1) * r0  BY <1>3
    <3> QED BY <1>3, <2>2, <3>1, <3>2, DivMax
  <2> QED BY <2>2, <2>3
<1>9. lp1 \in Nat /\ (lp = 0 => lp1 = 0)
  <2>1. CASE lp = 0  BY <2>1
  <2>2. CASE lp # 0
    <3>1. lp * a1 \in Nat /\ r1 \in Nat \ {0}  BY <1>3, <1>6, <2>2, MulNat
    <3>2. (lp * a1) \div r1 \in Nat  BY <3>1, DivBounds
    <3> QED BY <2>2, <3>2
  <2> QED BY <2>1, <2>2
<1> HIDE DEF lp0, lp1
<1> QED BY <1>1, <1>6, <1>7, <1>8, <1>9 DEF liq, lp, p

\* Liquidity added.
LEMMA AddLiquidityExecuted ==
  ASSUME NEW m \in Modules, PoolsSound(m), NEW f \in SwapFunctions, NEW e
  PROVE  Executed(m, f, AddLiquidity(m, f, e).m)
<1> DEFINE p == Pair(f)
           b0 == CheckTickVerify(e, f.t0, f.a0)
           b1 == CheckTickVerify(e, f.t1, f.a1)
           r == AddLiquidity(m, f, e).m
           first == TakeLiq(m, f, FirstLiq(b0, b1), MinLp)
           n == IssueFee(m, p)
           liq == NextLiq(n, f, b0, b1)
<1>1. b0 \in Nat /\ b1 \in Nat /\ f.t0 \in Ticks /\ f.t1 \in Ticks  BY DEF SwapFunctions, CheckTickVerify
<1>2. \/ r = m
      \/ p \in m.pools /\ (\A t \in p : m.res[p][t] = 0) /\ r = first.m
      \/ p \in m.pools /\ ~AddLiqPanics(m, f) /\ r = TakeLiq(n, f, liq, 0).m
  BY DEF AddLiquidity, PoolFound, TakeNextLiq, Ok, Err, Panic
<1> HIDE DEF b0, b1
<1>3. CASE r = m  BY <1>3, NothingExecuted
<1>4. p \in m.pools => p \in Pairs  BY DEF Modules
<1>5. CASE p \in m.pools /\ (\A t \in p : m.res[p][t] = 0) /\ r = first.m
  <2> DEFINE l == FirstLiq(b0, b1)
  <2>1. l.a0 \in Nat /\ l.a1 \in Nat /\ l.lp \in Nat /\ (l.lp > 0 => l.a0 > 0 /\ l.a1 > 0)
    BY <1>1, FirstLiqFacts
  <2> HIDE DEF l
  <2>2. m.lp[p] = 0
    <3>1. f.t0 \in p /\ m.lp[p] \in Nat  BY <1>4, <1>5 DEF Pair, Modules
    <3>2. m.lp[p] > 0 => m.res[p][f.t0] > 0  BY <1>4, <1>5, <3>1 DEF PoolsSound, PoolSound
    <3>3. m.res[p][f.t0] = 0  BY <1>5, <3>1
    <3> QED BY <3>1, <3>2, <3>3
  <2>3. m.lp[p] + l.lp > 0 => l.a0 > 0 /\ l.a1 > 0  BY <2>1, <2>2
  <2>4. Executed(m, f, TakeLiq(m, f, l, MinLp).m)
    <3>1. MinLp \in Nat /\ p \in Pairs  BY <1>4, <1>5, MinLpAssumption
    <3> QED BY <2>1, <2>3, <3>1, TakeLiqExecuted
  <2> QED BY <1>5, <2>4 DEF l
<1>6. CASE p \in m.pools /\ ~AddLiqPanics(m, f) /\ r = TakeLiq(n, f, liq, 0).m
  <2>1. p \in Pairs  BY <1>4, <1>6
  <2>2. /\ ~FeePanics(m, p) /\ m.res[p][Side0(m, f)] # 0
        /\ m.lp[p] > 0 => m.res[p][Other(p, Side0(m, f))] # 0
    BY <1>6 DEF AddLiqPanics
  <2>3. /\ n \in Modules /\ KeepsButLp(m, n) /\ PoolsSound(n) /\ (m.lp[p] = 0 <=> n.lp[p] = 0)
    BY <2>1, <2>2, IssueFeeFacts
  <2> HIDE DEF n
  <2>4. Side0(n, f) = Side0(m, f) /\ n.res = m.res /\ n.lp[p] \in Nat /\ m.lp[p] \in Nat
    BY <2>1, <2>3 DEF Side0, KeepsButLp, Modules
  <2>5. n.res[p][Side0(n, f)] # 0 /\ (n.lp[p] > 0 => n.res[p][Other(p, Side0(n, f))] # 0)
    BY <2>2, <2>3, <2>4
  <2>6. /\ liq.a0 \in Nat /\ liq.a1 \in Nat /\ liq.lp \in Nat
        /\ n.lp[p] = 0 => liq.lp = 0
    BY <1>1, <2>1, <2>3, <2>5, NextLiqFacts
  <2> HIDE DEF liq
  <2>7. n.lp[p] + liq.lp > 0 => \A t \in p : n.res[p][t] > 0
    <3>1. n.lp[p] + liq.lp > 0 => n.lp[p] > 0  BY <2>4, <2>6
    <3> QED BY <2>1, <2>3, <3>1 DEF PoolsSound, PoolSound
  <2>8. Executed(n, f, TakeLiq(n, f, liq, 0).m)
    <3>1. 0 \in Nat  OBVIOUS
    <3> QED BY <2>1, <2>3, <2>6, <2>7, <3>1, TakeLiqExecuted
  <2>9. Executed(m, f, TakeLiq(n, f, liq, 0).m)  BY <2>3, <2>8, ExecutedAfter
  <2> QED BY <1>6, <2>9
<1> QED BY <1>2, <1>3, <1>5, <1>6

\* Liquidity returned to a user.
LEMMA ReturnLiqExecuted ==
  ASSUME NEW m \in Modules, PoolsSound(m), NEW f \in SwapFunctions, Pair(f) \in Pairs,
         NEW b0, NEW b1, NEW s0 \in Pair(f), f.same => s0 = f.t0
  PROVE  Executed(m, f, ReturnLiq(m, f, b0, b1, s0).m)
<1> DEFINE p == Pair(f)
           s1 == Other(p, s0)
           x0 == IF m.lp[p] = 0 THEN 0 ELSE (m.res[p][s0] * f.lp) \div m.lp[p]
           x1 == IF m.lp[p] = 0 THEN 0 ELSE (m.res[p][s1] * f.lp) \div m.lp[p]
           paid == Trade(m, f.by, p, f.t0, -x0, f.t1, -x1, s0)
           less == [paid EXCEPT !.lpOfPool[p][f.by] = @ - f.lp,
                                !.lpOfUser[f.by][p] = @ - f.lp, !.lp[p] = @ - f.lp]
           n == SetLastK(less, p)
           r == ReturnLiq(m, f, b0, b1, s0).m
<1>1. r = m \/ (r = n /\ ~(m.lp[p] < f.lp))  BY DEF ReturnLiq, Ok, Err
<1>2. CASE r = m  BY <1>2, NothingExecuted
<1>3. f.by \in Users /\ f.lp \in Nat  BY DEF SwapFunctions
<1>4. f.t0 \in p /\ f.t1 = Other(p, f.t0) /\ m.tick0[p] \in p /\ p \in Pairs  BY Side0Facts
<1>5. s0 \in p /\ s1 \in p /\ p = {s0, s1} /\ s0 \in Ticks /\ s1 \in Ticks  BY <1>4, PairFacts
<1>6. m.res[p][s0] \in Nat /\ m.res[p][s1] \in Nat /\ m.lp[p] \in Nat  BY <1>4, <1>5 DEF Modules
<1>7. m.lp[p] > 0 => m.res[p][s0] > 0 /\ m.res[p][s1] > 0  BY <1>4, <1>5 DEF PoolsSound, PoolSound
<1> SUFFICES ASSUME ~(m.lp[p] < f.lp)
             PROVE  Executed(m, f, n)
  BY <1>1, <1>2
<1>8. f.lp <= m.lp[p]  BY <1>3, <1>6
<1> HIDE DEF p, s1, r
<1>9. /\ x0 \in Nat /\ x0 <= m.res[p][s0]
      /\ m.lp[p] - f.lp > 0 => m.res[p][s0] - x0 > 0
  BY <1>3, <1>6, <1>7, <1>8, ShareFacts
<1>10. /\ x1 \in Nat /\ x1 <= m.res[p][s1]
       /\ m.lp[p] - f.lp > 0 => m.res[p][s1] - x1 > 0
  BY <1>3, <1>6, <1>7, <1>8, ShareFacts
<1> HIDE DEF x0, x1
<1>11. /\ -x0 \in Int /\ -x1 \in Int
       /\ m.res[p][s0] + (-x0) = m.res[p][s0] - x0 /\ m.res[p][s0] - x0 \in Nat
       /\ m.res[p][s1] + (-x1) = m.res[p][s1] - x1 /\ m.res[p][s1] - x1 \in Nat
  BY <1>6, <1>9, <1>10
<1>12. /\ paid \in Modules /\ KeepsButTrade(m, paid)
       /\ paid.res[p][s0] = m.res[p][s0] - x0
       /\ paid.res[p][s1] = m.res[p][s1] - x1
       /\ \A q \in Pairs : q # p => paid.res[q] = m.res[q]
       /\ s0 = f.t0 => Balanced(m, paid)
  <2> DEFINE y0 == -x0
             y1 == -x1
  <2>1. y0 \in Int /\ y1 \in Int /\ m.res[p][s0] + y0 \in Nat /\ m.res[p][s1] + y1 \in Nat  BY <1>11
  <2>2. paid = Trade(m, f.by, p, f.t0, y0, Other(p, f.t0), y1, s0)  BY <1>4
  <2>3. m.res[p][s0] + y0 = m.res[p][s0] - x0 /\ m.res[p][s1] + y1 = m.res[p][s1] - x1  BY <1>11
  <2> HIDE DEF paid, y0, y1
  <2>4. /\ paid \in Modules /\ KeepsButTrade(m, paid)
        /\ paid.res[p][s0] = m.res[p][s0] + y0
        /\ paid.res[p][s1] = m.res[p][s1] + y1
        /\ \A q \in Pairs : q # p => paid.res[q] = m.res[q]
        /\ s0 = f.t0 => Balanced(m, paid)
    BY <1>3, <1>4, <1>5, <2>1, <2>2, TradeFacts DEF s1
  <2> QED BY <2>3, <2>4
<1> HIDE DEF paid
<1>13. /\ less \in Modules /\ KeepsButLp(paid, less)
       /\ less.lp[p] = m.lp[p] - f.lp
       /\ \A q \in Pairs : q # p => less.lp[q] = m.lp[q]
  <2> DEFINE lp == [paid.lp EXCEPT ![p] = @ - f.lp]
             ofPool == [paid.lpOfPool EXCEPT ![p][f.by] = @ - f.lp]
             ofUser == [paid.lpOfUser EXCEPT ![f.by][p] = @ - f.lp]
  <2>1. /\ less = [paid EXCEPT !.lpOfPool = ofPool, !.lpOfUser = ofUser, !.lp = lp]
        /\ paid.lp = m.lp /\ paid.lp \in [Pairs -> Nat]
        /\ paid.lpOfPool \in [Pairs -> [Users -> Int]]
        /\ paid.lpOfUser \in [Users -> [Pairs -> Int]]
    BY <1>12 DEF Modules, KeepsButTrade
  <2>2. lp \in [Pairs -> Nat] /\ lp[p] = m.lp[p] - f.lp /\ \A q \in Pairs : q # p => lp[q] = m.lp[q]
    BY <1>3, <1>4, <1>6, <1>8, <2>1
  <2>3. ofPool \in [Pairs -> [Users -> Int]] /\ ofUser \in [Users -> [Pairs -> Int]]
    BY <1>3, <1>4, <2>1
  <2> HIDE DEF lp, ofPool, ofUser, less
  <2>4. less \in Modules /\ less.lp = lp  BY <1>12, <2>1, <2>2, <2>3 DEF Modules
  <2>5. KeepsButLp(paid, less)  BY <1>12, <2>1 DEF Modules, KeepsButLp, KeepsRest, KeepsChain
  <2> QED BY <2>2, <2>4, <2>5
<1> HIDE DEF less
<1>14. /\ less.tick0 = m.tick0 /\ less.lastK = m.lastK /\ less.res = paid.res
       /\ KeepsRest(m, less)
  BY <1>12, <1>13 DEF KeepsButLp, KeepsButTrade, KeepsRest, KeepsChain
<1>15. less.lp[p] > 0 => \A t \in p : less.res[p][t] > 0  BY <1>5, <1>9, <1>10, <1>12, <1>13, <1>14
<1>16. /\ n \in Modules /\ KeepsRest(less, n) /\ n.swap = less.swap /\ n.avail = less.avail
       /\ n.res = less.res /\ n.tick0 = less.tick0 /\ n.lp = less.lp
       /\ \A q \in Pairs : q # p => n.lastK[q] = less.lastK[q]
       /\ PoolSound(n, p)
  <2>1. less.tick0[p] \in p  BY <1>4, <1>14
  <2> QED BY <1>4, <1>13, <1>15, <2>1, SetLastKFacts
<1> HIDE DEF n
<1>17. PoolsSound(n)
  <2>1. \A q \in Pairs : q # p => /\ n.res[q] = m.res[q] /\ n.lp[q] = m.lp[q]
                                 /\ n.lastK[q] = m.lastK[q]
    BY <1>12, <1>13, <1>14, <1>16
  <2> QED BY <1>4, <1>14, <1>16, <2>1, PoolReplaced
<1>18. KeepsRest(m, n)  BY <1>14, <1>16 DEF KeepsRest, KeepsChain
<1>19. ASSUME f.same PROVE Balanced(m, n)
  <2>1. Balanced(m, paid)  BY <1>12, <1>19
  <2>2. \A t \in Ticks : OwedTo(n, t) = OwedTo(paid, t) /\ InPools(n, t) = InPools(paid, t)
    BY <1>13, <1>14, <1>16 DEF OwedTo, InPools, KeepsButLp, KeepsRest
  <2> QED BY <2>1, <2>2, LiabilitiesAre DEF Balanced
<1> QED BY <1>16, <1>17, <1>18, <1>19 DEF Executed

\* Liquidity removed.
LEMMA RemoveLiquidityExecuted ==
  ASSUME NEW m \in Modules, PoolsSound(m), NEW f \in SwapFunctions, NEW e
  PROVE  Executed(m, f, RemoveLiquidity(m, f, e).m)
<1> DEFINE p == Pair(f)
           s0 == Side0(m, f)
           b0 == CheckTickVerify(e, f.t0, f.a0)
           b1 == CheckTickVerify(e, f.t1, f.a1)
           n == IssueFee(m, p)
           r == RemoveLiquidity(m, f, e).m
<1>1. \/ r = m
      \/ p \in m.pools /\ ~FeePanics(m, p) /\ r = ReturnLiq(n, f, b0, b1, s0).m
  BY DEF RemoveLiquidity, PoolFound, Err, Panic
<1>2. CASE r = m  BY <1>2, NothingExecuted
<1>3. CASE p \in m.pools /\ ~FeePanics(m, p) /\ r = ReturnLiq(n, f, b0, b1, s0).m
  <2>1. p \in Pairs  BY <1>3 DEF Modules
  <2>2. n \in Modules /\ KeepsButLp(m, n) /\ PoolsSound(n)  BY <1>3, <2>1, IssueFeeFacts
  <2>3. s0 \in p /\ (f.same => s0 = f.t0)  BY <2>1, Side0Facts
  <2> HIDE DEF n, b0, b1, s0, r
  <2>4. Executed(n, f, ReturnLiq(n, f, b0, b1, s0).m)  BY <2>1, <2>2, <2>3, ReturnLiqExecuted
  <2>5. Executed(m, f, r)  BY <1>3, <2>2, <2>4, ExecutedAfter
  <2> QED BY <2>5 DEF r
<1> QED BY <1>1, <1>2, <1>3

\* A swap at a fair price.
LEMMA PricedTradeExecuted ==
  ASSUME NEW m \in Modules, PoolsSound(m), NEW f, NEW u \in Users, NEW p \in Pairs,
         NEW tin \in p, NEW in \in Nat, NEW out \in Nat, out <= m.res[p][Other(p, tin)],
         out * m.res[p][tin] <= in * (m.res[p][Other(p, tin)] - out),
         m.res[p][tin] > 0 /\ m.res[p][Other(p, tin)] > 0 => out < m.res[p][Other(p, tin)]
  PROVE  Executed(m, f, Trade(m, u, p, tin, in, Other(p, tin), -out, tin))
<1> DEFINE tout == Other(p, tin)
           A == m.res[p][tin]
           B == m.res[p][tout]
           y == -out
           n == Trade(m, u, p, tin, in, tout, y, tin)
<1>1. tout \in p /\ p = {tin, tout} /\ m.tick0[p] \in p  BY PairFacts DEF PoolsSound
<1>2. RootK(m, p) = Sqrt(A * B) /\ A \in Nat /\ B \in Nat /\ A * B \in Nat  BY <1>1, RootKFacts
<1>3. out <= B /\ out * A <= in * (B - out) /\ (A > 0 /\ B > 0 => out < B)  OBVIOUS
<1> HIDE DEF A, B
<1>4. y \in Int /\ in \in Int /\ A + in \in Nat /\ B + y \in Nat /\ B + y = B - out  BY <1>2, <1>3
<1> HIDE DEF y
<1>5. /\ n \in Modules /\ KeepsButTrade(m, n)
      /\ n.res[p][tin] = A + in /\ n.res[p][tout] = B - out
      /\ \A q \in Pairs : q # p => n.res[q] = m.res[q]
      /\ Balanced(m, n)
  <2>1. m.res[p][tin] + in \in Nat /\ m.res[p][Other(p, tin)] + y \in Nat  BY <1>4 DEF A, B
  <2>2. /\ n \in Modules /\ KeepsButTrade(m, n)
        /\ n.res[p][tin] = m.res[p][tin] + in
        /\ n.res[p][tout] = m.res[p][tout] + y
        /\ \A q \in Pairs : q # p => n.res[q] = m.res[q]
        /\ Balanced(m, n)
    BY <1>4, <2>1, TradeFacts
  <2> QED BY <1>4, <2>2 DEF A, B
<1> HIDE DEF n
<1>6. RootK(n, p) = Sqrt((A + in) * (B - out)) /\ (A + in) * (B - out) \in Nat
  <2>1. n.tick0[p] \in p  BY <1>1, <1>5 DEF KeepsButTrade
  <2>2. /\ RootK(n, p) = Sqrt(n.res[p][tin] * n.res[p][Other(p, tin)])
        /\ n.res[p][tin] * n.res[p][Other(p, tin)] \in Nat
    BY <1>5, <2>1, RootKFacts
  <2> QED BY <1>5, <2>2
<1>7. RootK(m, p) <= RootK(n, p)
  <2>1. A * B <= (A + in) * (B - out)  BY <1>2, <1>3, ProductGrows
  <2> QED BY <1>2, <1>6, <2>1, SqrtMono
<1>8. PoolSound(n, p)
  <2>1. n.lp[p] = m.lp[p] /\ n.lastK[p] = m.lastK[p] /\ m.lastK[p] \in Nat
    BY <1>5 DEF KeepsButTrade, Modules
  <2>2. ASSUME m.lp[p] > 0
        PROVE  /\ \A t \in p : n.res[p][t] > 0
               /\ RootK(n, p) >= m.lastK[p] /\ m.lastK[p] > 0
    <3>1. A > 0 /\ B > 0 /\ RootK(m, p) >= m.lastK[p] /\ m.lastK[p] > 0
      BY <1>1, <2>2 DEF PoolsSound, PoolSound, A, B
    <3>2. A + in > 0 /\ B - out > 0  BY <1>2, <1>3, <3>1
    <3>3. RootK(m, p) \in Nat /\ RootK(n, p) \in Nat  BY <1>2, <1>6, SqrtFacts
    <3>4. RootK(n, p) >= m.lastK[p]  BY <1>7, <2>1, <3>1, <3>3
    <3> QED BY <1>1, <1>5, <3>1, <3>2, <3>4
  <2> QED BY <2>1, <2>2 DEF PoolSound
<1>9. PoolsSound(n)
  <2>1. n.tick0 = m.tick0 /\ n.lp = m.lp /\ n.lastK = m.lastK  BY <1>5 DEF KeepsButTrade
  <2> QED BY <1>5, <1>8, <2>1, PoolReplaced
<1>10. Executed(m, f, n)  BY <1>5, <1>9 DEF Executed, KeepsButTrade
<1> QED BY <1>10 DEF n, y, tout

\* The prices are fair, also for a nil amount.
LEMMA AmountOutFacts ==
  ASSUME NEW A \in Nat, NEW B \in Nat, NEW a \in Nat
  PROVE  LET got == AmountOut(A, B, a)
         IN  got \in Nat /\ got <= B /\ got * A <= a * (B - got) /\ (A > 0 /\ B > 0 => got < B)
<1> DEFINE g == 1000 - FeeRate
           got == AmountOut(A, B, a)
<1>1. g \in 1..1000  BY FeeRateAssumption
<1>2. CASE a = 0
  <2>1. got = 0  BY <1>2 DEF AmountOut
  <2> HIDE DEF got
  <2>2. got * A = 0 /\ a * (B - got) = 0  BY <1>2, <2>1
  <2> QED BY <2>1, <2>2 DEF got
<1>3. CASE a # 0
  <2>1. got = (B * (a * g)) \div (A * 1000 + a * g)  BY <1>3 DEF AmountOut
  <2> HIDE DEF g, got
  <2>2. B * (a * g) = (a * g) * B /\ a > 0  BY <1>1, <1>3
  <2>3. got = OutFor(a, g, A, B)  BY <2>1, <2>2 DEF OutFor
  <2>4. got \in Nat /\ got <= B /\ got * A <= a * (B - got) /\ (A > 0 /\ B > 0 => got < B)
    BY ZenonT(60), <1>1, <2>2, <2>3, PriceOut
  <2> QED BY <2>4 DEF got
<1> QED BY <1>2, <1>3

LEMMA AmountInFacts ==
  ASSUME NEW A \in Nat, NEW B \in Nat, NEW a \in Nat, a = 0 \/ a < B
  PROVE  LET pay == AmountIn(A, B, a) IN pay \in Nat /\ a * A <= pay * (B - a)
<1> DEFINE g == 1000 - FeeRate
           pay == AmountIn(A, B, a)
<1>1. g \in 1..1000  BY FeeRateAssumption
<1>2. CASE a = 0
  <2>1. pay = 1  BY <1>2 DEF AmountIn
  <2> HIDE DEF pay
  <2>2. a * A = 0 /\ pay * (B - a) = B  BY <1>2, <2>1
  <2> QED BY <2>1, <2>2 DEF pay
<1>3. CASE a # 0
  <2>1. pay = InFor(a, g, A, B)  BY <1>3 DEF AmountIn, InFor
  <2> HIDE DEF g, pay
  <2>2. pay \in Nat /\ a * A <= pay * (B - a)  BY ZenonT(60), <1>1, <1>3, <2>1, PriceIn
  <2> QED BY <2>2 DEF pay
<1> QED BY <1>2, <1>3

\* Swaps.
LEMMA SwapExecuted ==
  ASSUME NEW m \in Modules, PoolsSound(m), NEW f \in SwapFunctions, NEW e
  PROVE  Executed(m, f, Swap(m, f, e).m)
<1> DEFINE p == Pair(f)
           amt == CheckTickVerify(e, f.t0, f.amt)
           got == AmountOut(m.res[p][f.t0], m.res[p][f.t1], amt)
           pay == AmountIn(m.res[p][f.t1], m.res[p][f.t0], amt)
           r == Swap(m, f, e).m
           sold == Trade(m, f.by, p, f.t0, amt, Other(p, f.t0), -got, f.t0)
           bought == Trade(m, f.by, p, f.t1, pay, Other(p, f.t1), -amt, f.t1)
<1>1. /\ f.by \in Users /\ f.t0 \in Ticks /\ f.t1 \in Ticks /\ amt \in Nat
      /\ f.dir \in {"exactIn", "exactOut"}
  BY DEF SwapFunctions, CheckTickVerify
<1>2. SUFFICES ASSUME r # m PROVE Executed(m, f, r)  BY NothingExecuted
<1>3. p \in m.pools /\ ~SwapPanics(m, f, e)  BY <1>2 DEF Swap, PoolFound, Err, Panic
<1>4. p \in Pairs  BY <1>3 DEF Modules
<1>5. /\ f.t0 \in p /\ f.t1 \in p /\ Other(p, f.t0) = f.t1 /\ Other(p, f.t1) = f.t0
  BY <1>4, PairOf DEF Pair
<1>6. m.res[p][f.t0] \in Nat /\ m.res[p][f.t1] \in Nat  BY <1>1, <1>4 DEF Modules
<1>7. CASE f.dir = "exactIn"
  <2>1. r = sold  BY <1>2, <1>5, <1>7 DEF Swap, PoolFound, Err, Panic, Ok
  <2> DEFINE A == m.res[p][f.t0]
             B == m.res[p][f.t1]
  <2>2. got \in Nat /\ got <= B /\ got * A <= amt * (B - got) /\ (A > 0 /\ B > 0 => got < B)
    BY <1>1, <1>6, AmountOutFacts
  <2> HIDE DEF got, r, p, amt
  <2>3. Executed(m, f, sold)  BY <1>1, <1>4, <1>5, <2>2, PricedTradeExecuted
  <2> QED BY <2>1, <2>3
<1>8. CASE f.dir = "exactOut"
  <2>1. r = bought /\ ~(m.res[p][f.t0] < amt)
    BY <1>2, <1>5, <1>8 DEF Swap, PoolFound, Err, Panic, Ok
  <2>2. amt = 0 \/ m.res[p][f.t0] # amt  BY <1>3, <1>8 DEF SwapPanics, CheckTickVerify
  <2> DEFINE A == m.res[p][f.t1]
             B == m.res[p][f.t0]
  <2> HIDE DEF amt
  <2>3. amt <= B /\ (amt = 0 \/ amt < B)  BY <1>1, <1>6, <2>1, <2>2
  <2>4. pay \in Nat /\ amt * A <= pay * (B - amt)  BY <1>1, <1>6, <2>3, AmountInFacts
  <2> HIDE DEF pay, r, p
  <2>5. Executed(m, f, bought)  BY <1>1, <1>4, <1>5, <1>6, <2>3, <2>4, PricedTradeExecuted
  <2> QED BY <2>1, <2>5
<1> QED BY <1>1, <1>7, <1>8

\* Any function of a commit.
LEMMA FunctionExecuted ==
  ASSUME NEW m \in Modules, PoolsSound(m), NEW f \in SwapFunctions, NEW e,
         f.fn = "deployPool" => f.t0 # f.t1
  PROVE  Executed(m, f, ProcessFunction(m, f, e).m)
<1>1. f.fn \in {"deployPool", "addLiq", "removeLiq", "swap", "decreaseApproval", "send", "sendLp"}
  BY DEF SwapFunctions
<1>2. CASE f.fn = "deployPool"
  <2>1. ProcessFunction(m, f, e) = DeployPool(m, f)  BY <1>2 DEF ProcessFunction
  <2> QED BY <1>2, <2>1, DeployExecuted
<1>3. CASE f.fn = "addLiq"
  <2>1. ProcessFunction(m, f, e) = AddLiquidity(m, f, e)  BY <1>3 DEF ProcessFunction
  <2> QED BY <2>1, AddLiquidityExecuted
<1>4. CASE f.fn = "removeLiq"
  <2>1. ProcessFunction(m, f, e) = RemoveLiquidity(m, f, e)  BY <1>4 DEF ProcessFunction
  <2> QED BY <2>1, RemoveLiquidityExecuted
<1>5. CASE f.fn = "swap"
  <2>1. ProcessFunction(m, f, e) = Swap(m, f, e)  BY <1>5 DEF ProcessFunction
  <2> QED BY <2>1, SwapExecuted
<1>6. CASE f.fn = "decreaseApproval"
  <2>1. ProcessFunction(m, f, e) = DecreaseApproval(m, f, e)  BY <1>6 DEF ProcessFunction
  <2> QED BY <2>1, DecreaseExecuted
<1>7. CASE f.fn = "send"
  <2>1. ProcessFunction(m, f, e) = Send(m, f, e)  BY <1>7 DEF ProcessFunction
  <2> QED BY <2>1, SendExecuted
<1>8. CASE f.fn = "sendLp"
  <2>1. ProcessFunction(m, f, e) = SendLp(m, f)  BY <1>8 DEF ProcessFunction
  <2> QED BY <2>1, SendLpExecuted
<1> QED BY <1>1, <1>2, <1>3, <1>4, <1>5, <1>6, <1>7, <1>8

\* One function more, with its gas.
LEMMA RanStep ==
  ASSUME NEW m, NEW c \in Commits, PoolsDiffer(c), NEW e, NEW r,
         RanOn(m, c, r.m), NEW k \in 1..Len(c.data)
  PROVE  RanOn(m, c, RunFunction(r, c.data[k], c.gas, e).m)
<1> DEFINE f == c.data[k]
           n == r.m
           g == GasFee(n, f, c.gas, e)
           s == RunFunction(r, f, c.gas, e)
<1>1. n \in Modules /\ KeepsRest(m, n) /\ PoolsSound(n) /\ (SameTicksIn(c) => Balanced(m, n))
  BY DEF RanOn
<1>2. c.gas \in Nat /\ c.data \in Seq(SwapFunctions)  BY CommitsAssumption
<1>3. f \in SwapFunctions /\ (f.fn = "deployPool" => f.t0 # f.t1) /\ (SameTicksIn(c) => f.same)
  BY <1>2 DEF PoolsDiffer, SameTicksIn
<1>4. s = r \/ s = g \/ s = ProcessFunction(g.m, f, e)  BY DEF RunFunction, AfterGas
<1> HIDE DEF f, n
<1>5. g.m \in Modules /\ KeepsPools(n, g.m) /\ KeepsRest(n, g.m) /\ Balanced(n, g.m)
  BY <1>1, <1>2, <1>3, GasFacts
<1> HIDE DEF g
<1>6. PoolsSound(g.m)  BY <1>1, <1>5, PoolsUntouched DEF KeepsPools
<1>7. RanOn(m, c, g.m)
  <2>1. KeepsRest(m, g.m)  BY <1>1, <1>5 DEF KeepsRest, KeepsChain
  <2> QED BY <1>1, <1>5, <1>6, <2>1 DEF RanOn, Balanced
<1>8. RanOn(m, c, ProcessFunction(g.m, f, e).m)
  <2> DEFINE o == ProcessFunction(g.m, f, e).m
  <2>1. Executed(g.m, f, o)  BY <1>3, <1>5, <1>6, FunctionExecuted
  <2> HIDE DEF o
  <2>2. o \in Modules /\ KeepsRest(g.m, o) /\ PoolsSound(o) /\ (f.same => Balanced(g.m, o))
    BY <2>1 DEF Executed
  <2>3. KeepsRest(m, o)  BY <1>7, <2>2 DEF RanOn, KeepsRest, KeepsChain
  <2>4. RanOn(m, c, o)  BY <1>3, <1>7, <2>2, <2>3 DEF RanOn, Balanced
  <2> QED BY <2>4 DEF o
<1> QED BY <1>4, <1>7, <1>8 DEF f, n

\* All functions of a commit.
LEMMA CommitRan ==
  ASSUME NEW m \in Modules, PoolsSound(m), NEW c \in Commits, PoolsDiffer(c),
         NEW e
  PROVE  RanOn(m, c, Run(m, c, e)[Len(c.data)].m)
<1> DEFINE n == Len(c.data)
           R == CommitRun(m, c, e)
           T == {k \in 0..n : RanOn(m, c, R[k].m)}
<1>1. n \in Nat  BY CommitsAssumption
<1>2. R[0] = Ok(m) /\ \A k \in 1..n : R[k] = RunFunction(R[k - 1], c.data[k], c.gas, e)
  BY <1>1, CommitRunUnfolds
<1> HIDE DEF R
<1>3. RanOn(m, c, R[0].m)  BY <1>2 DEF RanOn, Ok, KeepsRest, KeepsChain, Balanced
<1>4. ASSUME NEW j \in 1..n, RanOn(m, c, R[j - 1].m) PROVE RanOn(m, c, R[j].m)
  <2>1. RanOn(m, c, RunFunction(R[j - 1], c.data[j], c.gas, e).m)  BY <1>4, RanStep
  <2> QED BY <1>2, <2>1
<1>5. n \in T
  <2>1. n \in Nat /\ 0 \in T /\ \A j \in 1..n : j - 1 \in T => j \in T  BY <1>1, <1>3, <1>4
  <2> HIDE DEF n, T
  <2> QED BY <2>1, UpTo
<1> QED BY <1>5, RunIsRun DEF R

\* A change of the commits of the module only.
LEMMA ChainChanged ==
  ASSUME NEW m \in Modules, PoolsSound(m), NEW i \in SUBSET CommitIds, NEW d \in SUBSET CommitIds,
         NEW h \in SUBSET {c.parent : c \in Commits}, NEW n,
         n = [m EXCEPT !.ids = d, !.chain = h, !.invalid = i]
  PROVE  n \in Modules /\ KeepsApprovals(m, n) /\ PoolsSound(n) /\ Balanced(m, n)
<1>1. n \in Modules  BY DEF Modules
<1>2. /\ n.swap = m.swap /\ n.avail = m.avail /\ KeepsApprovals(m, n) /\ KeepsPools(m, n)
  BY DEF Modules, KeepsApprovals, KeepsPools
<1>3. PoolsSound(n)  BY <1>2, PoolsUntouched DEF KeepsPools
<1>4. \A t \in Ticks : OwedTo(n, t) = OwedTo(m, t) /\ InPools(n, t) = InPools(m, t)
  BY <1>2 DEF OwedTo, InPools, KeepsApprovals, KeepsPools
<1> QED BY <1>1, <1>2, <1>3, <1>4, LiabilitiesAre DEF Balanced

\* A commit that reached the module.
LEMMA CommitProcessed ==
  ASSUME NEW m0 \in Modules, PoolsSound(m0), NEW c \in Commits, PoolsDiffer(c),
         NEW sender, NEW now
  PROVE  LET n == ProcessCommit(m0, c, sender, now).m
         IN  /\ n \in Modules /\ KeepsApprovals(m0, n) /\ PoolsSound(n)
             /\ SameTicksIn(c) => Balanced(m0, n)
<1> DEFINE inv == m0.invalid \cup {c.id}
           m == [m0 EXCEPT !.invalid = inv]
           e == [enabled |-> now, known |-> Ticks]
           v == ProcessCommitVerify(m, c, e)
           n == ProcessCommit(m0, c, sender, now).m
           ids == v.m.ids \cup {c.id}
           chain == v.m.chain \cup {c.parent}
           inv2 == v.m.invalid \ {c.id}
           o == [v.m EXCEPT !.ids = ids, !.chain = chain, !.invalid = inv2]
<1>1. n = m \/ n = Chained(v, c).m  BY DEF ProcessCommit, Err
<1>2. Chained(v, c).m = v.m \/ Chained(v, c).m = o  BY DEF Chained, Ok
<1>3. c.id \in CommitIds /\ c.parent \in {d.parent : d \in Commits}  BY DEF CommitIds
<1>4. m \in Modules /\ KeepsApprovals(m0, m) /\ PoolsSound(m) /\ Balanced(m0, m)
  <2>1. /\ inv \in SUBSET CommitIds /\ m0.ids \in SUBSET CommitIds
        /\ m0.chain \in SUBSET {d.parent : d \in Commits}
    BY <1>3 DEF Modules
  <2>2. m = [m0 EXCEPT !.ids = m0.ids, !.chain = m0.chain, !.invalid = inv]  BY DEF Modules
  <2> HIDE DEF m, inv
  <2> QED BY <2>1, <2>2, ChainChanged
<1> HIDE DEF m, n
<1>5. RanOn(m, c, v.m)
  <2>1. v = Run(m, c, e)[Len(c.data)] \/ v = Err(m)  BY DEF ProcessCommitVerify
  <2>2. e.known = Ticks  OBVIOUS
  <2> HIDE DEF e
  <2>3. CASE v = Run(m, c, e)[Len(c.data)]  BY <1>4, <2>2, <2>3, CommitRan
  <2>4. CASE v = Err(m)
    <3>1. v.m = m  BY <2>4 DEF Err
    <3> QED BY <1>4, <3>1 DEF RanOn, KeepsRest, KeepsChain, Balanced
  <2> QED BY <2>1, <2>3, <2>4
<1> HIDE DEF v
<1>6. /\ v.m \in Modules /\ KeepsApprovals(m0, v.m) /\ PoolsSound(v.m)
      /\ SameTicksIn(c) => Balanced(m0, v.m)
  BY <1>4, <1>5 DEF RanOn, KeepsRest, KeepsApprovals, Balanced
<1>7. o \in Modules /\ KeepsApprovals(v.m, o) /\ PoolsSound(o) /\ Balanced(v.m, o)
  <2>1. /\ ids \in SUBSET CommitIds /\ inv2 \in SUBSET CommitIds
        /\ chain \in SUBSET {d.parent : d \in Commits}
    BY <1>3, <1>6 DEF Modules
  <2> DEFINE w == v.m
  <2> HIDE DEF ids, inv2, chain
  <2>2. o = [w EXCEPT !.ids = ids, !.chain = chain, !.invalid = inv2]  OBVIOUS
  <2>3. w \in Modules /\ PoolsSound(w)  BY <1>6
  <2> HIDE DEF w, o
  <2>4. o \in Modules /\ KeepsApprovals(w, o) /\ PoolsSound(o) /\ Balanced(w, o)
    BY <2>1, <2>2, <2>3, ChainChanged
  <2> QED BY <2>4 DEF w
<1> HIDE DEF o
<1>8. CASE n = m  BY <1>4, <1>8 DEF n
<1>9. CASE n = v.m  BY <1>6, <1>9 DEF n
<1>10. CASE n = o
  <2>1. KeepsApprovals(m0, o) /\ (SameTicksIn(c) => Balanced(m0, o))
    BY <1>6, <1>7 DEF KeepsApprovals, Balanced
  <2> QED BY <1>7, <1>10, <2>1 DEF n
<1> QED BY <1>1, <1>2, <1>8, <1>9, <1>10

-----------------------------------------------------------------------------
\* The sums of the invariant, for any list of inscriptions and any
\* balances, so that they can be stated of a state and of the next one.

\* Numbers, and only indices within the bound.
LEMMA PendingFacts ==
  ASSUME NEW x, Inscribed(x), NEW kind, NEW u, NEW t
  PROVE  /\ IsFiniteSet(1..MaxIns) /\ DOMAIN x = 1..Len(x) /\ DOMAIN x \subseteq 1..MaxIns
         /\ \A j \in DOMAIN x : x[j] \in Inscriptions /\ x[j].amt \in Nat /\ x[j].bal \in Nat
         /\ \A j \in 1..MaxIns : AmtOf(x, kind, u, t)[j] \in Nat /\ BalOf(x, kind, u, t)[j] \in Nat
         /\ TotalAmt(x, kind, u, t) \in Nat /\ TotalBal(x, kind, u, t) \in Nat
<1>1. IsFiniteSet(1..MaxIns) /\ DOMAIN x = 1..Len(x) /\ DOMAIN x \subseteq 1..MaxIns
  <2>1. Len(x) \in Nat /\ Len(x) <= MaxIns /\ MaxIns \in Nat /\ DOMAIN x = 1..Len(x)
    BY BoundsAssumption DEF Inscribed
  <2> QED BY <2>1, FS_Interval
<1>2. \A j \in DOMAIN x : x[j] \in Inscriptions /\ x[j].amt \in Nat /\ x[j].bal \in Nat
  <2> TAKE j \in DOMAIN x
  <2>1. x[j] \in Inscriptions  BY DEF Inscribed
  <2> QED BY <2>1 DEF Inscriptions
<1>3. \A j \in 1..MaxIns : AmtOf(x, kind, u, t)[j] \in Nat /\ BalOf(x, kind, u, t)[j] \in Nat
  BY <1>2 DEF AmtOf, BalOf, IsPending
<1>4. TotalAmt(x, kind, u, t) \in Nat /\ TotalBal(x, kind, u, t) \in Nat
  BY <1>1, <1>3, SumNat DEF TotalAmt, TotalBal
<1> QED BY <1>1, <1>2, <1>3, <1>4

\* They are the totals.
LEMMA TotalsArePending ==
  ASSUME NEW x, Inscribed(x), NEW kind, NEW u, NEW t
  PROVE  /\ PendingAmt(x, kind, u, t) = TotalAmt(x, kind, u, t)
         /\ PendingBal(x, kind, u, t) = TotalBal(x, kind, u, t)
<1> DEFINE S == 1..MaxIns
           P == PendingOf(x, kind, u, t)
           f == AmtOf(x, kind, u, t)
           g == BalOf(x, kind, u, t)
           a == [i \in P |-> x[i].amt]
           b == [i \in P |-> x[i].bal]
<1>1. /\ IsFiniteSet(S) /\ DOMAIN x \subseteq S
      /\ \A j \in S : f[j] \in Int /\ g[j] \in Int
  BY PendingFacts
<1>2. P \in SUBSET S /\ IsFiniteSet(P)
  <2>1. P \subseteq S  BY <1>1 DEF PendingOf
  <2> HIDE DEF P, S
  <2> QED BY <1>1, <2>1, FS_Subset
<1>3. \A j \in S : j \in P <=> IsPending(x, j, kind, u, t)  BY DEF IsPending, PendingOf
<1>4. \A j \in S \ P : f[j] = 0 /\ g[j] = 0  BY <1>3 DEF AmtOf, BalOf
<1>5. \A j \in P : f[j] = a[j] /\ g[j] = b[j]  BY <1>2, <1>3 DEF AmtOf, BalOf
<1> HIDE DEF S, P, f, g, a, b
<1>6. SumFunctionOnSet(f, S) = SumFunctionOnSet(f, P) /\ SumFunctionOnSet(g, S) = SumFunctionOnSet(g, P)
  BY <1>1, <1>2, <1>4, SumIgnoresZeros
<1>7. SumFunctionOnSet(f, P) = SumFunctionOnSet(a, P) /\ SumFunctionOnSet(g, P) = SumFunctionOnSet(b, P)
  BY <1>2, <1>5, SumAgrees
<1>8. PendingAmt(x, kind, u, t) = SumFunctionOnSet(a, P) /\ PendingBal(x, kind, u, t) = SumFunctionOnSet(b, P)
  BY DEF PendingAmt, PendingBal, a, b, P
<1> QED BY <1>6, <1>7, <1>8 DEF TotalAmt, TotalBal, f, g, S

\* PendingIsBacked in these terms.
LEMMA BackedNow ==
  ASSUME Inscribed(ins)
  PROVE  PendingIsBacked <=> Backed(ins, mod, tran) /\ CondsAdd(mod)
<1>1. PendingIsBacked <=>
        \A t \in Ticks :
          /\ \A u \in Users :
               /\ tran[u][t] = PendingAmt(ins, "transfer", u, t)
               /\ mod.appr[u][t] = PendingAmt(ins, "approve", u, t)
               /\ mod.cond[u][t] = PendingBal(ins, "cond", u, t)
          /\ mod.newAppr[t] - mod.cancel[t] - mod.okAppr[t]
               = SumFunctionOnSet(CondOf(mod, t), Users)
  BY DEF PendingIsBacked, SumOf, Pending, PendingOf, PendingAmt, PendingBal, CondOf
<1>2. \A kind, u, t : /\ PendingAmt(ins, kind, u, t) = TotalAmt(ins, kind, u, t)
                      /\ PendingBal(ins, kind, u, t) = TotalBal(ins, kind, u, t)
  BY TotalsArePending
<1> QED BY <1>1, <1>2 DEF Backed, CondsAdd

\* The same of the next state.
LEMMA BackedNext ==
  ASSUME Inscribed(ins')
  PROVE  PendingIsBacked' <=> Backed(ins', mod', tran') /\ CondsAdd(mod')
<1>1. PendingIsBacked' <=>
        \A t \in Ticks :
          /\ \A u \in Users :
               /\ tran'[u][t] = PendingAmt(ins', "transfer", u, t)
               /\ mod'.appr[u][t] = PendingAmt(ins', "approve", u, t)
               /\ mod'.cond[u][t] = PendingBal(ins', "cond", u, t)
          /\ mod'.newAppr[t] - mod'.cancel[t] - mod'.okAppr[t]
               = SumFunctionOnSet(CondOf(mod', t), Users)
  BY DEF PendingIsBacked, SumOf, Pending, PendingOf, PendingAmt, PendingBal, CondOf
<1>2. \A kind, u, t : /\ PendingAmt(ins', kind, u, t) = TotalAmt(ins', kind, u, t)
                      /\ PendingBal(ins', kind, u, t) = TotalBal(ins', kind, u, t)
  BY TotalsArePending
<1> QED BY <1>1, <1>2 DEF Backed, CondsAdd

\* Totals follow the inscription that changes.
LEMMA TotalsChange ==
  ASSUME NEW x, NEW y, Inscribed(x), Inscribed(y), NEW i, ChangesAt(x, y, i), NEW kind, NEW u, NEW t
  PROVE  /\ TotalAmt(y, kind, u, t) = TotalAmt(x, kind, u, t)
              + (AmtOf(y, kind, u, t)[i] - AmtOf(x, kind, u, t)[i])
         /\ (\A j \in 1..MaxIns : j # i => SameBalAt(x, y, j)) =>
              TotalBal(y, kind, u, t) = TotalBal(x, kind, u, t)
                + (BalOf(y, kind, u, t)[i] - BalOf(x, kind, u, t)[i])
<1> DEFINE S == 1..MaxIns
           f == AmtOf(x, kind, u, t)
           g == AmtOf(y, kind, u, t)
           k == BalOf(x, kind, u, t)
           l == BalOf(y, kind, u, t)
<1>1. /\ IsFiniteSet(S) /\ i \in S
      /\ \A j \in S : f[j] \in Nat /\ g[j] \in Nat /\ k[j] \in Nat /\ l[j] \in Nat
  BY PendingFacts DEF ChangesAt
<1>2. \A j \in S : j # i => (IsPending(y, j, kind, u, t) <=> IsPending(x, j, kind, u, t))
  BY DEF ChangesAt, SameAt, IsPending
<1>3. \A j \in S : j # i => g[j] = f[j]
  <2> TAKE j \in S
  <2> HAVE j # i
  <2>1. IsPending(x, j, kind, u, t) => y[j].amt = x[j].amt  BY DEF ChangesAt, SameAt, IsPending
  <2> QED BY <1>2, <2>1 DEF AmtOf
<1>4. ASSUME \A j \in S : j # i => SameBalAt(x, y, j)
      PROVE  \A j \in S : j # i => l[j] = k[j]
  <2> TAKE j \in S
  <2> HAVE j # i
  <2>1. IsPending(x, j, kind, u, t) => y[j].bal = x[j].bal  BY <1>4 DEF SameBalAt, IsPending
  <2> QED BY <1>2, <2>1 DEF BalOf
<1> HIDE DEF S, f, g, k, l
<1>5. Adds(S, f, g, i, g[i] - f[i])  BY <1>1, <1>3 DEF Adds
<1>6. ASSUME \A j \in S : j # i => l[j] = k[j]
      PROVE  Adds(S, k, l, i, l[i] - k[i])
  BY <1>1, <1>6 DEF Adds
<1>7. SumFunctionOnSet(g, S) = SumFunctionOnSet(f, S) + (g[i] - f[i])  BY <1>5, SumAdds
<1>8. ASSUME \A j \in S : j # i => l[j] = k[j]
      PROVE  SumFunctionOnSet(l, S) = SumFunctionOnSet(k, S) + (l[i] - k[i])
  BY <1>6, <1>8, SumAdds
<1> QED BY <1>4, <1>7, <1>8 DEF TotalAmt, TotalBal, f, g, k, l, S

\* Nothing changes that counts.
LEMMA TotalsSame ==
  ASSUME NEW x, NEW y, Inscribed(x), Inscribed(y), NEW kind, NEW u, NEW t,
         \A j \in 1..MaxIns : SameAt(x, y, j)
  PROVE  TotalAmt(y, kind, u, t) = TotalAmt(x, kind, u, t)
<1> DEFINE S == 1..MaxIns
           f == AmtOf(x, kind, u, t)
           g == AmtOf(y, kind, u, t)
<1>1. IsFiniteSet(S)  BY PendingFacts
<1>2. \A j \in S : f[j] = g[j]
  <2> TAKE j \in S
  <2>1. /\ IsPending(y, j, kind, u, t) <=> IsPending(x, j, kind, u, t)
        /\ IsPending(x, j, kind, u, t) => y[j].amt = x[j].amt
    BY DEF SameAt, IsPending
  <2> QED BY <2>1 DEF AmtOf
<1> HIDE DEF S, f, g
<1>3. SumFunctionOnSet(f, S) = SumFunctionOnSet(g, S)  BY <1>1, <1>2, SumAgrees
<1> QED BY <1>3 DEF TotalAmt, f, g, S

\* A new inscription.
LEMMA AppendTotals ==
  ASSUME NEW x, Inscribed(x), Len(x) < MaxIns, NEW z \in Inscriptions
  PROVE  Appended(x, z, Append(x, z))
<1> DEFINE n == Len(x) + 1
           y == Append(x, z)
<1>1. /\ x \in Seq(Inscriptions) /\ Len(x) \in Nat /\ MaxIns \in Nat /\ Len(x) < MaxIns
      /\ DOMAIN x = 1..Len(x)
  BY BoundsAssumption DEF Inscribed
<1>2. /\ y \in Seq(Inscriptions) /\ Len(y) = n /\ DOMAIN y = 1..n /\ y[n] = z
      /\ \A j \in 1..Len(x) : y[j] = x[j]
  BY <1>1
<1>3. Inscribed(y) /\ n \in 1..MaxIns /\ n \notin DOMAIN x /\ DOMAIN y = DOMAIN x \cup {n}
  BY <1>1, <1>2 DEF Inscribed
<1>4. \A j \in DOMAIN x : y[j] = x[j]  BY <1>1, <1>2
<1> HIDE DEF n, y
<1>5. ChangesAt(x, y, n) /\ \A j \in 1..MaxIns : j # n => SameBalAt(x, y, j)
  BY <1>3, <1>4 DEF ChangesAt, SameAt, SameBalAt
<1>6. ASSUME NEW kind, NEW u, NEW t
      PROVE  LET here == z.kind = kind /\ z.pending /\ z.owner = u /\ z.tick = t
             IN  /\ TotalAmt(y, kind, u, t) = TotalAmt(x, kind, u, t) + (IF here THEN z.amt ELSE 0)
                 /\ TotalBal(y, kind, u, t) = TotalBal(x, kind, u, t) + (IF here THEN z.bal ELSE 0)
  <2> DEFINE here == z.kind = kind /\ z.pending /\ z.owner = u /\ z.tick = t
             a == IF here THEN z.amt ELSE 0
             b == IF here THEN z.bal ELSE 0
  <2>1. ~IsPending(x, n, kind, u, t) /\ (IsPending(y, n, kind, u, t) <=> here)
    BY <1>2, <1>3 DEF IsPending
  <2>2. /\ AmtOf(x, kind, u, t)[n] = 0 /\ BalOf(x, kind, u, t)[n] = 0
        /\ AmtOf(y, kind, u, t)[n] = a /\ BalOf(y, kind, u, t)[n] = b
    BY <1>2, <1>3, <2>1 DEF AmtOf, BalOf
  <2>3. a \in Nat /\ b \in Nat  BY DEF Inscriptions
  <2> HIDE DEF a, b
  <2>4. /\ TotalAmt(y, kind, u, t) = TotalAmt(x, kind, u, t) + (a - 0)
        /\ TotalBal(y, kind, u, t) = TotalBal(x, kind, u, t) + (b - 0)
    BY <1>3, <1>5, <2>2, TotalsChange
  <2>5. a - 0 = a /\ b - 0 = b  BY <2>3
  <2> QED BY <2>4, <2>5 DEF a, b
<1> QED BY <1>2, <1>3, <1>4, <1>6 DEF n, y, Appended

\* An inscription stops to be pending.
LEMMA DropTotals ==
  ASSUME NEW x, NEW y, Inscribed(x), Inscribed(y), NEW i \in DOMAIN x, ChangesAt(x, y, i),
         i \in DOMAIN y, ~y[i].pending
  PROVE  \A kind, u, t :
           LET was == x[i].kind = kind /\ x[i].pending /\ x[i].owner = u /\ x[i].tick = t
           IN  TotalAmt(y, kind, u, t) = TotalAmt(x, kind, u, t) - (IF was THEN x[i].amt ELSE 0)
<1> TAKE kind, u, t
<1> DEFINE was == x[i].kind = kind /\ x[i].pending /\ x[i].owner = u /\ x[i].tick = t
           a == IF was THEN x[i].amt ELSE 0
<1>1. ~IsPending(y, i, kind, u, t) /\ (IsPending(x, i, kind, u, t) <=> was)  BY DEF IsPending
<1>2. i \in 1..MaxIns  BY DEF ChangesAt
<1>3. AmtOf(x, kind, u, t)[i] = a /\ AmtOf(y, kind, u, t)[i] = 0  BY <1>1, <1>2 DEF AmtOf
<1>4. a \in Nat  BY PendingFacts
<1> HIDE DEF a
<1>5. TotalAmt(y, kind, u, t) = TotalAmt(x, kind, u, t) + (0 - a)  BY <1>3, TotalsChange
<1>6. TotalAmt(x, kind, u, t) \in Nat  BY PendingFacts
<1>7. TotalAmt(x, kind, u, t) + (0 - a) = TotalAmt(x, kind, u, t) - a  BY <1>4, <1>6
<1> QED BY <1>5, <1>7 DEF a

\* The inductive invariant in these terms.
LEMMA InvNow ==
  LedgerInv <=> /\ Typed /\ TxSound /\ MatchSound /\ ValidIsPending /\ ValidCommits
                /\ Supply(bal, tran, minted, burned)
                /\ Backed(ins, mod, tran) /\ CondsAdd(mod) /\ PoolsSound(mod)
<1>1. SupplyIsHeld <=> Supply(bal, tran, minted, burned)  BY DEF SupplyIsHeld, SumOf, Supply, Held
<1>2. Typed => (PendingIsBacked <=> Backed(ins, mod, tran) /\ CondsAdd(mod))
  BY BackedNow DEF Typed, Inscribed
<1> QED BY <1>1, <1>2 DEF LedgerInv

\* The same of the next state.
LEMMA InvNext ==
  ASSUME Typed', TxSound', MatchSound', ValidIsPending', ValidCommits',
         Supply(bal', tran', minted', burned'),
         Backed(ins', mod', tran'), CondsAdd(mod'), PoolsSound(mod')
  PROVE  LedgerInv'
<1>1. SupplyIsHeld'  BY DEF SupplyIsHeld, SumOf, Supply, Held
<1>2. PendingIsBacked'  BY BackedNext DEF Typed, Inscribed
<1>3. PoolsSound(mod)'  BY DEF PoolsSound, PoolSound, RootK, Other, Sqrt
<1> QED BY <1>1, <1>2, <1>3 DEF LedgerInv

\* Then the states stay sound.
LEMMA TxKept ==
  ASSUME TxSound, MatchSound, Inscribed(ins), Inscribed(ins'), Grows(ins, ins'), UNCHANGED tx
  PROVE  TxSound' /\ MatchSound'
<1>1. /\ heap' = heap /\ static' = static /\ list' = list /\ apprs' = apprs /\ matched' = matched
  BY DEF tx
<1>2. Refers(static)' /\ Refers(list)'
  <2>1. Refers(static) /\ Refers(list)  BY DEF TxSound
  <2> QED BY <1>1, <2>1 DEF Refers
<1>3. WaitOnce' /\ WaitingArePending'
  <2>1. WaitOnce /\ WaitingArePending  BY DEF TxSound
  <2>2. WaitOnce'  BY <1>1, <2>1 DEF WaitOnce
  <2>3. WaitingArePending'  BY <1>1, <2>1 DEF WaitingArePending, Grows
  <2> QED BY <2>2, <2>3
<1>4. \A k \in 1..Len(heap) : heap[k].ins \in DOMAIN ins /\ ins[heap[k].ins].moves # 0
  BY DEF TxSound
<1>5. TxSound'
  <2>1. heap \in Seq(TransferStates) /\ apprs \in Seq(ApproveStates)  BY DEF TxSound
  <2>2. \A k \in 1..Len(heap) : heap[k].ins \in DOMAIN ins' /\ ins'[heap[k].ins].moves # 0
    BY <1>4 DEF Grows
  <2> QED BY <1>1, <1>2, <1>3, <2>1, <2>2 DEF TxSound
<1>6. MatchSound'
  <2>1. /\ matched \in [1..MaxIns -> Nat]
        /\ \A i \in DOMAIN ins : matched[i] <= ins[i].amt
        /\ \A i \in 1..MaxIns : matched[i] # 0 => i \in DOMAIN ins /\ ins[i].moves # 0
    BY DEF MatchSound, MatchedAtMostOnce
  <2>2. /\ DOMAIN ins' \subseteq 1..MaxIns
        /\ \A j \in DOMAIN ins' : ins'[j].amt \in Nat
    BY PendingFacts
  <2>3. \A i \in DOMAIN ins' : matched[i] <= ins'[i].amt
    <3> TAKE i \in DOMAIN ins'
    <3>1. CASE i \in DOMAIN ins  BY <2>1, <3>1 DEF Grows
    <3>2. CASE i \notin DOMAIN ins
      <4>1. matched[i] = 0  BY <2>1, <2>2, <3>2
      <4> QED BY <2>2, <4>1
    <3> QED BY <3>1, <3>2
  <2>4. \A i \in 1..MaxIns : matched[i] # 0 => i \in DOMAIN ins' /\ ins'[i].moves # 0
    BY <2>1 DEF Grows
  <2>5. Candidates' = Candidates  BY <1>1 DEF Candidates
  <2> DEFINE C == Candidates
  <2>6. \A k \in DOMAIN C : matched[heap[C[k]].ins] + heap[C[k]].bal <= ins[heap[C[k]].ins].amt
    BY DEF MatchSound
  <2>7. \A k \in DOMAIN C : heap[C[k]].ins \in DOMAIN ins
    <3>1. \A k \in DOMAIN C : C[k] \in 1..Len(heap)  BY DEF Candidates, TxSound, Refers
    <3> QED BY <1>4, <3>1
  <2> HIDE DEF C
  <2>8. \A k \in DOMAIN C : matched[heap[C[k]].ins] + heap[C[k]].bal <= ins'[heap[C[k]].ins].amt
    BY <2>6, <2>7 DEF Grows
  <2> QED BY <1>1, <2>1, <2>3, <2>4, <2>5, <2>8 DEF MatchSound, MatchedAtMostOnce, C
<1> QED BY <1>5, <1>6

-----------------------------------------------------------------------------
\* The invariant, action by action.

\* Steps that change neither balances nor inscriptions nor the module.
LEMMA NothingMoves ==
  ASSUME LedgerInv, UNCHANGED <<minted, burned, bal, tran, ins, mod, tx>>
  PROVE  LedgerInv'
<1>1. /\ Typed /\ TxSound /\ MatchSound /\ ValidIsPending /\ ValidCommits
      /\ Supply(bal, tran, minted, burned)
      /\ Backed(ins, mod, tran) /\ CondsAdd(mod) /\ PoolsSound(mod)
  BY InvNow
<1>2. Inscribed(ins) /\ Inscribed(ins')  BY <1>1 DEF Typed, Inscribed
<1>3. Grows(ins, ins')  BY DEF Grows
<1>4. TxSound' /\ MatchSound'  BY <1>1, <1>2, <1>3, TxKept
<1>5. Typed' /\ ValidIsPending' /\ ValidCommits'  BY <1>1 DEF Typed, ValidIsPending, ValidCommits
<1> QED BY <1>1, <1>4, <1>5, InvNext

\* The transaction ends.
LEMMA TxEnds ==
  ASSUME LedgerInv, UNCHANGED <<minted, burned, bal, tran, ins, mod, matched>>, ClearTx
  PROVE  LedgerInv'
<1>1. /\ Typed /\ TxSound /\ MatchSound /\ ValidIsPending /\ ValidCommits
      /\ Supply(bal, tran, minted, burned)
      /\ Backed(ins, mod, tran) /\ CondsAdd(mod) /\ PoolsSound(mod)
  BY InvNow
<1>2. /\ heap' = << >> /\ static' = << >> /\ list' = << >> /\ apprs' = << >>
      /\ Len(heap') = 0 /\ Len(apprs') = 0 /\ DOMAIN static' = {} /\ DOMAIN list' = {}
      /\ DOMAIN apprs' = {}
  BY DEF ClearTx
<1>3. TxSound'
  <2>1. Refers(static)' /\ Refers(list)'  BY <1>2 DEF Refers
  <2>2. WaitOnce' /\ WaitingArePending'  BY <1>2 DEF WaitOnce, WaitingArePending
  <2>3. heap' \in Seq(TransferStates) /\ apprs' \in Seq(ApproveStates)  BY <1>2
  <2> QED BY <1>2, <2>1, <2>2, <2>3 DEF TxSound
<1>4. MatchSound'
  <2>1. DOMAIN Candidates' = {}  BY <1>2 DEF Candidates
  <2> QED BY <1>1, <2>1 DEF MatchSound, MatchedAtMostOnce
<1>5. Typed' /\ ValidIsPending' /\ ValidCommits'  BY <1>1 DEF Typed, ValidIsPending, ValidCommits
<1> QED BY <1>1, <1>3, <1>4, <1>5, InvNext

\* A new inscription keeps them.
LEMMA ListGrows ==
  ASSUME ListInv, NEW z \in Inscriptions, Len(ins) < MaxIns, ins' = Append(ins, z), UNCHANGED tx,
         z.pending = z.valid,
         z.kind = "commit" => z.c \in CommitIds /\ (z.valid => PoolsDiffer(CommitOf(z.c)))
  PROVE  /\ Inscribed(ins') /\ TxSound' /\ MatchSound' /\ ValidIsPending' /\ ValidCommits'
         /\ \A kind, u, t :
              LET here == z.kind = kind /\ z.pending /\ z.owner = u /\ z.tick = t
              IN  /\ TotalAmt(ins', kind, u, t) = TotalAmt(ins, kind, u, t)
                                                  + (IF here THEN z.amt ELSE 0)
                  /\ TotalBal(ins', kind, u, t) = TotalBal(ins, kind, u, t)
                                                  + (IF here THEN z.bal ELSE 0)
<1> DEFINE n == Len(ins) + 1
<1>1. Inscribed(ins) /\ TxSound /\ MatchSound /\ ValidIsPending /\ ValidCommits  BY DEF ListInv
<1>a. Appended(ins, z, ins')  BY <1>1, AppendTotals
<1>2. /\ Inscribed(ins') /\ DOMAIN ins' = DOMAIN ins \cup {n}
      /\ ins'[n] = z /\ n \notin DOMAIN ins
      /\ \A j \in DOMAIN ins : ins'[j] = ins[j]
  BY <1>a DEF Appended
<1>3. \A kind, u, t :
        LET here == z.kind = kind /\ z.pending /\ z.owner = u /\ z.tick = t
        IN  /\ TotalAmt(ins', kind, u, t) = TotalAmt(ins, kind, u, t) + (IF here THEN z.amt ELSE 0)
            /\ TotalBal(ins', kind, u, t) = TotalBal(ins, kind, u, t) + (IF here THEN z.bal ELSE 0)
  BY <1>a DEF Appended
<1> HIDE DEF n
<1>4. Grows(ins, ins')  BY <1>2 DEF Grows
<1>5. TxSound' /\ MatchSound'  BY <1>1, <1>2, <1>4, TxKept
<1>6. ValidIsPending'
  <2>1. ASSUME NEW j \in DOMAIN ins'
        PROVE  /\ ins'[j].kind = "transfer" /\ ins'[j].valid /\ ins'[j].moves = 0 => ins'[j].pending
               /\ ins'[j].kind = "cond" /\ ins'[j].valid => ins'[j].pending
    <3>1. CASE j \in DOMAIN ins  BY <1>1, <1>2, <3>1 DEF ValidIsPending
    <3>2. CASE j = n  BY <1>2, <3>2
    <3> QED BY <1>2, <3>1, <3>2
  <2> QED BY <2>1 DEF ValidIsPending
<1>7. ValidCommits'
  <2>1. ASSUME NEW j \in DOMAIN ins', ins'[j].kind = "commit"
        PROVE  /\ ins'[j].c \in CommitIds
               /\ ins'[j].valid => PoolsDiffer(CommitOf(ins'[j].c))
    <3>1. CASE j \in DOMAIN ins  BY <1>1, <1>2, <2>1, <3>1 DEF ValidCommits
    <3>2. CASE j = n  BY <1>2, <2>1, <3>2
    <3> QED BY <1>2, <3>1, <3>2
  <2> QED BY <2>1 DEF ValidCommits, PoolsDiffer, CommitOf
<1> QED BY <1>2, <1>3, <1>5, <1>6, <1>7

\* An inscription that moves and nothing else.
LEMMA ListMoves ==
  ASSUME ListInv, Inscribed(ins'), DOMAIN ins' = DOMAIN ins, NEW i \in DOMAIN ins, UNCHANGED tx,
         \A j \in DOMAIN ins : j # i => ins'[j] = ins[j],
         Grows(ins, ins'), ins'[i].moves # 0, ins'[i].valid = ins[i].valid,
         ins'[i].c = ins[i].c
  PROVE  TxSound' /\ MatchSound' /\ ValidIsPending' /\ ValidCommits'
<1>1. Inscribed(ins) /\ TxSound /\ MatchSound /\ ValidIsPending /\ ValidCommits  BY DEF ListInv
<1>2. TxSound' /\ MatchSound'  BY <1>1, TxKept
<1>3. ValidIsPending'
  <2>1. ASSUME NEW j \in DOMAIN ins'
        PROVE  /\ ins'[j].kind = "transfer" /\ ins'[j].valid /\ ins'[j].moves = 0 => ins'[j].pending
               /\ ins'[j].kind = "cond" /\ ins'[j].valid => ins'[j].pending
    <3>1. CASE j # i  BY <1>1, <3>1 DEF ValidIsPending
    <3>2. CASE j = i  BY <1>1, <3>2 DEF ValidIsPending, Grows
    <3> QED BY <3>1, <3>2
  <2> QED BY <2>1 DEF ValidIsPending
<1>4. ValidCommits'
  <2>1. ASSUME NEW j \in DOMAIN ins', ins'[j].kind = "commit"
        PROVE  /\ ins'[j].c \in CommitIds
               /\ ins'[j].valid => PoolsDiffer(CommitOf(ins'[j].c))
    <3>1. CASE j # i  BY <1>1, <2>1, <3>1 DEF ValidCommits
    <3>2. CASE j = i  BY <1>1, <2>1, <3>2 DEF ValidCommits, Grows
    <3> QED BY <3>1, <3>2
  <2> QED BY <2>1 DEF ValidCommits, PoolsDiffer, CommitOf
<1> QED BY <1>2, <1>3, <1>4

\* The fields of a new inscription.
LEMMA InscriptionFacts ==
  ASSUME NEW kind \in Kinds, NEW u \in Users, NEW t \in Ticks, NEW amt \in Nat, NEW valid \in BOOLEAN
  PROVE  LET z == Inscription(kind, u, t, amt, valid)
         IN  /\ z \in Inscriptions /\ z.kind = kind /\ z.owner = u /\ z.tick = t /\ z.amt = amt
             /\ z.valid = valid /\ z.pending = valid /\ z.moves = 0
             /\ z.bal = (IF valid THEN amt ELSE 0) /\ z.c = "none"
BY DEF Inscription, Inscriptions

\* Minting.
LEMMA MintKeepsInv ==
  ASSUME LedgerInv, NEW t \in Ticks, NEW u \in Inscribers, NEW amt \in Amounts, Mint(t, u, amt)
  PROVE  LedgerInv'
<1> DEFINE a == MintedAmount(t, amt)
<1>1. /\ Typed /\ TxSound /\ MatchSound /\ ValidIsPending /\ ValidCommits
      /\ Supply(bal, tran, minted, burned)
      /\ Backed(ins, mod, tran) /\ CondsAdd(mod) /\ PoolsSound(mod)
  BY InvNow
<1>2. /\ bal \in Balances /\ tran \in Balances /\ minted \in Totals /\ burned \in Totals
      /\ u \in Users /\ Burn \in Users /\ amt \in Nat /\ MaxSupply \in [Ticks -> Nat]
      /\ IsFiniteSet(Users)
  BY <1>1, ScriptsAssumption, SupplyAssumption DEF Typed
<1>3. /\ minted[t] \in Int /\ MaxSupply[t] \in Nat /\ minted[t] <= MaxSupply[t]
  BY <1>1, <1>2 DEF Supply, Totals
<1>4. a \in Nat /\ minted[t] + a <= MaxSupply[t]  BY <1>2, <1>3 DEF MintedAmount
<1>5. /\ minted' = [minted EXCEPT ![t] = @ + a]
      /\ bal' = [bal EXCEPT ![u][t] = @ + a]
      /\ burned' = [burned EXCEPT ![t] = IF u = Burn THEN @ + a ELSE @]
      /\ tran' = tran /\ ins' = ins /\ mod' = mod /\ UNCHANGED tx
  BY DEF Mint
<1> HIDE DEF a
<1>6. /\ minted' \in Totals /\ burned' \in Totals /\ bal' \in Balances
      /\ \A s \in Ticks : /\ minted'[s] = minted[s] + (IF s = t THEN a ELSE 0)
                          /\ burned'[s] = burned[s] + (IF u = Burn /\ s = t THEN a ELSE 0)
      /\ \A v \in Users, s \in Ticks : bal'[v][s] = bal[v][s] + (IF v = u /\ s = t THEN a ELSE 0)
  BY <1>2, <1>4, <1>5 DEF Totals, Balances
<1>7. Supply(bal', tran', minted', burned')
  <2> SUFFICES ASSUME NEW s \in Ticks
               PROVE  /\ SumFunctionOnSet(Held(bal', tran', s), Users) = minted'[s]
                      /\ minted'[s] <= MaxSupply[s]
                      /\ burned'[s] = bal'[Burn][s] + tran'[Burn][s]
    BY DEF Supply
  <2> DEFINE d == IF s = t THEN a ELSE 0
             f == Held(bal, tran, s)
             g == Held(bal', tran', s)
  <2>1. /\ SumFunctionOnSet(f, Users) = minted[s] /\ minted[s] <= MaxSupply[s]
        /\ burned[s] = bal[Burn][s] + tran[Burn][s]
    BY <1>1 DEF Supply
  <2>2. d \in Nat  BY <1>4
  <2>3. Adds(Users, f, g, u, d)
    <3>1. \A v \in Users : bal[v][s] \in Int /\ tran[v][s] \in Int  BY <1>2 DEF Balances
    <3>2. \A v \in Users : f[v] \in Int /\ g[v] = f[v] + (IF v = u THEN d ELSE 0)
      BY <1>4, <1>5, <1>6, <3>1 DEF Held
    <3> HIDE DEF f, g, d
    <3> QED BY <1>2, <2>2, <3>2 DEF Adds
  <2>4. SumFunctionOnSet(g, Users) = minted[s] + d
    <3> HIDE DEF f, g, d
    <3> QED BY <2>1, <2>3, SumAdds
  <2>5. minted'[s] = minted[s] + d /\ minted'[s] <= MaxSupply[s]
    BY <1>4, <1>6, <2>1, <1>2 DEF Totals
  <2>6. burned'[s] = bal'[Burn][s] + tran'[Burn][s]
    <3>1. bal[Burn][s] \in Int /\ tran[Burn][s] \in Int  BY <1>2 DEF Balances
    <3> QED BY <1>2, <1>4, <1>5, <1>6, <2>1, <3>1
  <2> QED BY <2>4, <2>5, <2>6
<1>8. Inscribed(ins) /\ Inscribed(ins') /\ Grows(ins, ins')
  BY <1>1, <1>5 DEF Typed, Inscribed, Grows
<1>9. TxSound' /\ MatchSound'  BY <1>1, <1>5, <1>8, TxKept
<1>10. Typed' /\ ValidIsPending' /\ ValidCommits'
  BY <1>1, <1>5, <1>6 DEF Typed, ValidIsPending, ValidCommits
<1> QED BY <1>1, <1>5, <1>7, <1>9, <1>10, InvNext

\* The numbers in it.
LEMMA FundNumbers ==
  ASSUME NEW m \in Modules, NEW b \in Balances, NEW r \in Balances, NEW t \in Ticks
  PROVE  Liabilities(m, t) \in Int /\ m.dep[t] \in Int /\ Holds(b, r, t) \in Int
<1>1. SumFunctionOnSet(OwedTo(m, t), Users) \in Int /\ SumFunctionOnSet(InPools(m, t), Pairs) \in Int
  BY OwedInt
<1>2. Liabilities(m, t) \in Int  BY <1>1, LiabilitiesAre
<1>3. m.dep[t] \in Int  BY DEF Modules, Totals
<1>4. Module \in Users  BY ScriptsAssumption
<1>5. b[Module][t] \in Int /\ r[Module][t] \in Int  BY <1>4 DEF Balances
<1> QED BY <1>2, <1>3, <1>5 DEF Holds

\* Balanced changes, without a deposit, while the module's script loses nothing.
LEMMA FundsBalanced ==
  ASSUME Typed, Typed', Balanced(mod, mod'), mod'.dep = mod.dep,
         \A t \in Ticks : Holds(bal, tran, t) <= Holds(bal', tran', t)
  PROVE  Funds
<1> SUFFICES ASSUME NEW t \in Ticks
             PROVE  /\ Liabilities(mod', t) - mod'.dep[t] = Liabilities(mod, t) - mod.dep[t]
                    /\ mod'.dep[t] - mod.dep[t] <= Holds(bal', tran', t) - Holds(bal, tran, t)
  BY DEF Funds
<1>1. mod \in Modules /\ bal \in Balances /\ tran \in Balances  BY DEF Typed
<1>2. mod' \in Modules /\ bal' \in Balances /\ tran' \in Balances  BY DEF Typed
<1>3. Liabilities(mod, t) \in Int /\ mod.dep[t] \in Int /\ Holds(bal, tran, t) \in Int
  BY <1>1, FundNumbers
<1>4. Holds(bal', tran', t) \in Int  BY <1>2, FundNumbers
<1>5. Liabilities(mod', t) = Liabilities(mod, t) /\ mod'.dep[t] = mod.dep[t]  BY DEF Balanced
<1>6. Holds(bal, tran, t) <= Holds(bal', tran', t)  OBVIOUS
<1> DEFINE A == mod.dep[t]
           B == Holds(bal, tran, t)
           C == Holds(bal', tran', t)
<1>7. A - A <= C - B
  <2>1. A \in Int /\ B \in Int /\ C \in Int /\ B <= C  BY <1>3, <1>4, <1>6
  <2> HIDE DEF A, B, C
  <2> QED BY <2>1
<1> QED BY <1>5, <1>7

\* Nothing changes.
LEMMA FundsSame ==
  ASSUME Typed, UNCHANGED <<mod, bal, tran>>
  PROVE  Funds
<1> SUFFICES ASSUME NEW t \in Ticks
             PROVE  /\ Liabilities(mod', t) - mod'.dep[t] = Liabilities(mod, t) - mod.dep[t]
                    /\ mod'.dep[t] - mod.dep[t] <= Holds(bal', tran', t) - Holds(bal, tran, t)
  BY DEF Funds
<1>1. mod \in Modules /\ bal \in Balances /\ tran \in Balances  BY DEF Typed
<1>2. mod.dep[t] \in Int /\ Holds(bal, tran, t) \in Int  BY <1>1, FundNumbers
<1>3. mod' = mod /\ bal' = bal /\ tran' = tran  OBVIOUS
<1>4. mod.dep[t] - mod.dep[t] <= Holds(bal, tran, t) - Holds(bal, tran, t)  BY <1>2
<1> QED BY <1>3, <1>4

\* Balances that move within a user, pools untouched.
LEMMA OwedSame ==
  ASSUME NEW m, NEW n, n.res = m.res,
         \A u \in Users, t \in Ticks :
           n.swap[u][t] + n.avail[u][t] + n.appr[u][t] + n.cond[u][t]
             = m.swap[u][t] + m.avail[u][t] + m.appr[u][t] + m.cond[u][t]
  PROVE  Balanced(m, n)
<1>1. \A t \in Ticks : OwedTo(n, t) = OwedTo(m, t) /\ InPools(n, t) = InPools(m, t)
  BY DEF OwedTo, InPools
<1> QED BY <1>1, LiabilitiesAre DEF Balanced

\* A mint funds nothing but may add to what the module's script holds.
LEMMA MintFunds ==
  ASSUME LedgerInv, LedgerInv', NEW t \in Ticks, NEW u \in Inscribers, NEW amt \in Amounts,
         Mint(t, u, amt)
  PROVE  Funds
<1> DEFINE a == MintedAmount(t, amt)
<1>1. Typed /\ Typed' /\ Supply(bal, tran, minted, burned)  BY InvNow DEF LedgerInv
<1>2. /\ bal \in Balances /\ tran \in Balances /\ minted \in Totals
      /\ u \in Users /\ Module \in Users /\ amt \in Nat /\ MaxSupply \in [Ticks -> Nat]
  BY <1>1, ScriptsAssumption, SupplyAssumption DEF Typed
<1>3. a \in Nat
  <2>1. minted[t] \in Int /\ MaxSupply[t] \in Nat /\ minted[t] <= MaxSupply[t]
    BY <1>1, <1>2 DEF Supply, Totals
  <2> QED BY <1>2, <2>1 DEF MintedAmount
<1>4. bal' = [bal EXCEPT ![u][t] = @ + a] /\ tran' = tran /\ mod' = mod  BY DEF Mint
<1> HIDE DEF a
<1>5. \A s \in Ticks : Holds(bal, tran, s) <= Holds(bal', tran', s)
  <2> TAKE s \in Ticks
  <2>1. bal[Module][s] \in Int /\ tran[Module][s] \in Int  BY <1>2 DEF Balances
  <2>2. bal'[Module][s] = bal[Module][s] \/ bal'[Module][s] = bal[Module][s] + a
    BY <1>2, <1>4 DEF Balances
  <2> QED BY <1>3, <1>4, <2>1, <2>2 DEF Holds
<1>6. Balanced(mod, mod') /\ mod'.dep = mod.dep  BY <1>4 DEF Balanced
<1> QED BY <1>1, <1>5, <1>6, FundsBalanced

\* A transfer is inscribed.
LEMMA InscribeTransferKeepsInv ==
  ASSUME LedgerInv, NEW u \in Inscribers, NEW t \in Ticks, NEW amt \in Amounts,
         InscribeTransfer(u, t, amt)
  PROVE  LedgerInv' /\ Funds
<1> DEFINE valid == bal[u][t] >= amt
           z == Inscription("transfer", u, t, amt, valid)
           a == IF valid THEN amt ELSE 0
<1>1. /\ Typed /\ TxSound /\ MatchSound /\ ValidIsPending /\ ValidCommits
      /\ Supply(bal, tran, minted, burned)
      /\ Backed(ins, mod, tran) /\ CondsAdd(mod) /\ PoolsSound(mod)
  BY InvNow
<1>2. /\ bal \in Balances /\ tran \in Balances /\ u \in Users /\ amt \in Nat /\ Burn \in Users
      /\ Module \in Users
  BY <1>1, ScriptsAssumption, SupplyAssumption DEF Typed
<1>3. valid \in BOOLEAN /\ a \in Nat  BY <1>2
<1>4. /\ Len(ins) < MaxIns /\ ins' = Append(ins, z) /\ UNCHANGED tx
      /\ minted' = minted /\ burned' = burned /\ mod' = mod
  BY DEF InscribeTransfer, CanInscribe, tick
<1>5. /\ bal' = [bal EXCEPT ![u][t] = IF valid THEN @ - amt ELSE @]
      /\ tran' = [tran EXCEPT ![u][t] = IF valid THEN @ + amt ELSE @]
  BY DEF InscribeTransfer
<1> HIDE DEF valid
<1>6. /\ z \in Inscriptions /\ z.kind = "transfer" /\ z.owner = u /\ z.tick = t /\ z.amt = amt
      /\ z.valid = valid /\ z.pending = valid
  <2>1. "transfer" \in Kinds  BY DEF Kinds
  <2> QED BY <1>2, <1>3, <2>1, InscriptionFacts
<1> HIDE DEF z
<1>7. /\ bal' \in Balances /\ tran' \in Balances
      /\ \A v \in Users, s \in Ticks :
           /\ bal'[v][s] = bal[v][s] - (IF v = u /\ s = t THEN a ELSE 0)
           /\ tran'[v][s] = tran[v][s] + (IF v = u /\ s = t THEN a ELSE 0)
  BY <1>2, <1>3, <1>5 DEF Balances
<1>8. \A v \in Users, s \in Ticks : bal'[v][s] + tran'[v][s] = bal[v][s] + tran[v][s]
  <2> TAKE v \in Users, s \in Ticks
  <2>1. bal[v][s] \in Int /\ tran[v][s] \in Int  BY <1>2 DEF Balances
  <2> HIDE DEF a
  <2> QED BY <1>3, <1>7, <2>1
<1>9. Supply(bal', tran', minted', burned')
  <2>1. \A s \in Ticks : Held(bal', tran', s) = Held(bal, tran, s)  BY <1>8 DEF Held
  <2> QED BY <1>1, <1>2, <1>4, <1>8, <2>1 DEF Supply
<1>10. ListInv  BY <1>1 DEF Typed, Inscribed, ListInv
<1>11. /\ Inscribed(ins') /\ TxSound' /\ MatchSound' /\ ValidIsPending' /\ ValidCommits'
       /\ \A kind, v, s :
            LET here == z.kind = kind /\ z.pending /\ z.owner = v /\ z.tick = s
            IN  /\ TotalAmt(ins', kind, v, s) = TotalAmt(ins, kind, v, s)
                                                + (IF here THEN z.amt ELSE 0)
                /\ TotalBal(ins', kind, v, s) = TotalBal(ins, kind, v, s)
                                                + (IF here THEN z.bal ELSE 0)
  BY <1>4, <1>6, <1>10, ListGrows
<1>12. Backed(ins', mod', tran')
  <2> SUFFICES ASSUME NEW v \in Users, NEW s \in Ticks
               PROVE  /\ tran'[v][s] = TotalAmt(ins', "transfer", v, s)
                      /\ mod.appr[v][s] = TotalAmt(ins', "approve", v, s)
                      /\ mod.cond[v][s] = TotalBal(ins', "cond", v, s)
    BY <1>4 DEF Backed
  <2>1. /\ tran[v][s] = TotalAmt(ins, "transfer", v, s)
        /\ mod.appr[v][s] = TotalAmt(ins, "approve", v, s)
        /\ mod.cond[v][s] = TotalBal(ins, "cond", v, s)
    BY <1>1 DEF Backed
  <2>2. /\ TotalAmt(ins, "approve", v, s) \in Nat /\ TotalBal(ins, "cond", v, s) \in Nat
    BY <1>10, PendingFacts DEF ListInv
  <2>3. TotalAmt(ins', "transfer", v, s) = TotalAmt(ins, "transfer", v, s) + (IF v = u /\ s = t THEN a ELSE 0)
    BY <1>6, <1>11
  <2>4. /\ TotalAmt(ins', "approve", v, s) = TotalAmt(ins, "approve", v, s) + 0
        /\ TotalBal(ins', "cond", v, s) = TotalBal(ins, "cond", v, s) + 0
    BY <1>6, <1>11
  <2> QED BY <1>7, <2>1, <2>2, <2>3, <2>4
<1>13. Typed'  BY <1>1, <1>4, <1>7, <1>11 DEF Typed, Inscribed
<1>14. LedgerInv'  BY <1>1, <1>4, <1>9, <1>11, <1>12, <1>13, InvNext
<1>15. Funds
  <2>1. \A s \in Ticks : Holds(bal, tran, s) <= Holds(bal', tran', s)
    <3> TAKE s \in Ticks
    <3>1. bal[Module][s] \in Int /\ tran[Module][s] \in Int  BY <1>2 DEF Balances
    <3>2. bal'[Module][s] + tran'[Module][s] = bal[Module][s] + tran[Module][s]  BY <1>2, <1>8
    <3> QED BY <3>1, <3>2 DEF Holds
  <2>2. Balanced(mod, mod') /\ mod'.dep = mod.dep  BY <1>4 DEF Balanced
  <2> QED BY <1>1, <1>13, <2>1, <2>2, FundsBalanced
<1> QED BY <1>14, <1>15

\* An inscription of the module keeps the invariant.
LEMMA InscribeModule ==
  ASSUME LedgerInv, UNCHANGED <<minted, burned, bal, tran, tx>>, NEW z \in Inscriptions,
         Len(ins) < MaxIns, ins' = Append(ins, z), z.kind # "transfer", z.pending = z.valid,
         z.kind = "commit" => z.c \in CommitIds /\ (z.valid => PoolsDiffer(CommitOf(z.c))),
         Books1(mod, mod', z)
  PROVE  LedgerInv' /\ Funds
<1>1. /\ Typed /\ TxSound /\ MatchSound /\ ValidIsPending /\ ValidCommits
      /\ Supply(bal, tran, minted, burned)
      /\ Backed(ins, mod, tran) /\ CondsAdd(mod) /\ PoolsSound(mod)
  BY InvNow
<1>2. /\ mod' \in Modules /\ KeepsPools(mod, mod') /\ mod'.dep = mod.dep /\ Balanced(mod, mod')
      /\ CondsAdd(mod')
  BY DEF Books1
<1>3. ListInv  BY <1>1 DEF Typed, Inscribed, ListInv
<1>4. /\ Inscribed(ins') /\ TxSound' /\ MatchSound' /\ ValidIsPending' /\ ValidCommits'
      /\ \A kind, v, s :
           LET here == z.kind = kind /\ z.pending /\ z.owner = v /\ z.tick = s
           IN  /\ TotalAmt(ins', kind, v, s) = TotalAmt(ins, kind, v, s)
                                               + (IF here THEN z.amt ELSE 0)
               /\ TotalBal(ins', kind, v, s) = TotalBal(ins, kind, v, s)
                                               + (IF here THEN z.bal ELSE 0)
  BY <1>3, ListGrows
<1>5. Backed(ins', mod', tran')
  <2> SUFFICES ASSUME NEW v \in Users, NEW s \in Ticks
               PROVE  /\ tran[v][s] = TotalAmt(ins', "transfer", v, s)
                      /\ mod'.appr[v][s] = TotalAmt(ins', "approve", v, s)
                      /\ mod'.cond[v][s] = TotalBal(ins', "cond", v, s)
    BY DEF Backed
  <2> DEFINE here == z.pending /\ z.owner = v /\ z.tick = s
             a == IF z.kind = "approve" /\ here THEN z.amt ELSE 0
             b == IF z.kind = "cond" /\ here THEN z.bal ELSE 0
  <2>1. /\ tran[v][s] = TotalAmt(ins, "transfer", v, s)
        /\ mod.appr[v][s] = TotalAmt(ins, "approve", v, s)
        /\ mod.cond[v][s] = TotalBal(ins, "cond", v, s)
    BY <1>1 DEF Backed
  <2>2. TotalAmt(ins, "transfer", v, s) \in Nat  BY <1>3, PendingFacts DEF ListInv
  <2>3. TotalAmt(ins', "transfer", v, s) = TotalAmt(ins, "transfer", v, s) + 0  BY <1>4
  <2>4. mod'.appr[v][s] = mod.appr[v][s] + a /\ mod'.cond[v][s] = mod.cond[v][s] + b  BY DEF Books1
  <2>5. /\ TotalAmt(ins', "approve", v, s) = TotalAmt(ins, "approve", v, s) + a
        /\ TotalBal(ins', "cond", v, s) = TotalBal(ins, "cond", v, s) + b
    BY <1>4
  <2> HIDE DEF a, b
  <2> QED BY <2>1, <2>2, <2>3, <2>4, <2>5
<1>6. Typed'  BY <1>1, <1>2, <1>4 DEF Typed, Inscribed
<1>7. PoolsSound(mod')  BY <1>1, <1>2, PoolsUntouched DEF KeepsPools
<1>8. Supply(bal', tran', minted', burned')  BY <1>1
<1>9. LedgerInv'  BY <1>2, <1>4, <1>5, <1>6, <1>7, <1>8, InvNext
<1>10. \A t \in Ticks : Holds(bal, tran, t) <= Holds(bal', tran', t)
  <2> TAKE t \in Ticks
  <2>1. Holds(bal, tran, t) \in Int /\ bal' = bal /\ tran' = tran  BY <1>1, FundNumbers DEF Typed
  <2> QED BY <2>1
<1>11. Funds  BY <1>1, <1>2, <1>6, <1>10, FundsBalanced
<1> QED BY <1>9, <1>11

\* Totals of conditional approvals that stay.
LEMMA CondsKept ==
  ASSUME NEW m, NEW n, CondsAdd(m), n.cond = m.cond, n.newAppr = m.newAppr,
         n.cancel = m.cancel, n.okAppr = m.okAppr
  PROVE  CondsAdd(n)
<1>1. \A t : CondOf(n, t) = CondOf(m, t)  BY DEF CondOf
<1> QED BY <1>1 DEF CondsAdd

\* An approval is inscribed.
LEMMA InscribeApproveKeepsInv ==
  ASSUME LedgerInv, NEW u \in Inscribers, NEW t \in Ticks, NEW amt \in Amounts,
         InscribeApprove(u, t, amt)
  PROVE  LedgerInv' /\ Funds
<1> DEFINE valid == mod.avail[u][t] >= amt
           z == Inscription("approve", u, t, amt, valid)
           a == IF valid THEN amt ELSE 0
<1>1. Typed /\ CondsAdd(mod) /\ mod \in Modules  BY InvNow DEF Typed
<1>2. mod.avail \in Balances /\ mod.appr \in Balances /\ u \in Users /\ amt \in Nat
  BY <1>1, ScriptsAssumption, SupplyAssumption DEF Modules
<1>3. valid \in BOOLEAN /\ a \in Nat  BY <1>2
<1>4. /\ Len(ins) < MaxIns /\ ins' = Append(ins, z)
      /\ UNCHANGED <<minted, burned, bal, tran, tx>>
      /\ mod' = IF valid THEN [mod EXCEPT !.avail[u][t] = @ - amt, !.appr[u][t] = @ + amt] ELSE mod
  BY DEF InscribeApprove, CanApprove, CanInscribe, tick, HasAvailable, ApprovedFrom
<1> HIDE DEF valid
<1>5. /\ z \in Inscriptions /\ z.kind = "approve" /\ z.owner = u /\ z.tick = t /\ z.amt = amt
      /\ z.valid = valid /\ z.pending = valid
  <2>1. "approve" \in Kinds  BY DEF Kinds
  <2> QED BY <1>2, <1>3, <2>1, InscriptionFacts
<1> HIDE DEF z
<1>6. Books1(mod, mod', z)
  <2>1. CASE valid
    <3> DEFINE avail == [mod.avail EXCEPT ![u][t] = @ - amt]
               appr == [mod.appr EXCEPT ![u][t] = @ + amt]
    <3>1. mod' = [mod EXCEPT !.avail = avail, !.appr = appr]  BY <1>4, <2>1
    <3>2. /\ avail \in Balances /\ appr \in Balances
          /\ \A v \in Users, s \in Ticks :
               /\ avail[v][s] = mod.avail[v][s] - (IF v = u /\ s = t THEN amt ELSE 0)
               /\ appr[v][s] = mod.appr[v][s] + (IF v = u /\ s = t THEN amt ELSE 0)
      BY <1>2 DEF Balances
    <3> HIDE DEF avail, appr
    <3>3. mod' \in Modules /\ mod'.avail = avail /\ mod'.appr = appr
      BY <1>1, <3>1, <3>2 DEF Modules
    <3>4. /\ KeepsPools(mod, mod') /\ mod'.dep = mod.dep /\ mod'.swap = mod.swap
          /\ mod'.cond = mod.cond /\ mod'.newAppr = mod.newAppr /\ mod'.cancel = mod.cancel
          /\ mod'.okAppr = mod.okAppr /\ mod'.res = mod.res
      BY <1>1, <3>1 DEF Modules, KeepsPools
    <3>5. CondsAdd(mod')  BY <1>1, <3>4, CondsKept
    <3>6. \A v \in Users, s \in Ticks :
            mod'.swap[v][s] + mod'.avail[v][s] + mod'.appr[v][s] + mod'.cond[v][s]
              = mod.swap[v][s] + mod.avail[v][s] + mod.appr[v][s] + mod.cond[v][s]
      <4> TAKE v \in Users, s \in Ticks
      <4> DEFINE A == mod.swap[v][s]  B == mod.avail[v][s]  C == mod.appr[v][s]  D == mod.cond[v][s]
                 x == IF v = u /\ s = t THEN amt ELSE 0
      <4>1. A \in Int /\ B \in Int /\ C \in Int /\ D \in Int /\ x \in Int
        BY <1>1, <1>2 DEF Modules, Balances
      <4>2. /\ mod'.swap[v][s] = A /\ mod'.avail[v][s] = B - x /\ mod'.appr[v][s] = C + x
            /\ mod'.cond[v][s] = D
        BY <3>2, <3>3, <3>4
      <4> HIDE DEF A, B, C, D, x
      <4>3. A + (B - x) + (C + x) + D = A + B + C + D  BY <4>1
      <4> QED BY <4>2, <4>3 DEF A, B, C, D
    <3>7. Balanced(mod, mod')  BY <3>4, <3>6, OwedSame
    <3>8. \A v \in Users, s \in Ticks : mod.cond[v][s] \in Int  BY <1>1 DEF Modules, Balances
    <3> QED BY <1>5, <2>1, <3>2, <3>3, <3>4, <3>5, <3>7, <3>8 DEF Books1
  <2>2. CASE ~valid
    <3>1. mod' = mod  BY <1>4, <2>2
    <3>2. \A v \in Users, s \in Ticks : mod.appr[v][s] \in Int /\ mod.cond[v][s] \in Int
      BY <1>1 DEF Modules, Balances
    <3> QED BY <1>1, <1>5, <2>2, <3>1, <3>2 DEF Books1, KeepsPools, Balanced
  <2> QED BY <2>1, <2>2
<1> QED BY <1>4, <1>5, <1>6, InscribeModule

\* A conditional approval is inscribed.
LEMMA InscribeConditionalKeepsInv ==
  ASSUME LedgerInv, NEW u \in Inscribers, NEW t \in Ticks, NEW amt \in Amounts,
         InscribeConditionalApprove(u, t, amt)
  PROVE  LedgerInv' /\ Funds
<1> DEFINE valid == mod.avail[u][t] >= amt
           z == Inscription("cond", u, t, amt, valid)
<1>1. Typed /\ CondsAdd(mod) /\ mod \in Modules  BY InvNow DEF Typed
<1>2. /\ mod.avail \in Balances /\ mod.cond \in Balances /\ mod.newAppr \in Totals
      /\ u \in Users /\ amt \in Nat /\ IsFiniteSet(Users)
  BY <1>1, ScriptsAssumption, SupplyAssumption DEF Modules
<1>3. valid \in BOOLEAN  BY <1>2
<1>4. /\ Len(ins) < MaxIns /\ ins' = Append(ins, z)
      /\ UNCHANGED <<minted, burned, bal, tran, tx>>
      /\ mod' = IF valid THEN [mod EXCEPT !.avail[u][t] = @ - amt, !.cond[u][t] = @ + amt,
                                          !.newAppr[t] = @ + amt] ELSE mod
  BY DEF InscribeConditionalApprove, CanApprove, CanInscribe, tick, HasAvailable
<1> HIDE DEF valid
<1>5. /\ z \in Inscriptions /\ z.kind = "cond" /\ z.owner = u /\ z.tick = t
      /\ z.valid = valid /\ z.pending = valid /\ z.bal = (IF valid THEN amt ELSE 0)
  <2>1. "cond" \in Kinds  BY DEF Kinds
  <2> QED BY <1>2, <1>3, <2>1, InscriptionFacts
<1> HIDE DEF z
<1>6. Books1(mod, mod', z)
  <2>1. CASE valid
    <3> DEFINE avail == [mod.avail EXCEPT ![u][t] = @ - amt]
               cond == [mod.cond EXCEPT ![u][t] = @ + amt]
               new == [mod.newAppr EXCEPT ![t] = @ + amt]
    <3>1. mod' = [mod EXCEPT !.avail = avail, !.cond = cond, !.newAppr = new]  BY <1>4, <2>1
    <3>2. /\ avail \in Balances /\ cond \in Balances /\ new \in Totals
          /\ \A v \in Users, s \in Ticks :
               /\ avail[v][s] = mod.avail[v][s] - (IF v = u /\ s = t THEN amt ELSE 0)
               /\ cond[v][s] = mod.cond[v][s] + (IF v = u /\ s = t THEN amt ELSE 0)
          /\ \A s \in Ticks : new[s] = mod.newAppr[s] + (IF s = t THEN amt ELSE 0)
      BY <1>2 DEF Balances, Totals
    <3> HIDE DEF avail, cond, new
    <3>3. mod' \in Modules /\ mod'.avail = avail /\ mod'.cond = cond /\ mod'.newAppr = new
      BY <1>1, <3>1, <3>2 DEF Modules
    <3>4. /\ KeepsPools(mod, mod') /\ mod'.dep = mod.dep /\ mod'.swap = mod.swap
          /\ mod'.appr = mod.appr /\ mod'.cancel = mod.cancel
          /\ mod'.okAppr = mod.okAppr /\ mod'.res = mod.res
      BY <1>1, <3>1 DEF Modules, KeepsPools
    <3>5. CondsAdd(mod')
      <4> SUFFICES ASSUME NEW s \in Ticks
                   PROVE  mod'.newAppr[s] - mod'.cancel[s] - mod'.okAppr[s]
                            = SumFunctionOnSet(CondOf(mod', s), Users)
        BY DEF CondsAdd
      <4> DEFINE d == IF s = t THEN amt ELSE 0
                 f == CondOf(mod, s)
                 g == CondOf(mod', s)
                 A == mod.newAppr[s]  B == mod.cancel[s]  C == mod.okAppr[s]
      <4>1. A \in Int /\ B \in Int /\ C \in Int /\ d \in Int  BY <1>1, <1>2 DEF Modules, Totals
      <4>2. A - B - C = SumFunctionOnSet(f, Users)  BY <1>1 DEF CondsAdd
      <4>3. Adds(Users, f, g, u, d)
        <5>1. \A v \in Users : f[v] \in Int  BY <1>2 DEF CondOf, Balances
        <5>2. \A v \in Users : g[v] = f[v] + (IF v = u THEN d ELSE 0)
          <6> TAKE v \in Users
          <6>1. f[v] = mod.cond[v][s] /\ g[v] = mod.cond[v][s] + (IF v = u /\ s = t THEN amt ELSE 0)
            BY <3>2, <3>3 DEF CondOf
          <6> QED BY <6>1
        <5> HIDE DEF f, g, d
        <5> QED BY <1>2, <4>1, <5>1, <5>2 DEF Adds
      <4>4. mod'.newAppr[s] = A + d /\ mod'.cancel[s] = B /\ mod'.okAppr[s] = C  BY <3>2, <3>3, <3>4
      <4> HIDE DEF f, g, d, A, B, C
      <4>5. SumFunctionOnSet(g, Users) = SumFunctionOnSet(f, Users) + d  BY <4>3, SumAdds
      <4>6. (A + d) - B - C = (A - B - C) + d  BY <4>1
      <4> QED BY <4>2, <4>4, <4>5, <4>6 DEF g
    <3>6. \A v \in Users, s \in Ticks :
            mod'.swap[v][s] + mod'.avail[v][s] + mod'.appr[v][s] + mod'.cond[v][s]
              = mod.swap[v][s] + mod.avail[v][s] + mod.appr[v][s] + mod.cond[v][s]
      <4> TAKE v \in Users, s \in Ticks
      <4> DEFINE A == mod.swap[v][s]  B == mod.avail[v][s]  C == mod.appr[v][s]  D == mod.cond[v][s]
                 x == IF v = u /\ s = t THEN amt ELSE 0
      <4>1. A \in Int /\ B \in Int /\ C \in Int /\ D \in Int /\ x \in Int
        BY <1>1, <1>2 DEF Modules, Balances
      <4>2. /\ mod'.swap[v][s] = A /\ mod'.avail[v][s] = B - x /\ mod'.appr[v][s] = C
            /\ mod'.cond[v][s] = D + x
        BY <3>2, <3>3, <3>4
      <4> HIDE DEF A, B, C, D, x
      <4>3. A + (B - x) + C + (D + x) = A + B + C + D  BY <4>1
      <4> QED BY <4>2, <4>3 DEF A, B, C, D
    <3>7. Balanced(mod, mod')  BY <3>4, <3>6, OwedSame
    <3>8. \A v \in Users, s \in Ticks : mod.appr[v][s] \in Int  BY <1>1 DEF Modules, Balances
    <3> QED BY <1>5, <2>1, <3>2, <3>3, <3>4, <3>5, <3>7, <3>8 DEF Books1
  <2>2. CASE ~valid
    <3>1. mod' = mod  BY <1>4, <2>2
    <3>2. \A v \in Users, s \in Ticks : mod.appr[v][s] \in Int /\ mod.cond[v][s] \in Int
      BY <1>1 DEF Modules, Balances
    <3> QED BY <1>1, <1>5, <2>2, <3>1, <3>2 DEF Books1, KeepsPools, Balanced
  <2> QED BY <2>1, <2>2
<1> QED BY <1>4, <1>5, <1>6, InscribeModule

\* A withdrawal is announced.
LEMMA InscribeWithdrawKeepsInv ==
  ASSUME LedgerInv, NEW u \in Inscribers, NEW t \in Ticks, NEW amt \in Amounts,
         InscribeWithdraw(u, t, amt)
  PROVE  LedgerInv' /\ Funds
<1> DEFINE z == Inscription("withdraw", u, t, amt, TRUE)
           ready == [mod.ready EXCEPT ![u][t] = @ + amt]
<1>1. Typed /\ CondsAdd(mod) /\ mod \in Modules  BY InvNow DEF Typed
<1>2. mod.ready \in Balances /\ u \in Users /\ amt \in Nat
  BY <1>1, ScriptsAssumption, SupplyAssumption DEF Modules
<1>3. /\ Len(ins) < MaxIns /\ ins' = Append(ins, z)
      /\ UNCHANGED <<minted, burned, bal, tran, tx>>
      /\ mod' = [mod EXCEPT !.ready = ready]
  BY DEF InscribeWithdraw, CanInscribe, tick
<1>4. z \in Inscriptions /\ z.kind = "withdraw" /\ z.valid = TRUE /\ z.pending = TRUE
  BY <1>2 DEF Inscription, Inscriptions, Kinds
<1> HIDE DEF z
<1>5. ready \in Balances  BY <1>2 DEF Balances
<1> HIDE DEF ready
<1>6. mod' \in Modules  BY <1>1, <1>3, <1>5 DEF Modules
<1>7. /\ KeepsPools(mod, mod') /\ mod'.dep = mod.dep /\ mod'.swap = mod.swap
      /\ mod'.avail = mod.avail /\ mod'.appr = mod.appr
      /\ mod'.cond = mod.cond /\ mod'.newAppr = mod.newAppr /\ mod'.cancel = mod.cancel
      /\ mod'.okAppr = mod.okAppr /\ mod'.res = mod.res
  BY <1>1, <1>3 DEF Modules, KeepsPools
<1>8. CondsAdd(mod')  BY <1>1, <1>7, CondsKept
<1>9. Balanced(mod, mod')  BY <1>7, OwedSame
<1>10. \A v \in Users, s \in Ticks : mod.appr[v][s] \in Int /\ mod.cond[v][s] \in Int
  BY <1>1 DEF Modules, Balances
<1>11. Books1(mod, mod', z)  BY <1>4, <1>6, <1>7, <1>8, <1>9, <1>10 DEF Books1
<1> QED BY <1>3, <1>4, <1>11, InscribeModule

\* A commit is found by its id.
LEMMA CommitFound ==
  ASSUME NEW c \in Commits
  PROVE  CommitOf(c.id) = c
<1>1. CommitOf(c.id) \in Commits /\ CommitOf(c.id).id = c.id  BY DEF CommitOf
<1> QED BY <1>1, CommitsAssumption

\* A commit is inscribed.
LEMMA InscribeCommitKeepsInv ==
  ASSUME LedgerInv, NEW c \in Commits, NEW u \in Inscribers, InscribeCommit(c, u)
  PROVE  LedgerInv' /\ Funds
<1> DEFINE ok == u = Sequencer /\ PreVerified(c, enabled, deployed)
           y == Inscription("commit", u, GasTick, 0, ok)
           z == [y EXCEPT !.c = c.id]
           inv == IF ok THEN mod.invalid ELSE mod.invalid \cup {c.id}
<1>1. Typed /\ CondsAdd(mod) /\ mod \in Modules /\ PoolsSound(mod)  BY InvNow DEF Typed
<1>2. u \in Users /\ 0 \in Nat /\ GasTick \in Ticks /\ c.id \in CommitIds
  BY ScriptsAssumption, AddressesAssumption DEF CommitIds
<1>3. ok \in BOOLEAN  BY DEF PreVerified
<1>4. /\ Len(ins) < MaxIns /\ ins' = Append(ins, z)
      /\ UNCHANGED <<minted, burned, bal, tran, tx>>
      /\ mod' = [mod EXCEPT !.invalid = inv]
  BY DEF InscribeCommit, CanInscribe, tick
<1>5. ok => PoolsDiffer(c)
  <2> SUFFICES ASSUME PreVerified(c, enabled, deployed) PROVE PoolsDiffer(c)  OBVIOUS
  <2>1. c.data \in Seq(SwapFunctions)  BY CommitsAssumption
  <2>2. DOMAIN c.data = 1..Len(c.data)  BY <2>1
  <2> QED BY <2>2 DEF PreVerified, PreVerifiedFunction, PoolsDiffer
<1>6. inv \in SUBSET CommitIds  BY <1>1, <1>2 DEF Modules
<1> HIDE DEF ok
<1>7. /\ y \in Inscriptions /\ y.kind = "commit" /\ y.valid = ok /\ y.pending = ok
  <2>1. "commit" \in Kinds  BY DEF Kinds
  <2> QED BY <1>2, <1>3, <2>1, InscriptionFacts
<1> HIDE DEF y, inv
<1>8. z \in Inscriptions /\ z.kind = "commit" /\ z.valid = ok /\ z.pending = ok /\ z.c = c.id
  BY <1>2, <1>7 DEF Inscriptions
<1> HIDE DEF z
<1>9. mod' \in Modules /\ KeepsApprovals(mod, mod') /\ Balanced(mod, mod')
  <2>1. /\ mod.ids \in SUBSET CommitIds /\ mod.chain \in SUBSET {d.parent : d \in Commits}
        /\ mod' = [mod EXCEPT !.ids = mod.ids, !.chain = mod.chain, !.invalid = inv]
    BY <1>1, <1>4 DEF Modules
  <2> QED BY <1>1, <1>6, <2>1, ChainChanged
<1>10. KeepsPools(mod, mod')  BY <1>1, <1>4 DEF Modules, KeepsPools
<1>11. CondsAdd(mod')  BY <1>1, <1>9, CondsKept DEF KeepsApprovals
<1>12. \A v \in Users, s \in Ticks : mod.appr[v][s] \in Int /\ mod.cond[v][s] \in Int
  BY <1>1 DEF Modules, Balances
<1>13. Books1(mod, mod', z)  BY <1>8, <1>9, <1>10, <1>11, <1>12 DEF Books1, KeepsApprovals
<1>14. z.c \in CommitIds /\ (z.valid => PoolsDiffer(CommitOf(z.c)))
  BY <1>2, <1>5, <1>8, CommitFound
<1> QED BY <1>4, <1>8, <1>13, <1>14, InscribeModule

\* An inscription of the module moves: the invariant follows from what happens
\* to the module's balances.
LEMMA MoveModule ==
  ASSUME LedgerInv, UNCHANGED <<minted, burned, bal, tran, tx>>, NEW i \in DOMAIN ins,
         Inscribed(ins'), DOMAIN ins' = DOMAIN ins,
         \A j \in DOMAIN ins : j # i => ins'[j] = ins[j],
         Grows(ins, ins'), ins'[i].moves # 0, ins'[i].valid = ins[i].valid, ins'[i].c = ins[i].c,
         Backed(ins', mod', tran'), mod' \in Modules, PoolsSound(mod'), CondsAdd(mod')
  PROVE  /\ LedgerInv'
         /\ mod'.dep = mod.dep /\ Balanced(mod, mod') => Funds
<1>1. /\ Typed /\ TxSound /\ MatchSound /\ ValidIsPending /\ ValidCommits
      /\ Supply(bal, tran, minted, burned)
  BY InvNow
<1>2. ListInv  BY <1>1 DEF Typed, Inscribed, ListInv
<1>3. TxSound' /\ MatchSound' /\ ValidIsPending' /\ ValidCommits'  BY <1>2, ListMoves
<1>4. Typed'  BY <1>1 DEF Typed, Inscribed
<1>5. Supply(bal', tran', minted', burned')  BY <1>1
<1>6. LedgerInv'  BY <1>3, <1>4, <1>5, InvNext
<1>7. \A t \in Ticks : Holds(bal, tran, t) <= Holds(bal', tran', t)
  <2> TAKE t \in Ticks
  <2>1. Holds(bal, tran, t) \in Int /\ bal' = bal /\ tran' = tran  BY <1>1, FundNumbers DEF Typed
  <2> QED BY <2>1
<1>8. mod'.dep = mod.dep /\ Balanced(mod, mod') => Funds  BY <1>1, <1>4, <1>7, FundsBalanced
<1> QED BY <1>6, <1>8

\* An inscription is replaced in a list.
LEMMA ReplacedFacts ==
  ASSUME NEW x, Inscribed(x), NEW i \in DOMAIN x, NEW z \in Inscriptions, NEW y,
         y = [x EXCEPT ![i] = z]
  PROVE  /\ Inscribed(y) /\ DOMAIN y = DOMAIN x /\ y[i] = z
         /\ \A j \in DOMAIN x : j # i => y[j] = x[j]
         /\ ChangesAt(x, y, i) /\ \A j \in 1..MaxIns : j # i => SameBalAt(x, y, j)
<1>1. x \in Seq(Inscriptions) /\ Len(x) <= MaxIns /\ DOMAIN x = 1..Len(x) /\ Len(x) \in Nat
  BY DEF Inscribed
<1>2. y \in Seq(Inscriptions) /\ Len(y) = Len(x) /\ DOMAIN y = DOMAIN x  BY <1>1
<1>3. y[i] = z /\ \A j \in DOMAIN x : j # i => y[j] = x[j]  OBVIOUS
<1>4. Inscribed(y) /\ i \in 1..MaxIns  BY <1>1, <1>2, PendingFacts DEF Inscribed
<1>5. ChangesAt(x, y, i) /\ \A j \in 1..MaxIns : j # i => SameBalAt(x, y, j)
  BY <1>2, <1>3, <1>4 DEF ChangesAt, SameAt, SameBalAt
<1> QED BY <1>2, <1>3, <1>4, <1>5

\* The balances of conditional approvals do not depend on other inscriptions.
LEMMA OtherKindTotals ==
  ASSUME NEW x, NEW y, Inscribed(x), Inscribed(y), NEW i \in DOMAIN x, i \in DOMAIN y,
         ChangesAt(x, y, i), \A j \in 1..MaxIns : j # i => SameBalAt(x, y, j),
         NEW kind, x[i].kind # kind, y[i].kind # kind, NEW u, NEW t
  PROVE  /\ TotalBal(y, kind, u, t) = TotalBal(x, kind, u, t)
         /\ TotalAmt(y, kind, u, t) = TotalAmt(x, kind, u, t)
<1>1. i \in 1..MaxIns /\ ~IsPending(x, i, kind, u, t) /\ ~IsPending(y, i, kind, u, t)
  BY DEF ChangesAt, IsPending
<1>2. /\ BalOf(x, kind, u, t)[i] = 0 /\ BalOf(y, kind, u, t)[i] = 0
      /\ AmtOf(x, kind, u, t)[i] = 0 /\ AmtOf(y, kind, u, t)[i] = 0
  BY <1>1 DEF BalOf, AmtOf
<1>3. /\ TotalBal(y, kind, u, t) = TotalBal(x, kind, u, t) + (0 - 0)
      /\ TotalAmt(y, kind, u, t) = TotalAmt(x, kind, u, t) + (0 - 0)
  BY <1>2, TotalsChange
<1>4. TotalBal(x, kind, u, t) \in Nat /\ TotalAmt(x, kind, u, t) \in Nat  BY PendingFacts
<1> QED BY <1>3, <1>4

\* An approval moves: its amount is the receiver's in the module.
LEMMA MoveApproveKeepsInv ==
  ASSUME LedgerInv, NEW i \in DOMAIN ins, NEW to \in Dests, MoveApprove(i, to)
  PROVE  LedgerInv' /\ Funds
<1> DEFINE x == ins[i]
           z == [x EXCEPT !.moves = 1, !.pending = FALSE]
           u == x.owner
           t == x.tick
           a == IF x.pending THEN x.amt ELSE 0
           appr == [mod.appr EXCEPT ![u][t] = @ - a]
           swap == [mod.swap EXCEPT ![to][t] = @ + a]
<1>1. /\ Typed /\ Backed(ins, mod, tran) /\ CondsAdd(mod) /\ PoolsSound(mod)
      /\ Inscribed(ins) /\ mod \in Modules
  BY InvNow DEF Typed, Inscribed
<1>2. x \in Inscriptions  BY <1>1, PendingFacts
<1>3. /\ x.kind = "approve" /\ ins' = [ins EXCEPT ![i] = z]
      /\ UNCHANGED <<minted, burned, bal, tran, tx>>
  BY DEF MoveApprove, Moves, tick
<1>4. mod' = IF x.pending THEN [mod EXCEPT !.appr[u][t] = @ - x.amt, !.swap[to][t] = @ + x.amt]
             ELSE mod
  BY DEF MoveApprove
<1>5. /\ u \in Users /\ t \in Ticks /\ a \in Nat /\ to \in Users /\ IsFiniteSet(Users)
      /\ mod.appr \in Balances /\ mod.swap \in Balances
  BY <1>1, <1>2, ScriptsAssumption DEF Inscriptions, Modules
<1>6. /\ z \in Inscriptions /\ z.kind = x.kind /\ z.moves = 1 /\ ~z.pending
      /\ z.valid = x.valid /\ z.c = x.c /\ z.amt = x.amt
  BY <1>2 DEF Inscriptions
<1> HIDE DEF z
<1>7. /\ Inscribed(ins') /\ DOMAIN ins' = DOMAIN ins /\ ins'[i] = z
      /\ \A j \in DOMAIN ins : j # i => ins'[j] = ins[j]
      /\ ChangesAt(ins, ins', i) /\ \A j \in 1..MaxIns : j # i => SameBalAt(ins, ins', j)
  BY <1>1, <1>3, <1>6, ReplacedFacts
<1>8. Grows(ins, ins')  BY <1>3, <1>6, <1>7 DEF Grows
<1>9. ASSUME x.pending PROVE Moved(mod, mod', u, to, t, a)
  <2>1. mod' = [mod EXCEPT !.appr = appr, !.swap = swap] /\ a = x.amt  BY <1>4, <1>9
  <2> HIDE DEF a
  <2>2. /\ appr \in Balances /\ swap \in Balances
        /\ \A v \in Users, s \in Ticks :
             /\ appr[v][s] = mod.appr[v][s] - (IF v = u /\ s = t THEN a ELSE 0)
             /\ swap[v][s] = mod.swap[v][s] + (IF v = to /\ s = t THEN a ELSE 0)
    BY <1>5 DEF Balances
  <2> HIDE DEF appr, swap
  <2>3. mod' \in Modules /\ mod'.appr = appr /\ mod'.swap = swap  BY <1>1, <2>1, <2>2 DEF Modules
  <2>4. Approved(mod, mod')  BY <1>1, <2>1 DEF Modules, KeepsPools, Approved
  <2> QED BY <2>2, <2>3, <2>4 DEF Moved
<1>10. ASSUME ~x.pending PROVE Moved(mod, mod', u, to, t, a)
  <2>1. a = 0 /\ mod' = mod  BY <1>4, <1>10
  <2>2. \A v \in Users, s \in Ticks : mod.appr[v][s] \in Int /\ mod.swap[v][s] \in Int
    BY <1>5 DEF Balances
  <2> HIDE DEF a
  <2> QED BY <1>1, <2>1, <2>2 DEF Moved, Approved, KeepsPools
<1>11. Moved(mod, mod', u, to, t, a)  BY <1>9, <1>10
<1> HIDE DEF a
<1>12. /\ mod' \in Modules /\ KeepsPools(mod, mod') /\ mod'.dep = mod.dep
       /\ mod'.avail = mod.avail /\ mod'.cond = mod.cond /\ mod'.newAppr = mod.newAppr
       /\ mod'.cancel = mod.cancel /\ mod'.okAppr = mod.okAppr /\ mod'.res = mod.res
  BY <1>11 DEF Moved, Approved, KeepsPools
<1>13. CondsAdd(mod') /\ PoolsSound(mod')  BY <1>1, <1>12, CondsKept, PoolsUntouched DEF KeepsPools
<1>17. \A v \in Users, s \in Ticks :
         /\ mod'.appr[v][s] = mod.appr[v][s] - (IF v = u /\ s = t THEN a ELSE 0)
         /\ mod'.swap[v][s] = mod.swap[v][s] + (IF v = to /\ s = t THEN a ELSE 0)
  BY <1>11 DEF Moved
<1>14. Backed(ins', mod', tran')
  <2> SUFFICES ASSUME NEW v \in Users, NEW s \in Ticks
               PROVE  /\ tran[v][s] = TotalAmt(ins', "transfer", v, s)
                      /\ mod'.appr[v][s] = TotalAmt(ins', "approve", v, s)
                      /\ mod'.cond[v][s] = TotalBal(ins', "cond", v, s)
    BY <1>3 DEF Backed
  <2>1. /\ tran[v][s] = TotalAmt(ins, "transfer", v, s)
        /\ mod.appr[v][s] = TotalAmt(ins, "approve", v, s)
        /\ mod.cond[v][s] = TotalBal(ins, "cond", v, s)
    BY <1>1 DEF Backed
  <2>2. TotalAmt(ins', "approve", v, s) = TotalAmt(ins, "approve", v, s)
                                            - (IF v = u /\ s = t THEN a ELSE 0)
    <3>1. TotalAmt(ins', "approve", v, s) = TotalAmt(ins, "approve", v, s)
             - (IF x.kind = "approve" /\ x.pending /\ x.owner = v /\ x.tick = s THEN x.amt ELSE 0)
      BY <1>1, <1>6, <1>7, DropTotals
    <3>2. (IF x.kind = "approve" /\ x.pending /\ x.owner = v /\ x.tick = s THEN x.amt ELSE 0)
             = (IF v = u /\ s = t THEN a ELSE 0)
      BY <1>3 DEF a
    <3> QED BY <3>1, <3>2
  <2>3. /\ TotalAmt(ins', "transfer", v, s) = TotalAmt(ins, "transfer", v, s)
        /\ TotalBal(ins', "cond", v, s) = TotalBal(ins, "cond", v, s)
    <3>1. /\ ins[i].kind # "transfer" /\ ins'[i].kind # "transfer" /\ ins[i].kind # "cond"
          /\ ins'[i].kind # "cond" /\ i \in DOMAIN ins'
      BY <1>3, <1>6, <1>7
    <3> QED BY <1>1, <1>7, <3>1, OtherKindTotals
  <2> QED BY <1>12, <1>17, <2>1, <2>2, <2>3
<1>15. Balanced(mod, mod')
  <2> SUFFICES ASSUME NEW s \in Ticks PROVE Liabilities(mod', s) = Liabilities(mod, s)
    BY DEF Balanced
  <2> DEFINE f == OwedTo(mod, s)
             g == OwedTo(mod', s)
             d == IF s = t THEN a ELSE 0
  <2>1. /\ \A v \in Users : f[v] \in Int
        /\ SumFunctionOnSet(f, Users) \in Int
    BY <1>1, OwedInt
  <2>2. ASSUME NEW v \in Users
        PROVE  g[v] = f[v] + (IF v = u THEN 0 - d ELSE 0) + (IF v = to THEN d ELSE 0)
    <3> DEFINE A == mod.swap[v][s]  B == mod.avail[v][s]  C == mod.appr[v][s]  D == mod.cond[v][s]
               p == IF v = u THEN d ELSE 0
               q == IF v = to THEN d ELSE 0
    <3>1. A \in Int /\ B \in Int /\ C \in Int /\ D \in Int /\ p \in Int /\ q \in Int
      BY <1>1, <1>5 DEF Modules, Balances
    <3>2. /\ mod'.swap[v][s] = A + q /\ mod'.avail[v][s] = B /\ mod'.appr[v][s] = C - p
          /\ mod'.cond[v][s] = D
      BY <1>12, <1>17
    <3>3. f[v] = A + B + C + D /\ g[v] = (A + q) + B + (C - p) + D  BY <3>2 DEF OwedTo
    <3>4. 0 - p = IF v = u THEN 0 - d ELSE 0  BY <1>5
    <3> HIDE DEF A, B, C, D, p, q, f, g
    <3>5. g[v] = f[v] + (0 - p) + q  BY <3>1, <3>3
    <3> QED BY <3>4, <3>5 DEF q
  <2>3. d \in Int /\ 0 - d \in Int  BY <1>5
  <2> HIDE DEF f, g, d
  <2>4. Shifts(Users, f, g, u, 0 - d, to, d)  BY <1>5, <2>1, <2>2, <2>3 DEF Shifts
  <2>5. SumFunctionOnSet(g, Users) = SumFunctionOnSet(f, Users) + (0 - d) + d  BY <2>4, SumShifts
  <2>6. SumFunctionOnSet(g, Users) = SumFunctionOnSet(f, Users)  BY <2>1, <2>3, <2>5
  <2>7. InPools(mod', s) = InPools(mod, s)  BY <1>12 DEF InPools
  <2> QED BY <2>6, <2>7, LiabilitiesAre DEF f, g
<1>16. ins'[i].moves # 0 /\ ins'[i].valid = ins[i].valid /\ ins'[i].c = ins[i].c  BY <1>6, <1>7
<1> QED BY <1>1, <1>3, <1>7, <1>8, <1>12, <1>13, <1>14, <1>15, <1>16, MoveModule

\* An inscription that moves and stays pending counts as before.
LEMMA StillPendingTotals ==
  ASSUME NEW x, NEW y, Inscribed(x), Inscribed(y), NEW i \in DOMAIN x, SameAt(x, y, i),
         y[i].bal = x[i].bal,
         ChangesAt(x, y, i), \A j \in 1..MaxIns : j # i => SameBalAt(x, y, j),
         NEW kind, NEW u, NEW t
  PROVE  /\ TotalBal(y, kind, u, t) = TotalBal(x, kind, u, t)
         /\ TotalAmt(y, kind, u, t) = TotalAmt(x, kind, u, t)
<1>1. i \in 1..MaxIns /\ (IsPending(x, i, kind, u, t) <=> IsPending(y, i, kind, u, t))
  BY DEF ChangesAt, SameAt, IsPending
<1>2. y[i].amt = x[i].amt  BY DEF SameAt
<1> DEFINE b == BalOf(x, kind, u, t)[i]
           a == AmtOf(x, kind, u, t)[i]
<1>3. BalOf(y, kind, u, t)[i] = b /\ AmtOf(y, kind, u, t)[i] = a  BY <1>1, <1>2 DEF BalOf, AmtOf
<1>4. a \in Nat /\ b \in Nat /\ TotalBal(x, kind, u, t) \in Nat /\ TotalAmt(x, kind, u, t) \in Nat
  BY <1>1, PendingFacts
<1>5. /\ TotalBal(y, kind, u, t) = TotalBal(x, kind, u, t) + (b - b)
      /\ TotalAmt(y, kind, u, t) = TotalAmt(x, kind, u, t) + (a - a)
  BY <1>3, TotalsChange
<1> HIDE DEF a, b
<1>6. b - b = 0 /\ a - a = 0  BY <1>4
<1> QED BY <1>4, <1>5, <1>6

\* An inscription is marked as moved, and the module's approvals stay.
LEMMA MarkMoved ==
  ASSUME LedgerInv, UNCHANGED <<minted, burned, bal, tran, tx>>, NEW i \in DOMAIN ins,
         Marks(ins, ins', i), mod' \in Modules, PoolsSound(mod'),
         KeepsApprovals(mod, mod'), ins[i].kind # "transfer" \/ ~ins[i].valid
  PROVE  /\ LedgerInv'
         /\ Balanced(mod, mod') => Funds
<1> DEFINE x == ins[i]
           z == [x EXCEPT !.moves = 1]
<1>1. /\ Typed /\ Backed(ins, mod, tran) /\ CondsAdd(mod) /\ Inscribed(ins)
  BY InvNow DEF Typed, Inscribed
<1>2. x \in Inscriptions  BY <1>1, PendingFacts
<1>3. ins' = [ins EXCEPT ![i] = z]  BY DEF Marks
<1>4. /\ z \in Inscriptions /\ z.kind = x.kind /\ z.moves = 1 /\ z.pending = x.pending
      /\ z.valid = x.valid /\ z.c = x.c /\ z.amt = x.amt /\ z.owner = x.owner /\ z.tick = x.tick
      /\ z.bal = x.bal
  BY <1>2 DEF Inscriptions
<1> HIDE DEF z
<1>5. /\ Inscribed(ins') /\ DOMAIN ins' = DOMAIN ins /\ ins'[i] = z
      /\ \A j \in DOMAIN ins : j # i => ins'[j] = ins[j]
      /\ ChangesAt(ins, ins', i) /\ \A j \in 1..MaxIns : j # i => SameBalAt(ins, ins', j)
  BY <1>1, <1>3, <1>4, ReplacedFacts
<1>6. Grows(ins, ins') /\ SameAt(ins, ins', i) /\ ins'[i].bal = ins[i].bal
  BY <1>4, <1>5 DEF Grows, SameAt
<1>7. CondsAdd(mod') /\ mod'.dep = mod.dep /\ mod'.appr = mod.appr /\ mod'.cond = mod.cond
  BY <1>1, CondsKept DEF KeepsApprovals
<1>8. \A kind, v, s : /\ TotalBal(ins', kind, v, s) = TotalBal(ins, kind, v, s)
                      /\ TotalAmt(ins', kind, v, s) = TotalAmt(ins, kind, v, s)
  BY <1>1, <1>5, <1>6, StillPendingTotals
<1>9. Backed(ins', mod', tran')  BY <1>1, <1>7, <1>8 DEF Backed
<1>10. ins'[i].moves # 0 /\ ins'[i].valid = ins[i].valid /\ ins'[i].c = ins[i].c  BY <1>4, <1>5
<1> QED BY <1>5, <1>6, <1>7, <1>9, <1>10, MoveModule

\* A commit moves.
LEMMA MoveCommitKeepsInv ==
  ASSUME LedgerInv, NEW i \in DOMAIN ins, NEW to \in Dests, MoveCommit(i, to)
  PROVE  LedgerInv' /\ (SameTicks => Funds)
<1> DEFINE c == CommitOf(ins[i].c)
           n == ProcessCommit(mod, c, ins[i].owner, enabled).m
<1>1. Typed /\ mod \in Modules /\ PoolsSound(mod) /\ ValidCommits  BY InvNow DEF Typed
<1>2. /\ ins[i].kind = "commit" /\ ins[i].valid /\ ins' = [ins EXCEPT ![i].moves = 1]
      /\ UNCHANGED <<minted, burned, bal, tran, tx>>
  BY DEF MoveCommit, Moves, tick
<1>3. mod' = mod \/ mod' = n  BY DEF MoveCommit
<1>4. c \in Commits /\ PoolsDiffer(c)
  <2>1. ins[i].c \in CommitIds /\ PoolsDiffer(c)  BY <1>1, <1>2 DEF ValidCommits
  <2>2. PICK d \in Commits : ins[i].c = d.id  BY <2>1 DEF CommitIds
  <2> QED BY <2>1, <2>2, CommitFound
<1> HIDE DEF c
<1>5. /\ n \in Modules /\ KeepsApprovals(mod, n) /\ PoolsSound(n)
      /\ SameTicksIn(c) => Balanced(mod, n)
  BY <1>1, <1>4, CommitProcessed
<1> HIDE DEF n
<1>6. /\ mod' \in Modules /\ KeepsApprovals(mod, mod') /\ PoolsSound(mod')
      /\ SameTicksIn(c) => Balanced(mod, mod')
  <2>1. CASE mod' = mod  BY <1>1, <2>1 DEF KeepsApprovals, Balanced
  <2>2. CASE mod' = n  BY <1>5, <2>2
  <2> QED BY <1>3, <2>1, <2>2
<1>7. LedgerInv' /\ (Balanced(mod, mod') => Funds)  BY <1>2, <1>6, MarkMoved DEF Marks
<1> QED BY <1>4, <1>6, <1>7 DEF SameTicks

-----------------------------------------------------------------------------
\* The states of a transaction that grows.

\* References stay good.
LEMMA RefersStays ==
  ASSUME NEW refs, NEW hp, NEW hq, NEW i, RefersTo(refs, hp), HeapGrows(hp, hq, i)
  PROVE  RefersTo(refs, hq)
<1>1. Len(hp) \in Nat /\ Len(hq) \in Nat /\ Len(hp) <= Len(hq)  BY DEF HeapGrows
<1>2. \A k \in DOMAIN refs : refs[k] \in 1..Len(hp) /\ refs[k] \in 1..Len(hq)  BY <1>1 DEF RefersTo
<1>3. \A k \in DOMAIN refs : hq[refs[k]] = hp[refs[k]]  BY <1>2 DEF HeapGrows
<1> QED BY <1>2, <1>3 DEF RefersTo

\* One more reference, to a state of the new transfer.
LEMMA RefersMore ==
  ASSUME NEW refs, NEW hp, NEW hq, NEW i, RefersTo(refs, hp), HeapGrows(hp, hq, i),
         NEW n \in 1..Len(hq), n > Len(hp)
  PROVE  RefersTo(Append(refs, n), hq)
<1> DEFINE more == Append(refs, n)
           e == Len(refs) + 1
<1>1. refs \in Seq(Nat) /\ Len(refs) \in Nat /\ DOMAIN refs = 1..Len(refs) /\ n \in Nat
  BY DEF RefersTo
<1>2. /\ more \in Seq(Nat) /\ DOMAIN more = 1..e /\ more[e] = n
      /\ \A k \in DOMAIN refs : more[k] = refs[k]
  BY <1>1
<1>3. \A k \in DOMAIN more : k = e \/ k \in DOMAIN refs  BY <1>1, <1>2
<1>4. RefersTo(refs, hq)  BY RefersStays
<1>5. \A k \in DOMAIN refs : hq[refs[k]].ins # i  BY DEF RefersTo, HeapGrows
<1>6. hq[n].ins = i  BY DEF HeapGrows
<1> HIDE DEF more, e
<1>7. \A k \in DOMAIN more : more[k] \in 1..Len(hq)  BY <1>2, <1>3, <1>4 DEF RefersTo
<1>8. ASSUME NEW k \in DOMAIN more, NEW l \in DOMAIN more, hq[more[k]].ins = hq[more[l]].ins
      PROVE  k = l
  <2>1. CASE k = e /\ l = e  BY <2>1
  <2>2. CASE k = e /\ l \in DOMAIN refs  BY <1>2, <1>5, <1>6, <1>8, <2>2
  <2>3. CASE l = e /\ k \in DOMAIN refs  BY <1>2, <1>5, <1>6, <1>8, <2>3
  <2>4. CASE k \in DOMAIN refs /\ l \in DOMAIN refs  BY <1>2, <1>4, <1>8, <2>4 DEF RefersTo
  <2> QED BY <1>3, <2>1, <2>2, <2>3, <2>4
<1>9. RefersTo(more, hq)  BY <1>2, <1>7, <1>8 DEF RefersTo
<1> QED BY <1>9 DEF more

\* Candidates stay matchable while another transfer moves.
LEMMA MatchableStays ==
  ASSUME NEW c, NEW hp, NEW hq, NEW i, NEW mt, NEW mu, NEW x, NEW y, RefersTo(c, hp),
         HeapGrows(hp, hq, i), Matchable(mt, c, hp, x),
         \A j : j # i /\ j \in DOMAIN x => mu[j] = mt[j] /\ y[j].amt = x[j].amt,
         \A k \in 1..Len(hp) : hp[k].ins \in DOMAIN x
  PROVE  Matchable(mu, c, hq, y)
<1> SUFFICES ASSUME NEW k \in DOMAIN c
             PROVE  mu[hq[c[k]].ins] + hq[c[k]].bal <= y[hq[c[k]].ins].amt
  BY DEF Matchable
<1>1. c[k] \in 1..Len(hp)  BY DEF RefersTo
<1>2. hq[c[k]] = hp[c[k]] /\ hp[c[k]].ins # i /\ hp[c[k]].ins \in DOMAIN x  BY <1>1 DEF HeapGrows
<1>3. mt[hp[c[k]].ins] + hp[c[k]].bal <= x[hp[c[k]].ins].amt  BY DEF Matchable
<1>4. mu[hp[c[k]].ins] = mt[hp[c[k]].ins] /\ y[hp[c[k]].ins].amt = x[hp[c[k]].ins].amt  BY <1>2
<1> QED BY <1>2, <1>3, <1>4

\* One more candidate.
LEMMA MatchableMore ==
  ASSUME NEW c \in Seq(Nat), NEW hq, NEW mu, NEW y, Matchable(mu, c, hq, y), NEW n \in Nat,
         mu[hq[n].ins] + hq[n].bal <= y[hq[n].ins].amt
  PROVE  Matchable(mu, Append(c, n), hq, y)
<1> SUFFICES ASSUME NEW k \in DOMAIN Append(c, n)
             PROVE  LET m == Append(c, n)
                    IN  mu[hq[m[k]].ins] + hq[m[k]].bal <= y[hq[m[k]].ins].amt
  BY DEF Matchable
<1>1. (k \in DOMAIN c /\ Append(c, n)[k] = c[k]) \/ Append(c, n)[k] = n  OBVIOUS
<1> QED BY <1>1 DEF Matchable

-----------------------------------------------------------------------------
\* What booked events mean for the invariant.

\* The module after the events.
LEMMA BookedModule ==
  ASSUME ins \in Seq(Inscriptions), NEW m \in Modules, CondsAdd(m), PoolsSound(m),
         NEW events, Sound(events), NEW n, n = BookEvents(m, events)
  PROVE  /\ Booked(m, n, events, Len(events))
         /\ n \in Modules /\ KeepsPools(m, n) /\ n.dep = m.dep /\ n.appr = m.appr
         /\ Balanced(m, n) /\ CondsAdd(n) /\ PoolsSound(n)
<1>1. Booked(m, n, events, Len(events))  BY EventsAreBooked
<1>2. n \in Modules /\ KeepsPools(m, n) /\ n.dep = m.dep /\ n.appr = m.appr /\ n.newAppr = m.newAppr
  BY <1>1 DEF Booked
<1>3. PoolsSound(n)  BY <1>2, PoolsUntouched DEF KeepsPools
<1>4. Balanced(m, n)
  <2>1. \A t \in Ticks : SumFunctionOnSet(OwedTo(n, t), Users) = SumFunctionOnSet(OwedTo(m, t), Users)
    BY <1>1 DEF Booked
  <2>2. \A t \in Ticks : InPools(n, t) = InPools(m, t)  BY <1>2 DEF InPools, KeepsPools
  <2> QED BY <2>1, <2>2, LiabilitiesAre DEF Balanced
<1>5. CondsAdd(n)
  <2> SUFFICES ASSUME NEW t \in Ticks
               PROVE  n.newAppr[t] - n.cancel[t] - n.okAppr[t] = SumFunctionOnSet(CondOf(n, t), Users)
    BY DEF CondsAdd
  <2> DEFINE A == m.newAppr[t]  B == m.cancel[t]  C == m.okAppr[t]  D == n.cancel[t]  E == n.okAppr[t]
             X == SumFunctionOnSet(CondOf(m, t), Users)
             Y == SumFunctionOnSet(CondOf(n, t), Users)
  <2>1. A \in Int /\ B \in Int /\ C \in Int /\ D \in Int /\ E \in Int  BY <1>2 DEF Modules, Totals
  <2>2. X \in Int /\ Y \in Int
    <3>1. \A u \in Users : CondOf(m, t)[u] \in Int /\ CondOf(n, t)[u] \in Int
      BY <1>2 DEF Modules, Balances, CondOf
    <3> QED BY <3>1, SumInt, ScriptsAssumption
  <2>3. A - B - C = X  BY DEF CondsAdd
  <2>4. Y + (D + E) = X + (B + C)  BY <1>1 DEF Booked
  <2>5. n.newAppr[t] = A  BY <1>2
  <2> HIDE DEF A, B, C, D, E, X, Y
  <2>6. A - D - E = Y  BY <2>1, <2>2, <2>3, <2>4
  <2> QED BY <2>5, <2>6 DEF D, E, Y
<1> QED BY <1>1, <1>2, <1>3, <1>4, <1>5

\* The balances of conditional approvals are what the approvals keep.
LEMMA BookedTotals ==
  ASSUME Inscribed(ins), NEW m \in Modules, NEW n, NEW events, Sound(events),
         Booked(m, n, events, Len(events)), NEW w, AfterEvents(w, events),
         NEW u \in Users, NEW t \in Ticks, m.cond[u][t] = TotalBal(ins, "cond", u, t)
  PROVE  n.cond[u][t] = TotalBal(w, "cond", u, t)
<1> DEFINE P == Pending("cond", u, t)
           k == Len(events)
           f == RestsOf(events, 0, u, t)
           g == RestsOf(events, k, u, t)
           X == SumFunctionOnSet(f, P)
           Y == SumFunctionOnSet(g, P)
<1>1. n.cond[u][t] - Y = m.cond[u][t] - X  BY DEF Booked
<1>2. IsFiniteSet(P) /\ P \subseteq DOMAIN ins  BY PendingFinite DEF Inscribed
<1>3. P = PendingOf(ins, "cond", u, t) /\ P = PendingOf(w, "cond", u, t)
  <2>1. P = PendingOf(ins, "cond", u, t)  BY DEF Pending, PendingOf
  <2>2. \A j \in DOMAIN ins : j \in PendingOf(w, "cond", u, t) <=> j \in PendingOf(ins, "cond", u, t)
    BY DEF PendingOf, AfterEvents
  <2>3. PendingOf(w, "cond", u, t) \subseteq DOMAIN ins /\ PendingOf(ins, "cond", u, t) \subseteq DOMAIN ins
    BY DEF PendingOf, AfterEvents
  <2> QED BY <2>1, <2>2, <2>3
<1> DEFINE a == [j \in P |-> ins[j].bal]
           b == [j \in P |-> w[j].bal]
<1>4. \A j \in P : f[j] = a[j] /\ g[j] = b[j]
  <2> TAKE j \in P
  <2>1. RestAfter(events, 0, j) = ins[j].bal  BY RestAfterStep
  <2>2. RestAfter(events, k, j) = w[j].bal  BY <1>2 DEF AfterEvents
  <2> QED BY <2>1, <2>2 DEF RestsOf
<1>5. X = SumFunctionOnSet(a, P) /\ Y = SumFunctionOnSet(b, P)
  <2> HIDE DEF a, b, f, g, P
  <2> QED BY <1>2, <1>4, SumAgrees
<1>6. SumFunctionOnSet(a, P) = PendingBal(ins, "cond", u, t)
  <2> DEFINE Q == PendingOf(ins, "cond", u, t)
  <2>1. P = Q  BY <1>3
  <2> HIDE DEF P, Q
  <2> QED BY <2>1 DEF PendingBal, Q
<1>7. SumFunctionOnSet(b, P) = PendingBal(w, "cond", u, t)
  <2> DEFINE Q == PendingOf(w, "cond", u, t)
  <2>1. P = Q  BY <1>3
  <2> HIDE DEF P, Q
  <2> QED BY <2>1 DEF PendingBal, Q
<1>8. Inscribed(w)  BY DEF AfterEvents
<1>9. /\ PendingBal(ins, "cond", u, t) = TotalBal(ins, "cond", u, t)
      /\ PendingBal(w, "cond", u, t) = TotalBal(w, "cond", u, t)
  BY <1>8, TotalsArePending
<1>10. TotalBal(ins, "cond", u, t) \in Nat /\ TotalBal(w, "cond", u, t) \in Nat
  BY <1>8, PendingFacts
<1>11. n.cond[u][t] \in Int  BY DEF Booked, Modules, Balances
<1> HIDE DEF X, Y, a, b
<1>12. X = m.cond[u][t] /\ Y = TotalBal(w, "cond", u, t)  BY <1>5, <1>6, <1>7, <1>9
<1> QED BY <1>1, <1>10, <1>11, <1>12

\* What events settle is a number, and nothing of transfers they do not name.
LEMMA AmtFromFacts ==
  ASSUME NEW events \in Seq(Events), NEW j
  PROVE  /\ AmtFrom(events, j) \in Nat
         /\ (\A k \in 1..Len(events) : events[k].from # j) => AmtFrom(events, j) = 0
<1> DEFINE S == {l \in DOMAIN events : events[l].from = j}
           f == [k \in S |-> events[k].amt]
<1>1. Len(events) \in Nat /\ DOMAIN events = 1..Len(events)  OBVIOUS
<1>2. IsFiniteSet(S)
  <2>1. IsFiniteSet(1..Len(events)) /\ S \subseteq 1..Len(events)  BY <1>1, FS_Interval
  <2> HIDE DEF S
  <2> QED BY <2>1, FS_Subset
<1>3. \A k \in S : f[k] \in Nat
  <2> TAKE k \in S
  <2>1. events[k] \in Events  BY <1>1
  <2> QED BY <2>1 DEF Events
<1>4. (\A k \in 1..Len(events) : events[k].from # j) => S = {}  BY <1>1
<1>5. AmtFrom(events, j) = SumFunctionOnSet(f, S)  BY DEF AmtFrom
<1> HIDE DEF f, S
<1> QED BY <1>2, <1>3, <1>4, <1>5, SumNat, SumEmpty

\* What was matched after the events.
LEMMA MatchedByFacts ==
  ASSUME matched \in [1..MaxIns -> Nat], NEW events \in Seq(Events)
  PROVE  /\ MatchedBy(events) \in [1..MaxIns -> Nat]
         /\ \A j \in 1..MaxIns : MatchedBy(events)[j] = matched[j] + AmtFrom(events, j)
<1> DEFINE mu == MatchedBy(events)
<1>1. mu = [j \in 1..MaxIns |-> matched[j] + AmtFrom(events, j)]  BY DEF MatchedBy, SumOf, AmtFrom
<1>2. \A j \in 1..MaxIns : matched[j] \in Nat /\ AmtFrom(events, j) \in Nat  BY AmtFromFacts
<1> HIDE DEF mu
<1> QED BY <1>1, <1>2 DEF mu

\* The states of the transaction and what was matched, in the next state.
LEMMA TxNext ==
  ASSUME heap' \in Seq(TransferStates), apprs' \in Seq(ApproveStates),
         \A k \in 1..Len(heap') : heap'[k].ins \in DOMAIN ins' /\ ins'[heap'[k].ins].moves # 0,
         RefersTo(static', heap'), RefersTo(list', heap'), WaitOnce', WaitingArePending',
         matched' \in [1..MaxIns -> Nat],
         \A j \in DOMAIN ins' : matched'[j] <= ins'[j].amt,
         \A j \in 1..MaxIns : matched'[j] # 0 => j \in DOMAIN ins' /\ ins'[j].moves # 0,
         Matchable(matched', IF apprs' = << >> THEN static' ELSE list', heap', ins')
  PROVE  TxSound' /\ MatchSound'
<1>1. Refers(static)' /\ Refers(list)'  BY DEF Refers, RefersTo
<1>2. TxSound'  BY <1>1 DEF TxSound
<1>3. MatchSound'
  <2> DEFINE C == IF apprs' = << >> THEN static' ELSE list'
  <2>1. Candidates' = C  BY DEF Candidates
  <2>2. \A k \in DOMAIN C : matched'[heap'[C[k]].ins] + heap'[C[k]].bal <= ins'[heap'[C[k]].ins].amt
    BY DEF Matchable
  <2> HIDE DEF C
  <2> QED BY <2>1, <2>2 DEF MatchSound, MatchedAtMostOnce
<1> QED BY <1>2, <1>3

\* The same of this state.
LEMMA TxNow ==
  ASSUME TxSound, MatchSound
  PROVE  /\ heap \in Seq(TransferStates) /\ apprs \in Seq(ApproveStates)
         /\ \A k \in 1..Len(heap) : heap[k].ins \in DOMAIN ins /\ ins[heap[k].ins].moves # 0
         /\ RefersTo(static, heap) /\ RefersTo(list, heap) /\ WaitOnce /\ WaitingArePending
         /\ matched \in [1..MaxIns -> Nat]
         /\ \A j \in DOMAIN ins : matched[j] <= ins[j].amt
         /\ \A j \in 1..MaxIns : matched[j] # 0 => j \in DOMAIN ins /\ ins[j].moves # 0
         /\ Matchable(matched, Candidates, heap, ins) /\ RefersTo(Candidates, heap)
<1>1. RefersTo(static, heap) /\ RefersTo(list, heap)  BY DEF TxSound, Refers, RefersTo
<1>2. RefersTo(Candidates, heap)  BY <1>1 DEF Candidates
<1> QED BY <1>1, <1>2 DEF TxSound, MatchSound, MatchedAtMostOnce, Matchable

\* A transfer enters the transaction.
LEMMA TxGrows ==
  ASSUME TxSound, MatchSound, NEW i, Steps(ins, ins', i), ins[i].moves = 0,
         HeapGrows(heap, heap', i), Len(heap) < Len(heap'), static' = Append(static, Len(heap) + 1),
         \/ list' = list
         \/ /\ list' = Append(list, Len(heap) + 2) /\ Len(heap) + 2 <= Len(heap')
            /\ matched'[i] + heap'[Len(heap) + 2].bal <= ins[i].amt,
         apprs' \in Seq(ApproveStates), WaitOnce', WaitingArePending',
         apprs' = << >> <=> apprs = << >>,
         matched' \in [1..MaxIns -> Nat], \A j \in 1..MaxIns : j # i => matched'[j] = matched[j],
         matched'[i] <= ins[i].amt,
         apprs = << >> => matched'[i] + heap'[Len(heap) + 1].bal <= ins[i].amt
  PROVE  TxSound' /\ MatchSound'
<1> DEFINE C == IF apprs' = << >> THEN static' ELSE list'
           n == Len(heap)
<1>1. /\ heap \in Seq(TransferStates)
      /\ \A k \in 1..Len(heap) : heap[k].ins \in DOMAIN ins /\ ins[heap[k].ins].moves # 0
      /\ RefersTo(static, heap) /\ RefersTo(list, heap)
      /\ \A j \in DOMAIN ins : matched[j] <= ins[j].amt
      /\ \A j \in 1..MaxIns : matched[j] # 0 => j \in DOMAIN ins /\ ins[j].moves # 0
      /\ Matchable(matched, Candidates, heap, ins) /\ RefersTo(Candidates, heap)
  BY TxNow
<1>2. /\ Inscribed(ins) /\ Inscribed(ins') /\ DOMAIN ins' = DOMAIN ins /\ i \in DOMAIN ins
      /\ \A j \in DOMAIN ins : ins'[j].amt = ins[j].amt /\ (ins[j].moves # 0 => ins'[j].moves # 0)
      /\ ins'[i].moves # 0
  BY DEF Steps
<1>3. DOMAIN ins \subseteq 1..MaxIns  BY <1>2, PendingFacts
<1>4. n \in Nat /\ Len(heap') \in Nat /\ heap' \in Seq(TransferStates)  BY DEF HeapGrows
<1>5. /\ n + 1 \in 1..Len(heap') /\ n + 1 > n /\ n + 1 \in Nat /\ n + 2 \in Nat
      /\ n + 2 <= Len(heap') => n + 2 \in 1..Len(heap') /\ n + 2 > n
  BY <1>4
<1>6. heap'[n + 1].ins = i /\ (n + 2 <= Len(heap') => heap'[n + 2].ins = i)  BY <1>5 DEF HeapGrows
<1>7. RefersTo(static', heap')  BY <1>1, <1>5, RefersMore
<1>8. RefersTo(list, heap') /\ RefersTo(static, heap')  BY <1>1, RefersStays
<1>9. RefersTo(list', heap')
  <2>1. CASE list' = list  BY <1>8, <2>1
  <2>2. CASE list' = Append(list, n + 2) /\ n + 2 <= Len(heap')  BY <1>1, <1>5, <2>2, RefersMore
  <2> QED BY <2>1, <2>2
<1>10. \A k \in 1..Len(heap') : heap'[k].ins \in DOMAIN ins' /\ ins'[heap'[k].ins].moves # 0
  <2> TAKE k \in 1..Len(heap')
  <2>1. CASE k \in 1..n  BY <1>1, <1>2, <2>1 DEF HeapGrows
  <2>2. CASE k > n  BY <1>2, <2>2 DEF HeapGrows
  <2> QED BY <1>4, <2>1, <2>2
<1>11. \A j \in DOMAIN ins' : matched'[j] <= ins'[j].amt  BY <1>1, <1>2, <1>3
<1>12. \A j \in 1..MaxIns : matched'[j] # 0 => j \in DOMAIN ins' /\ ins'[j].moves # 0  BY <1>1, <1>2
<1>13. Matchable(matched', Candidates, heap', ins')
  <2>1. \A j : j # i /\ j \in DOMAIN ins => matched'[j] = matched[j] /\ ins'[j].amt = ins[j].amt
    BY <1>2, <1>3
  <2> QED BY <1>1, <2>1, MatchableStays
<1>14. static \in Seq(Nat) /\ list \in Seq(Nat)  BY <1>1 DEF RefersTo
<1>15. Matchable(matched', C, heap', ins')
  <2>1. CASE apprs = << >>
    <3>1. C = Append(static, n + 1) /\ Candidates = static  BY <2>1 DEF Candidates
    <3>2. matched'[heap'[n + 1].ins] + heap'[n + 1].bal <= ins'[heap'[n + 1].ins].amt
      BY <1>2, <1>6, <2>1
    <3> HIDE DEF C
    <3> QED BY <1>5, <1>13, <1>14, <3>1, <3>2, MatchableMore
  <2>2. CASE apprs # << >> /\ list' = list
    <3>1. C = Candidates  BY <2>2 DEF Candidates
    <3> QED BY <1>13, <3>1
  <2>3. CASE apprs # << >> /\ list' # list
    <3>1. C = Append(list, n + 2) /\ Candidates = list  BY <2>3 DEF Candidates
    <3>2. matched'[heap'[n + 2].ins] + heap'[n + 2].bal <= ins'[heap'[n + 2].ins].amt
      BY <1>2, <1>6, <2>3
    <3> HIDE DEF C
    <3> QED BY <1>5, <1>13, <1>14, <3>1, <3>2, MatchableMore
  <2> QED BY <2>1, <2>2, <2>3
<1> QED BY <1>4, <1>7, <1>9, <1>10, <1>11, <1>12, <1>15, TxNext

-----------------------------------------------------------------------------
\* A valid transfer moves.

\* The action in these terms: inscriptions, balances and the module.
LEMMA TransferBooks ==
  ASSUME NEW i, NEW to, MoveTransfer(i, to), ins[i].valid
  PROVE  LET x == ins[i]
             paid == BookEvents(mod, Settled(i, to))
         IN  /\ x.kind = "transfer" /\ x.owner \in Active /\ x.moves = 0
             /\ ins' = RestOf(MovedList(i), Settled(i, to))
             /\ tran' = [tran EXCEPT ![x.owner][x.tick] = @ - x.amt]
             /\ bal' = [bal EXCEPT ![to][x.tick] = @ + x.amt]
             /\ burned' = [burned EXCEPT ![x.tick] = IF to = Burn THEN @ + x.amt ELSE @]
             /\ minted' = minted
             /\ mod' = IF Deposits(i, to)
                       THEN [paid EXCEPT !.swap[x.owner][x.tick] = @ + x.amt,
                                         !.dep[x.tick] = @ + x.amt]
                       ELSE paid
BY DEF MoveTransfer, Moves, Settled, Seen, Waits, TransferState, MovedList, Deposits

\* The states of the transaction.
LEMMA TransferStatesNext ==
  ASSUME NEW i, NEW to, MoveTransfer(i, to), ins[i].valid
  PROVE  LET h == TransferState(i, to)
             r == MatchTransfer(h)
         IN  /\ matched' = MatchedBy(Settled(i, to))
             /\ static' = IF Seen(i) THEN Append(static, Len(heap) + 1) ELSE static
             /\ heap' = IF ~Seen(i) THEN heap
                        ELSE IF Waits /\ r.left > 0 THEN heap \o <<h, [h EXCEPT !.bal = r.left]>>
                        ELSE Append(heap, h)
             /\ list' = IF Seen(i) /\ Waits /\ r.left > 0 THEN Append(list, Len(heap) + 2) ELSE list
             /\ apprs' = IF Seen(i) /\ Waits THEN r.apprs ELSE apprs
BY DEF MoveTransfer, Settled, Seen, Waits, TransferState

\* The state of the transfer.
LEMMA TransferStateFacts ==
  ASSUME Inscribed(ins), NEW i \in DOMAIN ins, NEW to \in Users
  PROVE  LET h == TransferState(i, to)
         IN  /\ h \in TransferStates /\ h.ins = i /\ h.bal = ins[i].amt /\ ins[i].amt \in Nat
             /\ i \in Nat /\ i \in 1..MaxIns
<1>1. ins[i] \in Inscriptions /\ i \in Nat /\ i \in 1..MaxIns  BY PendingFacts
<1> QED BY <1>1 DEF TransferState, TransferStates, Inscriptions

\* What it settles is sound, and leaves the rest of the transfer.
LEMMA TransferSettles ==
  ASSUME Inscribed(ins), TxSound, NEW i \in DOMAIN ins, NEW to \in Users
  PROVE  LET events == Settled(i, to)
             r == MatchTransfer(TransferState(i, to))
         IN  /\ Sound(events) /\ events \in Seq(Events)
             /\ \A k \in 1..Len(events) : events[k].from = i
             /\ ~(Seen(i) /\ Waits) => events = << >>
             /\ Seen(i) /\ Waits =>
                  /\ events = r.events /\ TransferMatched(TransferState(i, to), r, Len(apprs))
                  /\ \A q \in 1..Len(apprs) :
                       RestAfter(events, Len(events), apprs[q].i) = r.apprs[q].bal
<1> DEFINE events == Settled(i, to)
           h == TransferState(i, to)
           r == MatchTransfer(h)
<1>1. h \in TransferStates /\ h.ins = i  BY TransferStateFacts
<1>2. apprs \in Seq(ApproveStates) /\ WaitOnce /\ WaitingArePending  BY DEF TxSound
<1> HIDE DEF h
<1>3. TransferMatched(h, r, Len(apprs))  BY <1>1, <1>2, TransferIsMatched
<1> HIDE DEF r
<1>4. /\ Sound(r.events)
      /\ \A q \in 1..Len(apprs) : RestAfter(r.events, Len(r.events), apprs[q].i) = r.apprs[q].bal
  BY <1>2, <1>3, TransferSound
<1>5. r.events \in Seq(Events) /\ \A k \in 1..Len(r.events) : r.events[k].from = i
  BY <1>1, <1>3 DEF TransferMatched
<1>6. events = IF Seen(i) /\ Waits THEN r.events ELSE << >>  BY DEF Settled, r, h
<1>7. Sound(<< >>) /\ << >> \in Seq(Events) /\ Len(<< >>) = 0  BY NoEventSound
<1> HIDE DEF events
<1>8. CASE Seen(i) /\ Waits
  <2>1. events = r.events  BY <1>6, <1>8
  <2> QED BY <1>3, <1>4, <1>5, <1>8, <2>1 DEF events, r, h
<1>9. CASE ~(Seen(i) /\ Waits)
  <2>1. events = << >>  BY <1>6, <1>9
  <2> QED BY <1>7, <1>9, <2>1 DEF events
<1> QED BY <1>8, <1>9

\* Nothing was matched of it before.
LEMMA UnmatchedBefore ==
  ASSUME MatchSound, NEW i \in 1..MaxIns, i \in DOMAIN ins => ins[i].moves = 0
  PROVE  matched[i] = 0
BY DEF MatchSound

\* The heap with the state of the transfer.
LEMMA HeapOne ==
  ASSUME heap \in Seq(TransferStates), NEW h \in TransferStates,
         \A k \in 1..Len(heap) : heap[k].ins # h.ins, heap' = Append(heap, h)
  PROVE  HeapGrows(heap, heap', h.ins) /\ Len(heap) < Len(heap') /\ heap'[Len(heap) + 1] = h
<1>1. /\ Len(heap) \in Nat
      /\ heap' \in Seq(TransferStates) /\ Len(heap') = Len(heap) + 1 /\ heap'[Len(heap) + 1] = h
      /\ \A k \in 1..Len(heap) : heap'[k] = heap[k]
  OBVIOUS
<1>2. \A k \in 1..Len(heap') : k > Len(heap) => k = Len(heap) + 1  BY <1>1
<1> QED BY <1>1, <1>2 DEF HeapGrows

\* With that and the state of what is left of it.
LEMMA HeapTwo ==
  ASSUME heap \in Seq(TransferStates), NEW h \in TransferStates, NEW e \in TransferStates,
         e.ins = h.ins, \A k \in 1..Len(heap) : heap[k].ins # h.ins, heap' = heap \o <<h, e>>
  PROVE  /\ HeapGrows(heap, heap', h.ins) /\ Len(heap) < Len(heap')
         /\ Len(heap) + 2 <= Len(heap') /\ heap'[Len(heap) + 2] = e
<1>1. /\ Len(heap) \in Nat
      /\ heap' \in Seq(TransferStates) /\ Len(heap') = Len(heap) + 2
      /\ heap'[Len(heap) + 1] = h /\ heap'[Len(heap) + 2] = e
      /\ \A k \in 1..Len(heap) : heap'[k] = heap[k]
  OBVIOUS
<1>2. \A k \in 1..Len(heap') : k > Len(heap) => k = Len(heap) + 1 \/ k = Len(heap) + 2  BY <1>1
<1> QED BY SMTT(60), <1>1, <1>2 DEF HeapGrows

\* The inscriptions after the move.
LEMMA TransferList ==
  ASSUME Inscribed(ins), ValidIsPending, ValidCommits, NEW i \in DOMAIN ins,
         ins[i].kind = "transfer", NEW events, Sound(events),
         \A j \in DOMAIN ins : RestAfter(events, Len(events), j) \in Nat,
         ins' = RestOf(MovedList(i), events)
  PROVE  /\ AfterEvents(ins', events) /\ Steps(ins, ins', i)
         /\ ValidIsPending' /\ ValidCommits'
         /\ \A v, s :
              /\ TotalAmt(ins', "transfer", v, s) = TotalAmt(ins, "transfer", v, s)
                   - (IF ins[i].pending /\ ins[i].owner = v /\ ins[i].tick = s
                      THEN ins[i].amt ELSE 0)
              /\ TotalAmt(ins', "approve", v, s) = TotalAmt(ins, "approve", v, s)
<1> DEFINE x == ins[i]
           y == MovedList(i)
           z == [x EXCEPT !.moves = 1, !.pending = FALSE]
           w == ins'
<1>1. x \in Inscriptions  BY PendingFacts
<1>2. y = [ins EXCEPT ![i] = z]  BY DEF MovedList
<1>3. /\ z \in Inscriptions /\ z.kind = x.kind /\ z.moves = 1 /\ ~z.pending
      /\ z.valid = x.valid /\ z.c = x.c /\ z.amt = x.amt /\ z.bal = x.bal
      /\ z.owner = x.owner /\ z.tick = x.tick
  BY <1>1 DEF Inscriptions
<1> HIDE DEF z, y
<1>4. /\ Inscribed(y) /\ DOMAIN y = DOMAIN ins /\ y[i] = z
      /\ \A j \in DOMAIN ins : j # i => y[j] = ins[j]
      /\ ChangesAt(ins, y, i) /\ \A j \in 1..MaxIns : j # i => SameBalAt(ins, y, j)
  BY <1>2, <1>3, ReplacedFacts
<1>5. \A j \in DOMAIN ins :
        /\ y[j].kind = ins[j].kind /\ y[j].owner = ins[j].owner /\ y[j].tick = ins[j].tick
        /\ y[j].amt = ins[j].amt /\ y[j].valid = ins[j].valid /\ y[j].c = ins[j].c
        /\ y[j].bal = ins[j].bal
        /\ j # i => y[j].pending = ins[j].pending /\ y[j].moves = ins[j].moves
  BY <1>3, <1>4
<1>6. /\ w \in Seq(Inscriptions) /\ Len(w) = Len(y) /\ DOMAIN w = DOMAIN y
      /\ \A j \in DOMAIN y :
           /\ w[j].kind = y[j].kind /\ w[j].owner = y[j].owner /\ w[j].tick = y[j].tick
           /\ w[j].amt = y[j].amt /\ w[j].valid = y[j].valid /\ w[j].pending = y[j].pending
           /\ w[j].moves = y[j].moves /\ w[j].c = y[j].c
           /\ w[j].bal = RestAfter(events, Len(events), j)
  <2>1. w = RestOf(y, events)  BY DEF y
  <2>2. y \in Seq(Inscriptions) /\ DOMAIN y = DOMAIN ins /\ \A j \in DOMAIN y : y[j].bal = ins[j].bal
    BY <1>4, <1>5 DEF Inscribed
  <2> HIDE DEF w
  <2> QED BY <2>1, <2>2, RestOfFields
<1>7. Inscribed(w)  BY <1>4, <1>6 DEF Inscribed
<1> HIDE DEF w
<1>8. \A j \in DOMAIN ins :
        /\ w[j].kind = ins[j].kind /\ w[j].owner = ins[j].owner /\ w[j].tick = ins[j].tick
        /\ w[j].amt = ins[j].amt /\ w[j].valid = ins[j].valid /\ w[j].c = ins[j].c
        /\ w[j].bal = RestAfter(events, Len(events), j)
        /\ j # i => w[j].pending = ins[j].pending /\ w[j].moves = ins[j].moves
  BY <1>4, <1>5, <1>6
<1>9. w[i].moves = 1 /\ DOMAIN w = DOMAIN ins  BY <1>3, <1>4, <1>6
<1>10. AfterEvents(w, events)  BY <1>7, <1>8, <1>9 DEF AfterEvents
<1>11. Steps(ins, w, i)  BY <1>7, <1>8, <1>9 DEF Steps
<1>12. ValidIsPending'
  <2>1. \A j \in DOMAIN w :
          /\ w[j].kind = "transfer" /\ w[j].valid /\ w[j].moves = 0 => w[j].pending
          /\ w[j].kind = "cond" /\ w[j].valid => w[j].pending
    BY <1>8, <1>9 DEF ValidIsPending
  <2> QED BY <2>1 DEF ValidIsPending, w
<1>13. ValidCommits'
  <2>1. \A j \in DOMAIN w : w[j].kind = "commit" =>
          w[j].c \in CommitIds /\ (w[j].valid => PoolsDiffer(CommitOf(w[j].c)))
    BY <1>8, <1>9 DEF ValidCommits
  <2> QED BY <2>1 DEF ValidCommits, w
<1>14. ASSUME NEW v, NEW s
       PROVE  /\ TotalAmt(w, "transfer", v, s) = TotalAmt(ins, "transfer", v, s)
                   - (IF x.pending /\ x.owner = v /\ x.tick = s THEN x.amt ELSE 0)
              /\ TotalAmt(w, "approve", v, s) = TotalAmt(ins, "approve", v, s)
  <2>1. \A j \in 1..MaxIns : SameAt(y, w, j)  BY <1>6 DEF SameAt
  <2>2. /\ TotalAmt(w, "transfer", v, s) = TotalAmt(y, "transfer", v, s)
        /\ TotalAmt(w, "approve", v, s) = TotalAmt(y, "approve", v, s)
    BY <1>4, <1>7, <2>1, TotalsSame
  <2>3. i \in DOMAIN y /\ ~y[i].pending  BY <1>3, <1>4
  <2>4. TotalAmt(y, "transfer", v, s) = TotalAmt(ins, "transfer", v, s)
          - (IF ins[i].kind = "transfer" /\ ins[i].pending /\ ins[i].owner = v /\ ins[i].tick = s
             THEN ins[i].amt ELSE 0)
    BY <1>4, <2>3, DropTotals
  <2>5. TotalAmt(y, "approve", v, s) = TotalAmt(ins, "approve", v, s)
    <3>1. ins[i].kind # "approve" /\ y[i].kind # "approve"  BY <1>5
    <3> QED BY <1>4, <2>3, <3>1, OtherKindTotals
  <2> QED BY <2>2, <2>4, <2>5
<1> QED BY <1>10, <1>11, <1>12, <1>13, <1>14 DEF w

\* Nothing is matched.
LEMMA MatchedSame ==
  ASSUME matched \in [1..MaxIns -> Nat], matched' \in [1..MaxIns -> Nat],
         \A j \in 1..MaxIns : matched'[j] = matched[j]
  PROVE  matched' = matched
<1>1. MaxIns \in Nat  BY BoundsAssumption
<1> QED BY <1>1

\* The transaction after the move.
LEMMA TransferTx ==
  ASSUME TxSound, MatchSound, NEW i \in DOMAIN ins, NEW to \in Users, MoveTransfer(i, to),
         ins[i].valid, ins[i].moves = 0, Steps(ins, ins', i), AfterEvents(ins', Settled(i, to))
  PROVE  TxSound' /\ MatchSound'
<1> DEFINE events == Settled(i, to)
           h == TransferState(i, to)
           r == MatchTransfer(h)
           rest == [h EXCEPT !.bal = r.left]
<1>1. Inscribed(ins) /\ Inscribed(ins') /\ DOMAIN ins' = DOMAIN ins  BY DEF Steps
<1>2. /\ h \in TransferStates /\ h.ins = i /\ h.bal = ins[i].amt /\ ins[i].amt \in Nat
      /\ i \in Nat /\ i \in 1..MaxIns
  BY <1>1, TransferStateFacts
<1>3. /\ Sound(events) /\ events \in Seq(Events)
      /\ \A k \in 1..Len(events) : events[k].from = i
      /\ ~(Seen(i) /\ Waits) => events = << >>
      /\ Seen(i) /\ Waits =>
           /\ events = r.events /\ TransferMatched(h, r, Len(apprs))
           /\ \A q \in 1..Len(apprs) : RestAfter(events, Len(events), apprs[q].i) = r.apprs[q].bal
  BY <1>1, TransferSettles
<1>4. /\ matched' = MatchedBy(events)
      /\ static' = IF Seen(i) THEN Append(static, Len(heap) + 1) ELSE static
      /\ heap' = IF ~Seen(i) THEN heap
                 ELSE IF Waits /\ r.left > 0 THEN heap \o <<h, rest>> ELSE Append(heap, h)
      /\ list' = IF Seen(i) /\ Waits /\ r.left > 0 THEN Append(list, Len(heap) + 2) ELSE list
      /\ apprs' = IF Seen(i) /\ Waits THEN r.apprs ELSE apprs
  BY TransferStatesNext
<1>5. /\ heap \in Seq(TransferStates) /\ apprs \in Seq(ApproveStates)
      /\ \A k \in 1..Len(heap) : heap[k].ins \in DOMAIN ins /\ ins[heap[k].ins].moves # 0
      /\ WaitOnce /\ WaitingArePending /\ matched \in [1..MaxIns -> Nat]
  BY TxNow
<1>6. \A k \in 1..Len(heap) : heap[k].ins # h.ins  BY <1>2, <1>5
<1>7. matched[i] = 0  BY <1>2, UnmatchedBefore
<1>8. r.left \in Nat => rest \in TransferStates /\ rest.ins = h.ins /\ rest.bal = r.left
  BY <1>2 DEF TransferStates
<1> HIDE DEF events, h, r, rest
<1>9. /\ matched' \in [1..MaxIns -> Nat]
      /\ \A j \in 1..MaxIns : matched'[j] = matched[j] + AmtFrom(events, j)
  BY <1>3, <1>4, <1>5, MatchedByFacts
<1>10. \A j \in 1..MaxIns : j # i => matched'[j] = matched[j]
  <2> TAKE j \in 1..MaxIns
  <2> HAVE j # i
  <2>1. AmtFrom(events, j) = 0  BY <1>3, AmtFromFacts
  <2> QED BY <1>5, <1>9, <2>1
<1>11. matched'[i] = AmtFrom(events, i) /\ AmtFrom(events, i) \in Nat
  BY <1>2, <1>3, <1>7, <1>9, AmtFromFacts
<1>12. \A j \in DOMAIN ins : /\ ins'[j].kind = ins[j].kind
                             /\ ins'[j].kind = "cond" => ins'[j].pending = ins[j].pending
                             /\ ins'[j].bal = RestAfter(events, Len(events), j)
  BY DEF AfterEvents, events
<1>13. CASE ~(Seen(i) /\ Waits)
  <2>1. events = << >> /\ apprs' = apprs /\ list' = list /\ Len(events) = 0  BY <1>3, <1>4, <1>13
  <2>2. AmtFrom(events, i) = 0
    <3>1. \A k \in 1..Len(events) : events[k].from # i  BY <2>1
    <3> QED BY <1>3, <3>1, AmtFromFacts
  <2>3. \A j \in DOMAIN ins : ins'[j].bal = ins[j].bal  BY <1>12, <2>1, RestAfterStep
  <2>4. WaitOnce' /\ WaitingArePending'
    <3>1. WaitOnce'  BY <1>5, <2>1 DEF WaitOnce
    <3>2. WaitingArePending'  BY <1>1, <1>5, <1>12, <2>1, <2>3 DEF WaitingArePending
    <3> QED BY <3>1, <3>2
  <2>5. CASE ~Seen(i)
    <3>1. UNCHANGED tx
      <4>1. \A j \in 1..MaxIns : matched'[j] = matched[j]  BY <1>2, <1>7, <1>10, <1>11, <2>2
      <4>2. matched' \in [1..MaxIns -> Nat] /\ matched \in [1..MaxIns -> Nat]  BY <1>5, <1>9
      <4>3. matched' = matched  BY <4>1, <4>2, MatchedSame
      <4> QED BY <1>4, <2>1, <2>5, <4>3 DEF tx
    <3>2. Grows(ins, ins')  BY <1>12, <2>3 DEF Grows, Steps
    <3> QED BY <1>1, <3>1, <3>2, TxKept
  <2>6. CASE Seen(i)
    <3>1. heap' = Append(heap, h) /\ static' = Append(static, Len(heap) + 1)  BY <1>4, <1>13, <2>6
    <3>2. HeapGrows(heap, heap', h.ins) /\ Len(heap) < Len(heap') /\ heap'[Len(heap) + 1] = h
      BY <1>2, <1>5, <1>6, <3>1, HeapOne
    <3>3. matched'[i] <= ins[i].amt /\ matched'[i] + heap'[Len(heap) + 1].bal <= ins[i].amt
      BY <1>2, <1>11, <2>2, <3>2
    <3> QED BY <1>2, <1>5, <1>9, <1>10, <2>1, <2>4, <3>1, <3>2, <3>3, TxGrows
  <2> QED BY <2>5, <2>6
<1>14. CASE Seen(i) /\ Waits
  <2>1. /\ events = r.events /\ TransferMatched(h, r, Len(apprs)) /\ apprs' = r.apprs
        /\ static' = Append(static, Len(heap) + 1) /\ apprs # << >>
        /\ \A q \in 1..Len(apprs) : RestAfter(events, Len(events), apprs[q].i) = r.apprs[q].bal
    BY <1>3, <1>4, <1>14 DEF Waits
  <2>2. /\ r.left \in Nat /\ apprs' \in Seq(ApproveStates) /\ Len(apprs') = Len(apprs)
        /\ \A q \in 1..Len(apprs) : apprs'[q].i = apprs[q].i
        /\ AmtFrom(events, h.ins) + r.left = h.bal
    BY <2>1 DEF TransferMatched
  <2>3. apprs' # << >> /\ DOMAIN apprs' = DOMAIN apprs /\ DOMAIN apprs = 1..Len(apprs)
    <3>1. Len(apprs) # 0 /\ Len(<< >>) = 0  BY <1>5, <2>1
    <3> QED BY <1>5, <2>2, <3>1
  <2>4. WaitOnce' /\ WaitingArePending'
    <3>1. WaitOnce'  BY <1>5, <2>2, <2>3 DEF WaitOnce
    <3>2. \A q \in 1..Len(apprs) :
            /\ apprs[q].i \in DOMAIN ins /\ ins[apprs[q].i].kind = "cond" /\ ins[apprs[q].i].pending
      BY <1>5 DEF WaitingArePending
    <3>3. \A q \in 1..Len(apprs') :
            /\ apprs'[q].i \in DOMAIN ins' /\ ins'[apprs'[q].i].kind = "cond"
            /\ ins'[apprs'[q].i].pending /\ apprs'[q].bal = ins'[apprs'[q].i].bal
      BY <1>1, <1>12, <2>1, <2>2, <3>2
    <3> QED BY <3>1, <3>3 DEF WaitingArePending
  <2>5. matched'[i] + r.left = ins[i].amt /\ matched'[i] <= ins[i].amt  BY <1>2, <1>11, <2>2
  <2>6. rest \in TransferStates /\ rest.ins = h.ins /\ rest.bal = r.left  BY <1>8, <2>2
  <2>7. CASE r.left > 0
    <3>1. heap' = heap \o <<h, rest>> /\ list' = Append(list, Len(heap) + 2)  BY <1>4, <1>14, <2>7
    <3>2. /\ HeapGrows(heap, heap', h.ins) /\ Len(heap) < Len(heap')
          /\ Len(heap) + 2 <= Len(heap') /\ heap'[Len(heap) + 2] = rest
      BY <1>2, <1>5, <1>6, <2>6, <3>1, HeapTwo
    <3>3. matched'[i] + heap'[Len(heap) + 2].bal <= ins[i].amt  BY <1>2, <2>5, <2>6, <3>2
    <3> QED BY <1>2, <1>9, <1>10, <2>1, <2>2, <2>3, <2>4, <2>5, <3>1, <3>2, <3>3, TxGrows
  <2>8. CASE ~(r.left > 0)
    <3>1. heap' = Append(heap, h) /\ list' = list  BY <1>4, <1>14, <2>8
    <3>2. HeapGrows(heap, heap', h.ins) /\ Len(heap) < Len(heap')
      BY <1>2, <1>5, <1>6, <3>1, HeapOne
    <3> QED BY <1>2, <1>9, <1>10, <2>1, <2>2, <2>3, <2>4, <2>5, <3>1, <3>2, TxGrows
  <2> QED BY <2>7, <2>8
<1> QED BY <1>13, <1>14

\* It is owed and counted.
LEMMA DepositFacts ==
  ASSUME NEW m \in Modules, CondsAdd(m), PoolsSound(m), NEW o \in Users, NEW t \in Ticks,
         NEW a \in Nat, NEW n, Deposited(m, n, o, t, a)
  PROVE  /\ n \in Modules /\ CondsAdd(n) /\ PoolsSound(n) /\ n.appr = m.appr /\ n.cond = m.cond
         /\ \A s \in Ticks :
              /\ Liabilities(n, s) = Liabilities(m, s) + (IF s = t THEN a ELSE 0)
              /\ n.dep[s] = m.dep[s] + (IF s = t THEN a ELSE 0)
<1> DEFINE swap == [m.swap EXCEPT ![o][t] = @ + a]
           dep == [m.dep EXCEPT ![t] = @ + a]
<1>1. n = [m EXCEPT !.swap = swap, !.dep = dep]  BY DEF Deposited
<1>2. m.swap \in Balances /\ m.dep \in Totals  BY DEF Modules
<1>3. /\ swap \in Balances /\ dep \in Totals
      /\ \A v \in Users, s \in Ticks :
           swap[v][s] = m.swap[v][s] + (IF v = o /\ s = t THEN a ELSE 0)
      /\ \A s \in Ticks : dep[s] = m.dep[s] + (IF s = t THEN a ELSE 0)
  BY <1>2 DEF Balances, Totals
<1> HIDE DEF swap, dep
<1>4. n \in Modules /\ n.swap = swap /\ n.dep = dep  BY <1>1, <1>3 DEF Modules
<1>5. /\ KeepsPools(m, n) /\ n.avail = m.avail /\ n.appr = m.appr /\ n.cond = m.cond
      /\ n.newAppr = m.newAppr /\ n.cancel = m.cancel /\ n.okAppr = m.okAppr
  BY <1>1 DEF Modules, KeepsPools
<1>6. CondsAdd(n) /\ PoolsSound(n)  BY <1>5, CondsKept, PoolsUntouched DEF KeepsPools
<1>7. ASSUME NEW s \in Ticks
      PROVE  Liabilities(n, s) = Liabilities(m, s) + (IF s = t THEN a ELSE 0)
  <2> DEFINE d == IF s = t THEN a ELSE 0
             X == SumFunctionOnSet(OwedTo(m, s), Users)
             Y == SumFunctionOnSet(InPools(m, s), Pairs)
  <2>1. d \in Int /\ 0 \in Int /\ X \in Int /\ Y \in Int  BY OwedInt
  <2>2. Flows(m, n, s, o, d, o, 0)
    <3>1. \A v \in Users : m.swap[v][s] \in Int /\ m.avail[v][s] \in Int  BY DEF Modules, Balances
    <3>2. \A v \in Users : n.swap[v][s] + n.avail[v][s] = m.swap[v][s] + m.avail[v][s]
                             + (IF v = o THEN d ELSE 0) + (IF v = o THEN 0 ELSE 0)
      <4> TAKE v \in Users
      <4> DEFINE A == m.swap[v][s]  B == m.avail[v][s]  x == IF v = o THEN d ELSE 0
      <4>1. A \in Int /\ B \in Int /\ x \in Int  BY <2>1, <3>1
      <4>2. n.swap[v][s] = A + x /\ n.avail[v][s] = B  BY <1>3, <1>4, <1>5
      <4> HIDE DEF A, B, x
      <4>3. (A + x) + B = A + B + x + 0  BY <4>1
      <4> QED BY <4>2, <4>3 DEF A, B, x
    <3> QED BY <1>5, <2>1, <3>2 DEF Flows
  <2> HIDE DEF d
  <2>3. SumFunctionOnSet(OwedTo(n, s), Users) = X + d + 0  BY <1>4, <2>2, OwedFlows
  <2>4. InPools(n, s) = InPools(m, s)  BY <1>5 DEF InPools, KeepsPools
  <2>5. Liabilities(n, s) = (X + d + 0) + Y /\ Liabilities(m, s) = X + Y
    BY <2>3, <2>4, LiabilitiesAre
  <2> HIDE DEF X, Y
  <2>6. (X + d + 0) + Y = (X + Y) + d  BY <2>1
  <2> QED BY <2>5, <2>6 DEF d
<1> QED BY <1>3, <1>4, <1>5, <1>6, <1>7

\* The balances after the move.
LEMMA TransferSupply ==
  ASSUME bal \in Balances, tran \in Balances, minted \in Totals, burned \in Totals,
         Supply(bal, tran, minted, burned), NEW o \in Active, NEW to \in Users, NEW t \in Ticks,
         NEW a \in Nat, Pays(o, to, t, a)
  PROVE  /\ bal' \in Balances /\ tran' \in Balances /\ burned' \in Totals
         /\ Supply(bal', tran', minted', burned')
         /\ \A v \in Users, s \in Ticks : tran'[v][s] = tran[v][s] - (IF v = o /\ s = t THEN a ELSE 0)
         /\ \A s \in Ticks : Holds(bal', tran', s)
                               = Holds(bal, tran, s) + (IF to = Module /\ s = t THEN a ELSE 0)
<1>1. /\ o \in Users /\ o # Burn /\ o # Module /\ Burn \in Users /\ Module \in Users
      /\ IsFiniteSet(Users)
  BY ScriptsAssumption
<1>2. /\ bal' \in Balances /\ tran' \in Balances /\ burned' \in Totals
      /\ \A v \in Users, s \in Ticks :
           /\ tran'[v][s] = tran[v][s] - (IF v = o /\ s = t THEN a ELSE 0)
           /\ bal'[v][s] = bal[v][s] + (IF v = to /\ s = t THEN a ELSE 0)
      /\ \A s \in Ticks : burned'[s] = burned[s] + (IF to = Burn /\ s = t THEN a ELSE 0)
      /\ minted' = minted
  BY <1>1 DEF Balances, Totals, Pays
<1>3. \A v \in Users, s \in Ticks : bal[v][s] \in Int /\ tran[v][s] \in Int  BY DEF Balances
<1>4. ASSUME NEW s \in Ticks
      PROVE  /\ SumFunctionOnSet(Held(bal', tran', s), Users) = minted'[s]
             /\ minted'[s] <= MaxSupply[s]
             /\ burned'[s] = bal'[Burn][s] + tran'[Burn][s]
             /\ Holds(bal', tran', s) = Holds(bal, tran, s) + (IF to = Module /\ s = t THEN a ELSE 0)
  <2> DEFINE d == IF s = t THEN a ELSE 0
             f == Held(bal, tran, s)
             g == Held(bal', tran', s)
  <2>1. /\ SumFunctionOnSet(f, Users) = minted[s] /\ minted[s] <= MaxSupply[s]
        /\ burned[s] = bal[Burn][s] + tran[Burn][s]
    BY DEF Supply
  <2>2. d \in Int /\ 0 - d \in Int  OBVIOUS
  <2>3. ASSUME NEW v \in Users
        PROVE  f[v] \in Int /\ g[v] = f[v] + (IF v = to THEN d ELSE 0) + (IF v = o THEN 0 - d ELSE 0)
    <3> DEFINE A == bal[v][s]  B == tran[v][s]
               p == IF v = to THEN d ELSE 0
               q == IF v = o THEN d ELSE 0
    <3>1. A \in Int /\ B \in Int /\ p \in Int /\ q \in Int  BY <1>3
    <3>2. bal'[v][s] = A + p /\ tran'[v][s] = B - q  BY <1>2
    <3>3. f[v] = A + B /\ g[v] = (A + p) + (B - q)  BY <3>2 DEF Held
    <3>4. 0 - q = IF v = o THEN 0 - d ELSE 0  OBVIOUS
    <3> HIDE DEF A, B, p, q, f, g
    <3>5. f[v] \in Int /\ g[v] = f[v] + p + (0 - q)  BY <3>1, <3>3
    <3> QED BY <3>4, <3>5 DEF p
  <2>4. minted[s] \in Int  BY DEF Totals
  <2>5. SumFunctionOnSet(g, Users) = minted[s]
    <3> HIDE DEF f, g, d
    <3>1. Shifts(Users, f, g, to, d, o, 0 - d)  BY <1>1, <2>2, <2>3 DEF Shifts
    <3>2. SumFunctionOnSet(g, Users) = SumFunctionOnSet(f, Users) + d + (0 - d)  BY <3>1, SumShifts
    <3> QED BY <2>1, <2>2, <2>4, <3>2
  <2>6. burned'[s] = bal'[Burn][s] + tran'[Burn][s]
    <3>1. bal[Burn][s] \in Int /\ tran[Burn][s] \in Int  BY <1>1, <1>3
    <3>2. /\ bal'[Burn][s] = bal[Burn][s] + (IF to = Burn /\ s = t THEN a ELSE 0)
          /\ tran'[Burn][s] = tran[Burn][s] - 0
      BY <1>1, <1>2
    <3> QED BY <1>2, <2>1, <3>1, <3>2
  <2>7. Holds(bal', tran', s) = Holds(bal, tran, s) + (IF to = Module /\ s = t THEN a ELSE 0)
    <3>1. bal[Module][s] \in Int /\ tran[Module][s] \in Int  BY <1>1, <1>3
    <3>2. /\ bal'[Module][s] = bal[Module][s] + (IF to = Module /\ s = t THEN a ELSE 0)
          /\ tran'[Module][s] = tran[Module][s] - 0
      BY <1>1, <1>2
    <3> QED BY <3>1, <3>2 DEF Holds
  <2> QED BY <1>2, <2>1, <2>5, <2>6, <2>7
<1> QED BY <1>2, <1>4 DEF Supply

\* A transfer moves.
LEMMA MoveTransferKeepsInv ==
  ASSUME LedgerInv, NEW i \in DOMAIN ins, NEW to \in Dests, MoveTransfer(i, to)
  PROVE  LedgerInv' /\ Funds
<1>1. /\ Typed /\ TxSound /\ MatchSound /\ ValidIsPending /\ ValidCommits
      /\ Supply(bal, tran, minted, burned)
      /\ Backed(ins, mod, tran) /\ CondsAdd(mod) /\ PoolsSound(mod)
  BY InvNow
<1>2. /\ Inscribed(ins) /\ ins \in Seq(Inscriptions) /\ mod \in Modules
      /\ bal \in Balances /\ tran \in Balances /\ minted \in Totals /\ burned \in Totals
      /\ to \in Users
  BY <1>1, ScriptsAssumption DEF Typed, Inscribed
<1>3. CASE ~ins[i].valid
  <2>1. /\ UNCHANGED <<minted, burned, bal, tran, tx>> /\ mod' = mod
        /\ Marks(ins, ins', i)
    BY <1>3 DEF MoveTransfer, Marks
  <2>2. mod' \in Modules /\ PoolsSound(mod') /\ KeepsApprovals(mod, mod') /\ Balanced(mod, mod')
    BY <1>1, <1>2, <2>1 DEF KeepsApprovals, Balanced
  <2> QED BY <1>3, <2>1, <2>2, MarkMoved
<1>4. CASE ins[i].valid
  <2> DEFINE x == ins[i]
             o == x.owner
             t == x.tick
             a == x.amt
             events == Settled(i, to)
             paid == BookEvents(mod, events)
  <2>1. x \in Inscriptions  BY <1>2
  <2>2. o \in Users /\ t \in Ticks /\ a \in Nat  BY <2>1 DEF Inscriptions
  <2>3. /\ x.kind = "transfer" /\ o \in Active /\ x.moves = 0
        /\ ins' = RestOf(MovedList(i), events)
        /\ tran' = [tran EXCEPT ![o][t] = @ - a]
        /\ bal' = [bal EXCEPT ![to][t] = @ + a]
        /\ burned' = [burned EXCEPT ![t] = IF to = Burn THEN @ + a ELSE @]
        /\ minted' = minted
        /\ mod' = IF Deposits(i, to) THEN [paid EXCEPT !.swap[o][t] = @ + a, !.dep[t] = @ + a]
                  ELSE paid
    BY <1>4, TransferBooks
  <2>4. x.pending  BY <1>1, <1>4, <2>3 DEF ValidIsPending
  <2>5. Sound(events)  BY <1>1, <1>2, TransferSettles
  <2> HIDE DEF events
  <2>6. /\ Booked(mod, paid, events, Len(events))
        /\ paid \in Modules /\ KeepsPools(mod, paid) /\ paid.dep = mod.dep /\ paid.appr = mod.appr
        /\ Balanced(mod, paid) /\ CondsAdd(paid) /\ PoolsSound(paid)
    BY <1>1, <1>2, <2>5, BookedModule
  <2> HIDE DEF paid
  <2>7. \A j \in DOMAIN ins : RestAfter(events, Len(events), j) \in Nat  BY <2>6 DEF Booked
  <2>8. /\ AfterEvents(ins', events) /\ Steps(ins, ins', i) /\ ValidIsPending' /\ ValidCommits'
        /\ \A v, s :
             /\ TotalAmt(ins', "transfer", v, s) = TotalAmt(ins, "transfer", v, s)
                  - (IF ins[i].pending /\ ins[i].owner = v /\ ins[i].tick = s
                     THEN ins[i].amt ELSE 0)
             /\ TotalAmt(ins', "approve", v, s) = TotalAmt(ins, "approve", v, s)
    BY <1>1, <1>2, <2>3, <2>5, <2>7, TransferList
  <2>9. TxSound' /\ MatchSound'
    <3>1. AfterEvents(ins', Settled(i, to))  BY <2>8 DEF events
    <3> QED BY <1>1, <1>2, <1>4, <2>3, <2>8, <3>1, TransferTx
  <2>10. /\ bal' \in Balances /\ tran' \in Balances /\ burned' \in Totals
         /\ Supply(bal', tran', minted', burned')
         /\ \A v \in Users, s \in Ticks : tran'[v][s] = tran[v][s] - (IF v = o /\ s = t THEN a ELSE 0)
         /\ \A s \in Ticks : Holds(bal', tran', s)
                               = Holds(bal, tran, s) + (IF to = Module /\ s = t THEN a ELSE 0)
    <3>1. Pays(o, to, t, a) /\ o \in Active  BY <2>3 DEF Pays
    <3> HIDE DEF o, t, a
    <3> QED BY <1>1, <1>2, <2>2, <3>1, TransferSupply
  <2>11. /\ mod' \in Modules /\ CondsAdd(mod') /\ PoolsSound(mod')
         /\ mod'.appr = paid.appr /\ mod'.cond = paid.cond
         /\ \A s \in Ticks :
              LET d == IF Deposits(i, to) /\ s = t THEN a ELSE 0
              IN  Liabilities(mod', s) = Liabilities(paid, s) + d /\ mod'.dep[s] = paid.dep[s] + d
    <3>3. Deposits(i, to) => Deposited(paid, mod', o, t, a)  BY <2>3 DEF Deposited
    <3> HIDE DEF o, t, a
    <3>1. CASE Deposits(i, to)
      <4>1. Deposited(paid, mod', o, t, a)  BY <3>1, <3>3
      <4>2. /\ mod' \in Modules /\ CondsAdd(mod') /\ PoolsSound(mod')
            /\ mod'.appr = paid.appr /\ mod'.cond = paid.cond
            /\ \A s \in Ticks : /\ Liabilities(mod', s) = Liabilities(paid, s) + (IF s = t THEN a ELSE 0)
                                /\ mod'.dep[s] = paid.dep[s] + (IF s = t THEN a ELSE 0)
        BY <2>2, <2>6, <4>1, DepositFacts
      <4> QED BY <3>1, <4>2
    <3>2. CASE ~Deposits(i, to)
      <4>1. mod' = paid  BY <2>3, <3>2
      <4>2. \A s \in Ticks : Liabilities(paid, s) \in Int /\ paid.dep[s] \in Int
        BY <1>2, <2>6, FundNumbers
      <4>3. \A s \in Ticks : /\ Liabilities(mod', s) = Liabilities(paid, s) + 0
                             /\ mod'.dep[s] = paid.dep[s] + 0
        BY <4>1, <4>2
      <4> QED BY <2>6, <3>2, <4>1, <4>3
    <3> QED BY <3>1, <3>2
  <2>12. Backed(ins', mod', tran')
    <3> SUFFICES ASSUME NEW v \in Users, NEW s \in Ticks
                 PROVE  /\ tran'[v][s] = TotalAmt(ins', "transfer", v, s)
                        /\ mod'.appr[v][s] = TotalAmt(ins', "approve", v, s)
                        /\ mod'.cond[v][s] = TotalBal(ins', "cond", v, s)
      BY DEF Backed
    <3>1. /\ tran[v][s] = TotalAmt(ins, "transfer", v, s)
          /\ mod.appr[v][s] = TotalAmt(ins, "approve", v, s)
          /\ mod.cond[v][s] = TotalBal(ins, "cond", v, s)
      BY <1>1 DEF Backed
    <3>2. TotalAmt(ins', "transfer", v, s) = TotalAmt(ins, "transfer", v, s)
                                             - (IF v = o /\ s = t THEN a ELSE 0)
      BY <2>4, <2>8
    <3>3. tran'[v][s] = tran[v][s] - (IF v = o /\ s = t THEN a ELSE 0)  BY <2>10
    <3>4. paid.cond[v][s] = TotalBal(ins', "cond", v, s)
      BY <1>2, <2>5, <2>6, <2>8, <3>1, BookedTotals
    <3>5. TotalAmt(ins', "approve", v, s) = TotalAmt(ins, "approve", v, s)  BY <2>8
    <3> HIDE DEF o, t, a
    <3> QED BY <2>6, <2>11, <3>1, <3>2, <3>3, <3>4, <3>5
  <2>13. Typed'
    <3>1. Inscribed(ins')  BY <2>8 DEF AfterEvents
    <3> QED BY <1>2, <2>3, <2>10, <2>11, <3>1 DEF Typed, Inscribed
  <2>14. LedgerInv'  BY <2>8, <2>9, <2>10, <2>11, <2>12, <2>13, InvNext
  <2>15. Funds
    <3> SUFFICES ASSUME NEW s \in Ticks
                 PROVE  /\ Liabilities(mod', s) - mod'.dep[s] = Liabilities(mod, s) - mod.dep[s]
                        /\ mod'.dep[s] - mod.dep[s] <= Holds(bal', tran', s) - Holds(bal, tran, s)
      BY DEF Funds
    <3> DEFINE d == IF Deposits(i, to) /\ s = t THEN a ELSE 0
               e == IF to = Module /\ s = t THEN a ELSE 0
               L == Liabilities(mod, s)
               D == mod.dep[s]
               H == Holds(bal, tran, s)
    <3>1. L \in Int /\ D \in Int /\ H \in Int  BY <1>2, FundNumbers
    <3>2. d \in Nat /\ e \in Nat /\ d <= e  BY <2>2 DEF Deposits
    <3>3. Liabilities(mod', s) = L + d /\ mod'.dep[s] = D + d  BY <2>6, <2>11 DEF Balanced
    <3>4. Holds(bal', tran', s) = H + e  BY <2>10
    <3> HIDE DEF d, e, L, D, H
    <3>5. (L + d) - (D + d) = L - D /\ (D + d) - D <= (H + e) - H  BY <3>1, <3>2
    <3> QED BY <3>3, <3>4, <3>5 DEF L, D, H
  <2> QED BY <2>14, <2>15
<1> QED BY <1>3, <1>4

-----------------------------------------------------------------------------
\* A conditional approval moves.

\* The action in these terms.
LEMMA ConditionalBooks ==
  ASSUME NEW i, NEW to, MoveConditionalApprove(i, to)
  PROVE  LET r == MatchApproval(i)
         IN  /\ ins[i].kind = "cond" /\ ins[i].valid
             /\ \A k \in DOMAIN apprs : apprs[k].i # i
             /\ ins' = RestOf(AppointedList(i, to), Charged(i, to))
             /\ mod' = BookEvents(mod, Charged(i, to))
             /\ matched' = MatchedBy(Charged(i, to))
             /\ heap' = IF Scans(i, to) THEN r.heap ELSE heap
             /\ list' = IF Scans(i, to) THEN Candidates ELSE list
             /\ apprs' = IF Scans(i, to) /\ r.left > 0
                         THEN Append(apprs, [i |-> i, bal |-> r.left]) ELSE apprs
             /\ UNCHANGED <<minted, burned, bal, tran, static>>
BY DEF MoveConditionalApprove, Refunds, Appoints, Scans, Refund, Charged, AppointedList, tick

\* What it is charged is sound, and charges it only.
LEMMA ConditionalCharges ==
  ASSUME Inscribed(ins), TxSound, MatchSound, NEW i \in DOMAIN ins, ins[i].kind = "cond",
         ins[i].pending, NEW to
  PROVE  LET events == Charged(i, to)
             r == MatchApproval(i)
         IN  /\ Sound(events) /\ events \in Seq(Events)
             /\ \A k \in 1..Len(events) : events[k].i = i
             /\ ~Scans(i, to) => \A k \in 1..Len(events) : events[k].from = 0
             /\ Scans(i, to) => /\ events = r.events /\ ApprovalMatched(i, r)
                                /\ RestAfter(events, Len(events), i) = r.left
<1> DEFINE events == Charged(i, to)
           r == MatchApproval(i)
<1>1. /\ heap \in Seq(TransferStates) /\ RefersTo(Candidates, heap)  BY TxNow
<1>2. CandidatesDiffer  BY <1>1 DEF CandidatesDiffer, RefersTo
<1>3. i \in Nat /\ ins[i].bal \in Nat /\ ins \in Seq(Inscriptions)  BY PendingFacts DEF Inscribed
<1>4. ApprovalMatched(i, r)  BY <1>1, <1>2, <1>3, ApprovalIsMatched
<1> HIDE DEF r
<1>5. Sound(r.events) /\ RestAfter(r.events, Len(r.events), i) = r.left  BY <1>4, ApprovalSound
<1>6. r.events \in Seq(Events) /\ \A k \in 1..Len(r.events) : r.events[k].i = i
  BY <1>4 DEF ApprovalMatched
<1>7. /\ Sound(Refund(i)) /\ Len(Refund(i)) = 1 /\ Refund(i)[1].i = i /\ Refund(i)[1].from = 0
  BY <1>3, RefundSound DEF Refund
<1>8. events = IF Refunds(i, to) THEN Refund(i) ELSE IF Appoints(i, to) THEN << >> ELSE r.events
  BY DEF Charged, r
<1> HIDE DEF events
<1>9. CASE Scans(i, to)
  <2>1. events = r.events  BY <1>8, <1>9 DEF Scans
  <2> QED BY <1>4, <1>5, <1>6, <1>9, <2>1 DEF events, r
<1>10. CASE ~Scans(i, to)
  <2>1. events = Refund(i) \/ events = << >>  BY <1>8, <1>10 DEF Scans
  <2>2. CASE events = Refund(i)
    <3>1. Refund(i) \in Seq(Events) /\ \A k \in 1..Len(Refund(i)) : k = 1  BY <1>7 DEF Sound
    <3> QED BY <1>7, <1>10, <2>2, <3>1 DEF events
  <2>3. CASE events = << >>
    <3>1. Sound(<< >>) /\ << >> \in Seq(Events) /\ Len(<< >>) = 0  BY NoEventSound
    <3> QED BY <1>10, <2>3, <3>1 DEF events
  <2> QED BY <2>1, <2>2, <2>3
<1> QED BY <1>9, <1>10

\* The inscriptions after the move.
LEMMA ConditionalList ==
  ASSUME Inscribed(ins), ValidIsPending, ValidCommits, NEW i \in DOMAIN ins, NEW to \in Users,
         NEW events, Sound(events),
         \A j \in DOMAIN ins : RestAfter(events, Len(events), j) \in Nat,
         ins' = RestOf(AppointedList(i, to), events)
  PROVE  /\ AfterEvents(ins', events) /\ Steps(ins, ins', i)
         /\ ValidIsPending' /\ ValidCommits'
         /\ \A kind, v, s : TotalAmt(ins', kind, v, s) = TotalAmt(ins, kind, v, s)
<1> DEFINE x == ins[i]
           y == AppointedList(i, to)
           agent == IF Appoints(i, to) THEN to ELSE x.agent
           moves == x.moves + 1
           z == [x EXCEPT !.moves = moves, !.agent = agent]
           w == ins'
<1>1. x \in Inscriptions  BY PendingFacts
<1>2. y = [ins EXCEPT ![i] = z]  BY DEF AppointedList
<1>3. agent \in Users \cup {"none"} /\ moves \in Nat /\ moves # 0  BY <1>1 DEF Inscriptions
<1> HIDE DEF agent, moves
<1>4. /\ z \in Inscriptions /\ z.kind = x.kind /\ z.moves # 0 /\ z.pending = x.pending
      /\ z.valid = x.valid /\ z.c = x.c /\ z.amt = x.amt /\ z.bal = x.bal
      /\ z.owner = x.owner /\ z.tick = x.tick
  BY <1>1, <1>3 DEF Inscriptions
<1> HIDE DEF z, y
<1>5. /\ Inscribed(y) /\ DOMAIN y = DOMAIN ins /\ y[i] = z
      /\ \A j \in DOMAIN ins : j # i => y[j] = ins[j]
  BY <1>2, <1>4, ReplacedFacts
<1>6. \A j \in DOMAIN ins :
        /\ y[j].kind = ins[j].kind /\ y[j].owner = ins[j].owner /\ y[j].tick = ins[j].tick
        /\ y[j].amt = ins[j].amt /\ y[j].valid = ins[j].valid /\ y[j].c = ins[j].c
        /\ y[j].bal = ins[j].bal /\ y[j].pending = ins[j].pending
        /\ j # i => y[j].moves = ins[j].moves
  BY <1>4, <1>5
<1>7. /\ w \in Seq(Inscriptions) /\ Len(w) = Len(y) /\ DOMAIN w = DOMAIN y
      /\ \A j \in DOMAIN y :
           /\ w[j].kind = y[j].kind /\ w[j].owner = y[j].owner /\ w[j].tick = y[j].tick
           /\ w[j].amt = y[j].amt /\ w[j].valid = y[j].valid /\ w[j].pending = y[j].pending
           /\ w[j].moves = y[j].moves /\ w[j].c = y[j].c
           /\ w[j].bal = RestAfter(events, Len(events), j)
  <2>1. w = RestOf(y, events)  BY DEF y
  <2>2. y \in Seq(Inscriptions) /\ DOMAIN y = DOMAIN ins /\ \A j \in DOMAIN y : y[j].bal = ins[j].bal
    BY <1>5, <1>6 DEF Inscribed
  <2> HIDE DEF w
  <2> QED BY <2>1, <2>2, RestOfFields
<1>8. Inscribed(w)  BY <1>5, <1>7 DEF Inscribed
<1> HIDE DEF w
<1>9. \A j \in DOMAIN ins :
        /\ w[j].kind = ins[j].kind /\ w[j].owner = ins[j].owner /\ w[j].tick = ins[j].tick
        /\ w[j].amt = ins[j].amt /\ w[j].valid = ins[j].valid /\ w[j].c = ins[j].c
        /\ w[j].bal = RestAfter(events, Len(events), j) /\ w[j].pending = ins[j].pending
        /\ j # i => w[j].moves = ins[j].moves
  BY <1>5, <1>6, <1>7
<1>10. w[i].moves # 0 /\ DOMAIN w = DOMAIN ins  BY <1>4, <1>5, <1>7
<1>11. AfterEvents(w, events) /\ Steps(ins, w, i)  BY <1>8, <1>9, <1>10 DEF AfterEvents, Steps
<1>12. ValidIsPending'
  <2>1. \A j \in DOMAIN w :
          /\ w[j].kind = "transfer" /\ w[j].valid /\ w[j].moves = 0 => w[j].pending
          /\ w[j].kind = "cond" /\ w[j].valid => w[j].pending
    BY <1>9, <1>10 DEF ValidIsPending
  <2> QED BY <2>1 DEF ValidIsPending, w
<1>13. ValidCommits'
  <2>1. \A j \in DOMAIN w : w[j].kind = "commit" =>
          w[j].c \in CommitIds /\ (w[j].valid => PoolsDiffer(CommitOf(w[j].c)))
    BY <1>9, <1>10 DEF ValidCommits
  <2> QED BY <2>1 DEF ValidCommits, w
<1>14. ASSUME NEW kind, NEW v, NEW s
       PROVE  TotalAmt(w, kind, v, s) = TotalAmt(ins, kind, v, s)
  <2>1. \A j \in 1..MaxIns : SameAt(ins, w, j)  BY <1>9, <1>10 DEF SameAt
  <2> QED BY <1>8, <2>1, TotalsSame
<1> QED BY <1>11, <1>12, <1>13, <1>14 DEF w

\* The transaction after the move.
LEMMA ConditionalTx ==
  ASSUME TxSound, MatchSound, NEW i \in DOMAIN ins, ins[i].kind = "cond", ins[i].pending,
         NEW to \in Users, MoveConditionalApprove(i, to), Steps(ins, ins', i),
         AfterEvents(ins', Charged(i, to))
  PROVE  TxSound' /\ MatchSound'
<1> DEFINE events == Charged(i, to)
           r == MatchApproval(i)
           C == Candidates
<1>1. /\ Inscribed(ins) /\ Inscribed(ins') /\ DOMAIN ins' = DOMAIN ins
      /\ \A j \in DOMAIN ins : ins'[j].amt = ins[j].amt /\ (ins[j].moves # 0 => ins'[j].moves # 0)
  BY DEF Steps
<1>2. /\ DOMAIN ins \subseteq 1..MaxIns /\ i \in Nat /\ DOMAIN ins \subseteq Nat
      /\ \A j \in DOMAIN ins : ins[j].amt \in Nat
  <2>1. /\ DOMAIN ins \subseteq 1..MaxIns /\ \A j \in DOMAIN ins : ins[j].amt \in Nat
    BY <1>1, PendingFacts
  <2> QED BY <2>1
<1>3. /\ Sound(events) /\ events \in Seq(Events)
      /\ \A k \in 1..Len(events) : events[k].i = i
      /\ ~Scans(i, to) => \A k \in 1..Len(events) : events[k].from = 0
      /\ Scans(i, to) => /\ events = r.events /\ ApprovalMatched(i, r)
                         /\ RestAfter(events, Len(events), i) = r.left
  BY <1>1, ConditionalCharges
<1>4. /\ \A k \in DOMAIN apprs : apprs[k].i # i
      /\ matched' = MatchedBy(events) /\ static' = static
      /\ heap' = IF Scans(i, to) THEN r.heap ELSE heap
      /\ list' = IF Scans(i, to) THEN C ELSE list
      /\ apprs' = IF Scans(i, to) /\ r.left > 0 THEN Append(apprs, [i |-> i, bal |-> r.left]) ELSE apprs
  BY ConditionalBooks
<1>5. /\ heap \in Seq(TransferStates) /\ apprs \in Seq(ApproveStates)
      /\ \A k \in 1..Len(heap) : heap[k].ins \in DOMAIN ins /\ ins[heap[k].ins].moves # 0
      /\ RefersTo(static, heap) /\ RefersTo(list, heap) /\ WaitOnce /\ WaitingArePending
      /\ matched \in [1..MaxIns -> Nat]
      /\ \A j \in DOMAIN ins : matched[j] <= ins[j].amt
      /\ \A j \in 1..MaxIns : matched[j] # 0 => j \in DOMAIN ins /\ ins[j].moves # 0
      /\ Matchable(matched, C, heap, ins) /\ RefersTo(C, heap)
  BY TxNow
<1> HIDE DEF events, r
<1>6. \A j \in DOMAIN ins : /\ ins'[j].kind = ins[j].kind
                            /\ ins'[j].kind = "cond" => ins'[j].pending = ins[j].pending
                            /\ ins'[j].bal = RestAfter(events, Len(events), j)
  BY DEF AfterEvents, events
<1>7. \A j \in DOMAIN ins : j # i => ins'[j].bal = ins[j].bal
  <2> TAKE j \in DOMAIN ins
  <2> HAVE j # i
  <2>1. Len(events) \in Nat /\ \A q \in 1..Len(events) : events[q].i # j  BY <1>3
  <2>2. RestAfter(events, Len(events), j) = ins[j].bal  BY <2>1, RestUncharged
  <2> QED BY <1>6, <2>2
<1>8. \A q \in 1..Len(apprs) :
        /\ apprs[q].i \in DOMAIN ins' /\ ins'[apprs[q].i].kind = "cond" /\ ins'[apprs[q].i].pending
        /\ apprs[q].bal = ins'[apprs[q].i].bal
  <2> TAKE q \in 1..Len(apprs)
  <2>1. /\ apprs[q].i \in DOMAIN ins /\ ins[apprs[q].i].kind = "cond" /\ ins[apprs[q].i].pending
        /\ apprs[q].bal = ins[apprs[q].i].bal
    BY <1>5 DEF WaitingArePending
  <2>2. apprs[q].i # i  BY <1>4, <1>5
  <2> QED BY <1>1, <1>6, <1>7, <2>1, <2>2
<1>9. /\ matched' \in [1..MaxIns -> Nat]
      /\ \A j \in 1..MaxIns : matched'[j] = matched[j] + AmtFrom(events, j)
  BY <1>3, <1>4, <1>5, MatchedByFacts
<1>10. CASE ~Scans(i, to)
  <2>1. heap' = heap /\ static' = static /\ list' = list /\ apprs' = apprs  BY <1>4, <1>10
  <2>2. \A j \in 1..MaxIns : matched'[j] = matched[j]
    <3> TAKE j \in 1..MaxIns
    <3>1. \A k \in 1..Len(events) : events[k].from # j  BY <1>3, <1>10
    <3>2. AmtFrom(events, j) = 0  BY <1>3, <3>1, AmtFromFacts
    <3> QED BY <1>5, <1>9, <3>2
  <2>3. WaitOnce' /\ WaitingArePending'  BY <1>5, <1>8, <2>1 DEF WaitOnce, WaitingArePending
  <2>4. matched' = matched  BY <1>5, <1>9, <2>2, MatchedSame
  <2>5. Matchable(matched, C, heap, ins')
    <3> SUFFICES ASSUME NEW k \in DOMAIN C
                 PROVE  matched[heap[C[k]].ins] + heap[C[k]].bal <= ins'[heap[C[k]].ins].amt
      BY DEF Matchable
    <3>1. C[k] \in 1..Len(heap)  BY <1>5 DEF RefersTo
    <3>2. heap[C[k]].ins \in DOMAIN ins  BY <1>5, <3>1
    <3>3. matched[heap[C[k]].ins] + heap[C[k]].bal <= ins[heap[C[k]].ins].amt  BY <1>5 DEF Matchable
    <3> QED BY <1>1, <3>2, <3>3
  <2>6. C = IF apprs' = << >> THEN static' ELSE list'  BY <2>1 DEF Candidates
  <2>7. \A j \in DOMAIN ins' : matched[j] <= ins'[j].amt  BY <1>1, <1>5
  <2>8. \A j \in 1..MaxIns : matched[j] # 0 => j \in DOMAIN ins' /\ ins'[j].moves # 0  BY <1>1, <1>5
  <2>9. \A k \in 1..Len(heap) : heap[k].ins \in DOMAIN ins' /\ ins'[heap[k].ins].moves # 0
    BY <1>1, <1>5
  <2> HIDE DEF C
  <2> QED BY <1>5, <2>1, <2>3, <2>4, <2>5, <2>6, <2>7, <2>8, <2>9, TxNext
<1>11. CASE Scans(i, to)
  <2>1. /\ heap' = r.heap /\ list' = C /\ static' = static
        /\ apprs' = IF r.left > 0 THEN Append(apprs, [i |-> i, bal |-> r.left]) ELSE apprs
        /\ ins'[i].bal = r.left /\ events = r.events
    BY <1>3, <1>4, <1>6, <1>11
  <2>2. /\ r.left \in Nat /\ heap' \in Seq(TransferStates) /\ Len(heap') = Len(heap)
        /\ \A q \in 1..Len(heap) : heap'[q].ins = heap[q].ins
        /\ \A l \in 1..Len(C) : heap'[C[l]].bal + AmtFrom(events, heap[C[l]].ins) = heap[C[l]].bal
        /\ \A j \in Nat : (\A l \in 1..Len(C) : heap[C[l]].ins # j) => AmtFrom(events, j) = 0
    BY <1>3, <1>11, <2>1 DEF ApprovalMatched
  <2>3. DOMAIN C = 1..Len(C) /\ \A k \in DOMAIN C : C[k] \in 1..Len(heap)  BY <1>5 DEF RefersTo
  <2>4. ASSUME NEW refs, RefersTo(refs, heap) PROVE RefersTo(refs, heap')
    BY <2>2, <2>4 DEF RefersTo
  <2>5. ASSUME NEW k \in DOMAIN C
        PROVE  /\ heap[C[k]].ins \in DOMAIN ins /\ heap'[C[k]].ins = heap[C[k]].ins
               /\ matched'[heap[C[k]].ins] + heap'[C[k]].bal <= ins[heap[C[k]].ins].amt
    <3> DEFINE j == heap[C[k]].ins
               A == matched[j]  B == AmtFrom(events, j)  D == heap[C[k]].bal  E == heap'[C[k]].bal
    <3>1. C[k] \in 1..Len(heap)  BY <2>3
    <3>2. j \in DOMAIN ins /\ heap'[C[k]].ins = j  BY <1>5, <2>2, <3>1
    <3>3. A + D <= ins[j].amt  BY <1>5 DEF Matchable
    <3>4. E + B = D  BY <2>2, <2>3
    <3>5. matched'[j] = A + B  BY <1>2, <1>9, <3>2
    <3>6. A \in Nat /\ B \in Nat  BY <1>2, <1>3, <1>5, <3>2, AmtFromFacts
    <3>7. D \in Nat /\ E \in Nat
      <4>1. heap[C[k]] \in TransferStates /\ heap'[C[k]] \in TransferStates  BY <1>5, <2>2, <3>1
      <4> QED BY <4>1 DEF TransferStates
    <3>8. ins[j].amt \in Nat  BY <1>2, <3>2
    <3> HIDE DEF A, B, D, E, j
    <3>9. (A + B) + E <= ins[j].amt  BY <3>3, <3>4, <3>6, <3>7, <3>8
    <3> QED BY <3>2, <3>5, <3>9 DEF j, E
  <2>6. ASSUME NEW j \in DOMAIN ins
        PROVE  matched'[j] <= ins[j].amt /\ (matched'[j] # 0 => ins[j].moves # 0)
    <3>1. CASE \A l \in 1..Len(C) : heap[C[l]].ins # j
      <4>1. AmtFrom(events, j) = 0  BY <1>2, <2>2, <3>1
      <4>2. matched'[j] = matched[j]  BY <1>2, <1>5, <1>9, <4>1
      <4> QED BY <1>2, <1>5, <4>2
    <3>2. ASSUME NEW l \in 1..Len(C), heap[C[l]].ins = j
          PROVE  matched'[j] <= ins[j].amt /\ (matched'[j] # 0 => ins[j].moves # 0)
      <4>1. C[l] \in 1..Len(heap) /\ l \in DOMAIN C  BY <2>3
      <4>2. ins[j].moves # 0  BY <1>5, <3>2, <4>1
      <4>3. matched'[j] + heap'[C[l]].bal <= ins[j].amt  BY <2>5, <3>2, <4>1
      <4>4. heap'[C[l]].bal \in Nat
        <5>1. heap'[C[l]] \in TransferStates  BY <2>2, <4>1
        <5> QED BY <5>1 DEF TransferStates
      <4>5. matched'[j] \in Nat /\ ins[j].amt \in Nat  BY <1>2, <1>9
      <4> QED BY <4>2, <4>3, <4>4, <4>5
    <3> QED BY <3>1, <3>2
  <2>7. \A j \in 1..MaxIns : matched'[j] # 0 => j \in DOMAIN ins
    <3> TAKE j \in 1..MaxIns
    <3>1. CASE \A l \in 1..Len(C) : heap[C[l]].ins # j
      <4>1. AmtFrom(events, j) = 0  BY <2>2, <3>1
      <4> QED BY <1>5, <1>9, <4>1
    <3>2. CASE \E l \in 1..Len(C) : heap[C[l]].ins = j  BY <2>3, <2>5, <3>2
    <3> QED BY <3>1, <3>2
  <2>8. /\ apprs' \in Seq(ApproveStates) /\ WaitOnce' /\ WaitingArePending'
        /\ apprs' = << >> => apprs = << >>
    <3>1. CASE r.left > 0
      <4> DEFINE e == [i |-> i, bal |-> r.left]
                 n == Len(apprs) + 1
      <4>1. apprs' = Append(apprs, e) /\ e \in ApproveStates /\ e.i = i /\ e.bal = r.left
        BY <1>2, <2>1, <2>2, <3>1 DEF ApproveStates
      <4> HIDE DEF e
      <4>2. /\ apprs' \in Seq(ApproveStates) /\ Len(apprs') = n /\ DOMAIN apprs' = 1..n
            /\ apprs'[n] = e /\ n # 0 /\ Len(apprs) \in Nat /\ DOMAIN apprs = 1..Len(apprs)
            /\ \A q \in 1..Len(apprs) : apprs'[q] = apprs[q]
        BY <1>5, <4>1
      <4>3. \A q \in 1..n : q = n \/ q \in 1..Len(apprs)  BY <4>2
      <4>4. apprs' # << >>  BY <4>2
      <4>5. WaitOnce'
        <5>1. ASSUME NEW k \in 1..n, NEW l \in 1..n, apprs'[k].i = apprs'[l].i PROVE k = l
          <6>1. CASE k = n /\ l = n  BY <6>1
          <6>2. CASE k = n /\ l \in 1..Len(apprs)  BY <1>4, <4>1, <4>2, <5>1, <6>2
          <6>3. CASE l = n /\ k \in 1..Len(apprs)  BY <1>4, <4>1, <4>2, <5>1, <6>3
          <6>4. CASE k \in 1..Len(apprs) /\ l \in 1..Len(apprs)
            BY <1>5, <4>2, <5>1, <6>4 DEF WaitOnce
          <6> QED BY <4>3, <6>1, <6>2, <6>3, <6>4
        <5> QED BY <4>2, <5>1 DEF WaitOnce
      <4>6. WaitingArePending'
        <5>1. ASSUME NEW q \in 1..n
              PROVE  /\ apprs'[q].i \in DOMAIN ins' /\ ins'[apprs'[q].i].kind = "cond"
                     /\ ins'[apprs'[q].i].pending /\ apprs'[q].bal = ins'[apprs'[q].i].bal
          <6>1. CASE q = n  BY <1>1, <1>6, <2>1, <4>1, <4>2, <6>1
          <6>2. CASE q \in 1..Len(apprs)  BY <1>8, <4>2, <6>2
          <6> QED BY <4>3, <6>1, <6>2
        <5> QED BY <4>2, <5>1 DEF WaitingArePending
      <4> QED BY <4>2, <4>4, <4>5, <4>6
    <3>2. CASE ~(r.left > 0)
      <4>1. apprs' = apprs  BY <2>1, <3>2
      <4> QED BY <1>5, <1>8, <4>1 DEF WaitOnce, WaitingArePending
    <3> QED BY <3>1, <3>2
  <2>9. C = IF apprs' = << >> THEN static' ELSE list'  BY <2>1, <2>8 DEF Candidates
  <2>10. Matchable(matched', C, heap', ins')  BY <1>1, <2>5 DEF Matchable
  <2>11. RefersTo(static', heap') /\ RefersTo(list', heap')  BY <1>5, <2>1, <2>4
  <2>12. \A k \in 1..Len(heap') : heap'[k].ins \in DOMAIN ins' /\ ins'[heap'[k].ins].moves # 0
    BY <1>1, <1>5, <2>2
  <2>13. \A j \in DOMAIN ins' : matched'[j] <= ins'[j].amt  BY <1>1, <2>6
  <2>14. \A j \in 1..MaxIns : matched'[j] # 0 => j \in DOMAIN ins' /\ ins'[j].moves # 0
    BY <1>1, <2>6, <2>7
  <2> HIDE DEF C
  <2> QED BY <1>9, <2>2, <2>8, <2>9, <2>10, <2>11, <2>12, <2>13, <2>14, TxNext
<1> QED BY <1>10, <1>11

\* A conditional approval moves.
LEMMA MoveConditionalKeepsInv ==
  ASSUME LedgerInv, NEW i \in DOMAIN ins, NEW to \in Dests, MoveConditionalApprove(i, to)
  PROVE  LedgerInv' /\ Funds
<1> DEFINE events == Charged(i, to)
<1>1. /\ Typed /\ TxSound /\ MatchSound /\ ValidIsPending /\ ValidCommits
      /\ Supply(bal, tran, minted, burned)
      /\ Backed(ins, mod, tran) /\ CondsAdd(mod) /\ PoolsSound(mod)
  BY InvNow
<1>2. /\ Inscribed(ins) /\ ins \in Seq(Inscriptions) /\ mod \in Modules /\ to \in Users
      /\ bal \in Balances /\ tran \in Balances
  BY <1>1, ScriptsAssumption DEF Typed, Inscribed
<1>3. /\ ins[i].kind = "cond" /\ ins[i].valid /\ ins' = RestOf(AppointedList(i, to), events)
      /\ mod' = BookEvents(mod, events) /\ UNCHANGED <<minted, burned, bal, tran>>
  BY ConditionalBooks
<1>4. ins[i].pending  BY <1>1, <1>3 DEF ValidIsPending
<1>5. Sound(events)  BY <1>1, <1>2, <1>3, <1>4, ConditionalCharges
<1> HIDE DEF events
<1>6. /\ Booked(mod, mod', events, Len(events))
      /\ mod' \in Modules /\ mod'.dep = mod.dep /\ mod'.appr = mod.appr
      /\ Balanced(mod, mod') /\ CondsAdd(mod') /\ PoolsSound(mod')
  BY <1>1, <1>2, <1>3, <1>5, BookedModule
<1>7. \A j \in DOMAIN ins : RestAfter(events, Len(events), j) \in Nat  BY <1>6 DEF Booked
<1>8. /\ AfterEvents(ins', events) /\ Steps(ins, ins', i) /\ ValidIsPending' /\ ValidCommits'
      /\ \A kind, v, s : TotalAmt(ins', kind, v, s) = TotalAmt(ins, kind, v, s)
  BY <1>1, <1>2, <1>3, <1>5, <1>7, ConditionalList
<1>9. TxSound' /\ MatchSound'
  <2>1. AfterEvents(ins', Charged(i, to))  BY <1>8 DEF events
  <2> QED BY <1>1, <1>2, <1>3, <1>4, <1>8, <2>1, ConditionalTx
<1>10. Backed(ins', mod', tran')
  <2> SUFFICES ASSUME NEW v \in Users, NEW s \in Ticks
               PROVE  /\ tran[v][s] = TotalAmt(ins', "transfer", v, s)
                      /\ mod'.appr[v][s] = TotalAmt(ins', "approve", v, s)
                      /\ mod'.cond[v][s] = TotalBal(ins', "cond", v, s)
    BY <1>3 DEF Backed
  <2>1. /\ tran[v][s] = TotalAmt(ins, "transfer", v, s)
        /\ mod.appr[v][s] = TotalAmt(ins, "approve", v, s)
        /\ mod.cond[v][s] = TotalBal(ins, "cond", v, s)
    BY <1>1 DEF Backed
  <2>2. mod'.cond[v][s] = TotalBal(ins', "cond", v, s)
    BY <1>2, <1>5, <1>6, <1>8, <2>1, BookedTotals
  <2> QED BY <1>6, <1>8, <2>1, <2>2
<1>11. Typed'  BY <1>1, <1>3, <1>6, <1>8 DEF Typed, AfterEvents, Inscribed
<1>12. Supply(bal', tran', minted', burned')  BY <1>1, <1>3
<1>13. LedgerInv'  BY <1>6, <1>8, <1>9, <1>10, <1>11, <1>12, InvNext
<1>14. \A t \in Ticks : Holds(bal, tran, t) <= Holds(bal', tran', t)
  <2> TAKE t \in Ticks
  <2>1. Holds(bal, tran, t) \in Int /\ bal' = bal /\ tran' = tran  BY <1>2, <1>3, FundNumbers
  <2> QED BY <2>1
<1>15. Funds  BY <1>1, <1>6, <1>11, <1>14, FundsBalanced
<1> QED BY <1>13, <1>15

-----------------------------------------------------------------------------
\* The theorems.

\* Every step keeps the invariant and, when the ticks of commits are written
\* as the pools' deployers wrote them, the funds of the module.
LEMMA NextKeepsInv ==
  ASSUME LedgerInv, [Next]_vars
  PROVE  LedgerInv' /\ (SameTicks => Funds)
<1>0. Typed  BY DEF LedgerInv
<1>1. ASSUME NEW t \in Ticks, NEW u \in Inscribers, Deploy(t, u)
      PROVE  LedgerInv' /\ Funds
  <2>1. UNCHANGED <<minted, burned, bal, tran, ins, mod, tx>> /\ UNCHANGED <<mod, bal, tran>>
    BY <1>1 DEF Deploy
  <2> QED BY <1>0, <2>1, NothingMoves, FundsSame
<1>2. ASSUME NEW t \in Ticks, NEW u \in Inscribers, NEW a \in Amounts, Mint(t, u, a)
      PROVE  LedgerInv' /\ Funds
  BY <1>2, MintKeepsInv, MintFunds
<1>3. CASE CreateModule
  <2>1. UNCHANGED <<minted, burned, bal, tran, ins, mod, tx>> /\ UNCHANGED <<mod, bal, tran>>
    BY <1>3 DEF CreateModule, tick
  <2> QED BY <1>0, <2>1, NothingMoves, FundsSame
<1>4. ASSUME NEW i \in DOMAIN ins, MoveWithdraw(i)
      PROVE  LedgerInv' /\ Funds
  <2>1. UNCHANGED <<minted, burned, bal, tran, ins, mod, tx>> /\ UNCHANGED <<mod, bal, tran>>
    BY <1>4 DEF MoveWithdraw, tick
  <2> QED BY <1>0, <2>1, NothingMoves, FundsSame
<1>5. CASE NextTx
  <2>1. /\ UNCHANGED <<minted, burned, bal, tran, ins, mod, matched>> /\ ClearTx
        /\ UNCHANGED <<mod, bal, tran>>
    BY <1>5 DEF NextTx, tick
  <2> QED BY <1>0, <2>1, TxEnds, FundsSame
<1>6. CASE EndBlock
  <2>1. /\ UNCHANGED <<minted, burned, bal, tran, ins, mod, matched>> /\ ClearTx
        /\ UNCHANGED <<mod, bal, tran>>
    BY <1>6 DEF EndBlock, tick
  <2> QED BY <1>0, <2>1, TxEnds, FundsSame
<1>7. CASE UNCHANGED vars
  <2>1. UNCHANGED <<minted, burned, bal, tran, ins, mod, tx>> /\ UNCHANGED <<mod, bal, tran>>
    BY <1>7 DEF vars, tick, tx
  <2> QED BY <1>0, <2>1, NothingMoves, FundsSame
<1>8. ASSUME NEW t \in Ticks, NEW u \in Inscribers, NEW a \in Amounts,
             \/ InscribeTransfer(u, t, a) \/ InscribeApprove(u, t, a)
             \/ InscribeConditionalApprove(u, t, a) \/ InscribeWithdraw(u, t, a)
      PROVE  LedgerInv' /\ Funds
  BY <1>8, InscribeTransferKeepsInv, InscribeApproveKeepsInv, InscribeConditionalKeepsInv,
     InscribeWithdrawKeepsInv
<1>9. ASSUME NEW i \in DOMAIN ins, NEW to \in Dests,
             MoveTransfer(i, to) \/ MoveApprove(i, to) \/ MoveConditionalApprove(i, to)
      PROVE  LedgerInv' /\ Funds
  BY <1>9, MoveTransferKeepsInv, MoveApproveKeepsInv, MoveConditionalKeepsInv
<1>10. ASSUME NEW c \in Commits, NEW u \in Inscribers, InscribeCommit(c, u)
       PROVE  LedgerInv' /\ Funds
  BY <1>10, InscribeCommitKeepsInv
<1>11. ASSUME NEW i \in DOMAIN ins, NEW to \in Dests, MoveCommit(i, to)
       PROVE  LedgerInv' /\ (SameTicks => Funds)
  BY <1>11, MoveCommitKeepsInv
<1> QED  BY <1>1, <1>2, <1>3, <1>4, <1>5, <1>6, <1>7, <1>8, <1>9, <1>10, <1>11 DEF Next

\* The amounts of a start are numbers.
LEMMA StartFacts ==
  ASSUME NEW st \in Starts
  PROVE  /\ st.bal \in [Users -> [Ticks -> Nat]] /\ st.avail \in [Users -> [Ticks -> Nat]]
         /\ st.swap \in [Users -> [Ticks -> Nat]]
         /\ \A t \in Ticks :
              /\ SumFunctionOnSet([u \in Users |-> st.bal[u][t]], Users) <= MaxSupply[t]
              /\ SumFunctionOnSet([u \in Users |-> st.avail[u][t] + st.swap[u][t]], Users)
                   <= st.bal[Module][t]
              /\ st.bal[Burn][t] = 0
<1>1. \A f \in {"bal", "avail", "swap"} : st[f] \in [Users -> [Ticks -> Nat]]  BY StartsAssumption
<1>2. /\ st["bal"] \in [Users -> [Ticks -> Nat]] /\ st["avail"] \in [Users -> [Ticks -> Nat]]
      /\ st["swap"] \in [Users -> [Ticks -> Nat]]
  BY <1>1
<1> QED BY <1>2, StartsAssumption DEF SumOf

\* It has no pools, no approvals and no commits.
LEMMA StartModuleFacts ==
  ASSUME NEW st \in Starts
  PROVE  LET m == StartModule(st) IN
         /\ m \in Modules /\ PoolsSound(m)
         /\ m.avail = st.avail /\ m.swap = st.swap
         /\ \A u \in Users, t \in Ticks : m.appr[u][t] = 0 /\ m.cond[u][t] = 0
         /\ \A t \in Ticks :
              /\ m.newAppr[t] = 0 /\ m.cancel[t] = 0 /\ m.okAppr[t] = 0
              /\ m.dep[t] = SumFunctionOnSet([u \in Users |-> st.avail[u][t] + st.swap[u][t]], Users)
         /\ \A p \in Pairs, t \in Ticks : m.res[p][t] = 0
<1> DEFINE m == StartModule(st)
           first == [p \in Pairs |-> CHOOSE t \in p : TRUE]
           owed == [t \in Ticks |->
                      SumFunctionOnSet([u \in Users |-> st.avail[u][t] + st.swap[u][t]], Users)]
           zero == [u \in Users |-> [t \in Ticks |-> 0]]
           none == [p \in Pairs |-> 0]
           naught == [t \in Ticks |-> 0]
           res == [p \in Pairs |-> [t \in Ticks |-> 0]]
           shares == [p \in Pairs |-> [u \in Users |-> 0]]
           ofUser == [u \in Users |-> none]
<1>1. st.avail \in Balances /\ st.swap \in Balances  BY StartFacts DEF Balances
<1>2. owed \in Totals
  <2> SUFFICES ASSUME NEW t \in Ticks
               PROVE  SumFunctionOnSet([u \in Users |-> st.avail[u][t] + st.swap[u][t]], Users) \in Int
    BY DEF Totals
  <2> DEFINE f == [u \in Users |-> st.avail[u][t] + st.swap[u][t]]
  <2>1. \A u \in Users : f[u] \in Int  BY <1>1 DEF Balances
  <2>2. IsFiniteSet(Users)  BY ScriptsAssumption
  <2> HIDE DEF f
  <2>3. SumFunctionOnSet(f, Users) \in Int  BY <2>1, <2>2, SumInt
  <2> QED BY <2>3 DEF f
<1>3. first \in [Pairs -> Ticks] /\ \A p \in Pairs : first[p] \in p
  <2> SUFFICES ASSUME NEW p \in Pairs PROVE first[p] \in p /\ first[p] \in Ticks  OBVIOUS
  <2>1. p \subseteq Ticks /\ \E t \in p : TRUE  BY DEF Pairs
  <2>2. (CHOOSE t \in p : TRUE) \in p  BY <2>1
  <2> QED BY <2>1, <2>2
<1>4. /\ zero \in Balances /\ naught \in Totals /\ none \in [Pairs -> Nat]
      /\ res \in [Pairs -> [Ticks -> Nat]] /\ shares \in [Pairs -> [Users -> Int]]
      /\ ofUser \in [Users -> [Pairs -> Int]]
  BY DEF Balances, Totals
<1>5. NewModule = [swap |-> zero, avail |-> zero, appr |-> zero, cond |-> zero, ready |-> zero,
           dep |-> naught, newAppr |-> naught, okAppr |-> naught, cancel |-> naught,
           pools |-> {}, tick0 |-> first, res |-> res, lp |-> none, lastK |-> none,
           lpOfPool |-> shares, lpOfUser |-> ofUser, lpUsers |-> {},
           ids |-> {}, chain |-> {}, invalid |-> {}]
  BY DEF NewModule
<1>6. m = [NewModule EXCEPT !.avail = st.avail, !.swap = st.swap, !.dep = owed]  BY DEF StartModule
<1>7. /\ \A u \in Users, t \in Ticks : zero[u][t] = 0
      /\ \A t \in Ticks : naught[t] = 0
      /\ \A p \in Pairs, t \in Ticks : res[p][t] = 0
      /\ \A p \in Pairs : none[p] = 0
      /\ \A t \in Ticks : owed[t] =
           SumFunctionOnSet([u \in Users |-> st.avail[u][t] + st.swap[u][t]], Users)
  OBVIOUS
<1> HIDE DEF m, first, owed, zero, none, naught, res, shares, ofUser
<1>8. m \in Modules
  <2>1. NewModule \in Modules  BY <1>3, <1>4, <1>5 DEF Modules
  <2> HIDE DEF NewModule
  <2> QED BY <1>1, <1>2, <1>6, <2>1 DEF Modules
<1>9. /\ m.avail = st.avail /\ m.swap = st.swap /\ m.appr = zero /\ m.cond = zero
      /\ m.newAppr = naught /\ m.cancel = naught /\ m.okAppr = naught /\ m.dep = owed
      /\ m.res = res /\ m.lp = none /\ m.tick0 = first
  <2> DEFINE n == NewModule
  <2>1. /\ n.appr = zero /\ n.cond = zero /\ n.newAppr = naught /\ n.cancel = naught
        /\ n.okAppr = naught /\ n.res = res /\ n.lp = none /\ n.tick0 = first
    BY <1>5
  <2>2. n \in Modules  BY <1>3, <1>4, <1>5 DEF Modules
  <2> HIDE DEF n
  <2>3. m = [n EXCEPT !.avail = st.avail, !.swap = st.swap, !.dep = owed]  BY <1>6 DEF n
  <2> QED BY <2>1, <2>2, <2>3 DEF Modules
<1>10. PoolsSound(m)
  <2>1. \A p \in Pairs : m.lp[p] = 0 /\ m.tick0[p] \in p  BY <1>3, <1>7, <1>9
  <2> QED BY <2>1 DEF PoolsSound, PoolSound
<1> QED BY <1>7, <1>8, <1>10, <1>9 DEF m

\* Nothing is pending in an empty list.
LEMMA NoneTotals ==
  ASSUME NEW kind, NEW u, NEW t
  PROVE  TotalAmt(<< >>, kind, u, t) = 0 /\ TotalBal(<< >>, kind, u, t) = 0
<1> DEFINE S == 1..MaxIns
           f == AmtOf(<< >>, kind, u, t)
           g == BalOf(<< >>, kind, u, t)
<1>1. \A j \in S : f[j] = 0 /\ g[j] = 0  BY DEF AmtOf, BalOf, IsPending
<1>2. IsFiniteSet(S)  BY BoundsAssumption, FS_Interval
<1>3. SumFunctionOnSet(f, {}) = 0 /\ SumFunctionOnSet(g, {}) = 0  BY SumEmpty
<1>4. TotalAmt(<< >>, kind, u, t) = SumFunctionOnSet(f, S) /\ TotalBal(<< >>, kind, u, t) = SumFunctionOnSet(g, S)
  BY DEF TotalAmt, TotalBal
<1> HIDE DEF f, g, S
<1>5. (\A j \in S : f[j] \in Int /\ g[j] \in Int) /\ {} \in SUBSET S  BY <1>1
<1>6. SumFunctionOnSet(f, S) = SumFunctionOnSet(f, {}) /\ SumFunctionOnSet(g, S) = SumFunctionOnSet(g, {})
  BY <1>1, <1>2, <1>5, SumIgnoresZeros
<1> QED BY <1>3, <1>4, <1>6

\* The initial states.
LEMMA InitFacts ==
  ASSUME Init
  PROVE  \E st \in Starts :
           /\ bal = st.bal /\ tran = [u \in Users |-> [t \in Ticks |-> 0]]
           /\ minted = [t \in Ticks |-> SumFunctionOnSet([u \in Users |-> st.bal[u][t]], Users)]
           /\ burned = [t \in Ticks |-> 0]
           /\ ins = << >> /\ mod = StartModule(st)
           /\ heap = << >> /\ static = << >> /\ list = << >> /\ apprs = << >>
           /\ matched = [i \in 1..MaxIns |-> 0]
BY DEF Init, SumOf, StartModule

\* The invariant holds at first, and the module is backed.
LEMMA InitIsSound ==
  ASSUME Init
  PROVE  LedgerInv /\ ModuleBacked
<1>1. PICK st \in Starts :
         /\ bal = st.bal /\ tran = [u \in Users |-> [t \in Ticks |-> 0]]
         /\ minted = [t \in Ticks |-> SumFunctionOnSet([u \in Users |-> st.bal[u][t]], Users)]
         /\ burned = [t \in Ticks |-> 0]
         /\ ins = << >> /\ mod = StartModule(st)
         /\ heap = << >> /\ static = << >> /\ list = << >> /\ apprs = << >>
         /\ matched = [i \in 1..MaxIns |-> 0]
  BY InitFacts
<1>2. /\ mod \in Modules /\ PoolsSound(mod) /\ mod.avail = st.avail /\ mod.swap = st.swap
      /\ \A u \in Users, t \in Ticks : mod.appr[u][t] = 0 /\ mod.cond[u][t] = 0
      /\ \A t \in Ticks :
           /\ mod.newAppr[t] = 0 /\ mod.cancel[t] = 0 /\ mod.okAppr[t] = 0
           /\ mod.dep[t] = SumFunctionOnSet([u \in Users |-> st.avail[u][t] + st.swap[u][t]], Users)
      /\ \A p \in Pairs, t \in Ticks : mod.res[p][t] = 0
  BY <1>1, StartModuleFacts
<1>3. /\ st.bal \in [Users -> [Ticks -> Nat]] /\ st.avail \in [Users -> [Ticks -> Nat]]
      /\ st.swap \in [Users -> [Ticks -> Nat]]
      /\ \A t \in Ticks :
           /\ SumFunctionOnSet([u \in Users |-> st.bal[u][t]], Users) <= MaxSupply[t]
           /\ SumFunctionOnSet([u \in Users |-> st.avail[u][t] + st.swap[u][t]], Users)
                <= st.bal[Module][t]
           /\ st.bal[Burn][t] = 0
  BY StartFacts
<1>4. IsFiniteSet(Users) /\ Module \in Users /\ Burn \in Users /\ MaxIns \in Nat
  BY ScriptsAssumption, BoundsAssumption
<1>5. Typed
  <2>1. bal \in Balances /\ tran \in Balances /\ burned \in Totals
    BY <1>1, <1>3 DEF Balances, Totals
  <2>2. minted \in Totals
    <3> SUFFICES ASSUME NEW t \in Ticks
                 PROVE  SumFunctionOnSet([u \in Users |-> st.bal[u][t]], Users) \in Int
      BY <1>1 DEF Totals
    <3> DEFINE f == [u \in Users |-> st.bal[u][t]]
    <3>1. \A u \in Users : f[u] \in Int  BY <1>3
    <3> HIDE DEF f
    <3>2. SumFunctionOnSet(f, Users) \in Int  BY <1>4, <3>1, SumInt
    <3> QED BY <3>2 DEF f
  <2>3. ins \in Seq(Inscriptions) /\ Len(ins) <= MaxIns  BY <1>1, <1>4
  <2> QED BY <1>2, <2>1, <2>2, <2>3 DEF Typed
<1>6. /\ Len(heap) = 0 /\ Len(apprs) = 0 /\ DOMAIN static = {} /\ DOMAIN list = {}
      /\ DOMAIN apprs = {} /\ DOMAIN ins = {}
  BY <1>1
<1>7. TxSound
  <2>1. Refers(static) /\ Refers(list)  BY <1>1, <1>6 DEF Refers
  <2>2. WaitOnce /\ WaitingArePending  BY <1>6 DEF WaitOnce, WaitingArePending
  <2>3. heap \in Seq(TransferStates) /\ apprs \in Seq(ApproveStates)  BY <1>1
  <2> QED BY <1>6, <2>1, <2>2, <2>3 DEF TxSound
<1>8. MatchSound
  <2>1. DOMAIN Candidates = {}  BY <1>1, <1>6 DEF Candidates
  <2>2. matched \in [1..MaxIns -> Nat] /\ \A i \in 1..MaxIns : matched[i] = 0  BY <1>1
  <2> QED BY <1>6, <2>1, <2>2 DEF MatchSound, MatchedAtMostOnce
<1>9. ValidIsPending /\ ValidCommits  BY <1>6 DEF ValidIsPending, ValidCommits
<1>10. Supply(bal, tran, minted, burned)
  <2> SUFFICES ASSUME NEW t \in Ticks
               PROVE  /\ SumFunctionOnSet(Held(bal, tran, t), Users) = minted[t]
                      /\ minted[t] <= MaxSupply[t]
                      /\ burned[t] = bal[Burn][t] + tran[Burn][t]
    BY DEF Supply
  <2>1. Held(bal, tran, t) = [u \in Users |-> st.bal[u][t]]
    <3>1. \A u \in Users : st.bal[u][t] \in Nat /\ bal[u][t] = st.bal[u][t] /\ tran[u][t] = 0
      BY <1>1, <1>3
    <3>2. \A u \in Users : bal[u][t] + tran[u][t] = st.bal[u][t]  BY <3>1
    <3> QED BY <3>2 DEF Held
  <2>2. minted[t] = SumFunctionOnSet([u \in Users |-> st.bal[u][t]], Users)  BY <1>1
  <2>3. burned[t] = 0 /\ bal[Burn][t] = 0 /\ tran[Burn][t] = 0  BY <1>1, <1>3, <1>4
  <2>4. minted[t] <= MaxSupply[t]  BY <1>3, <2>2
  <2>5. burned[t] = bal[Burn][t] + tran[Burn][t]  BY <2>3
  <2> QED BY <2>1, <2>2, <2>4, <2>5
<1>11. Backed(ins, mod, tran)  BY <1>1, <1>2, NoneTotals DEF Backed
<1>12. CondsAdd(mod)
  <2> SUFFICES ASSUME NEW t \in Ticks
               PROVE  mod.newAppr[t] - mod.cancel[t] - mod.okAppr[t] = SumFunctionOnSet(CondOf(mod, t), Users)
    BY DEF CondsAdd
  <2>1. \A u \in Users : CondOf(mod, t)[u] = 0  BY <1>2 DEF CondOf
  <2>2. SumFunctionOnSet(CondOf(mod, t), Users) = 0  BY <1>4, <2>1, SumZeros
  <2>3. mod.newAppr[t] = 0 /\ mod.cancel[t] = 0 /\ mod.okAppr[t] = 0  BY <1>2
  <2> QED BY <2>2, <2>3
<1>13. LedgerInv  BY <1>2, <1>5, <1>7, <1>8, <1>9, <1>10, <1>11, <1>12, InvNow
<1>14. ASSUME NEW t \in Ticks
       PROVE  /\ Liabilities(mod, t) = mod.dep[t]
              /\ mod.dep[t] <= bal[Module][t] + tran[Module][t]
  <2> DEFINE owed == [u \in Users |-> st.avail[u][t] + st.swap[u][t]]
  <2>1. \A u \in Users : OwedTo(mod, t)[u] = owed[u]
    <3>1. \A u \in Users : st.avail[u][t] \in Nat /\ st.swap[u][t] \in Nat  BY <1>3
    <3> QED BY <1>2, <3>1 DEF OwedTo
  <2>2. mod.dep[t] = SumFunctionOnSet(owed, Users)  BY <1>2
  <2>3. SumFunctionOnSet(owed, Users) <= st.bal[Module][t] /\ st.bal[Module][t] \in Nat
    BY <1>3, <1>4
  <2> HIDE DEF owed
  <2>4. SumFunctionOnSet(OwedTo(mod, t), Users) = SumFunctionOnSet(owed, Users)
    BY <1>4, <2>1, SumAgrees
  <2>5. SumFunctionOnSet(InPools(mod, t), Pairs) = 0
    <3>1. \A p \in Pairs : InPools(mod, t)[p] = 0  BY <1>2 DEF InPools
    <3> QED BY <3>1, PairsFinite, SumZeros
  <2>6. SumFunctionOnSet(owed, Users) \in Int  BY <1>2, <2>4, OwedInt
  <2>7. Liabilities(mod, t) = mod.dep[t]  BY <2>2, <2>4, <2>5, <2>6, LiabilitiesAre
  <2>8. bal[Module][t] = st.bal[Module][t] /\ tran[Module][t] = 0  BY <1>1, <1>4
  <2> QED BY <2>2, <2>3, <2>6, <2>7, <2>8
<1> QED BY <1>13, <1>14 DEF ModuleBacked

\* The ledger keeps its books: the inductive invariant holds in every state
\* that mints, transfers, approvals, matches, withdrawals and commits reach.
THEOREM SpecLedgerInv == Spec => []LedgerInv
<1>1. Init => LedgerInv  BY InitIsSound
<1>2. LedgerInv /\ [Next]_vars => LedgerInv'  BY NextKeepsInv
<1> QED BY <1>1, <1>2, PTL DEF Spec

\* Supply: the balances of a tick always add up to what was minted, never more
\* than its maximum, and Burned is what OP_RETURN holds (ProcessMint,
\* ProcessInscribeTransfer, ProcessTransfer).
THEOREM SpecSupplyIsHeld == Spec => []SupplyIsHeld
<1>1. LedgerInv => SupplyIsHeld  BY DEF LedgerInv
<1> QED BY <1>1, SpecLedgerInv, PTL

\* Books of the module: transferable, approved and conditionally approved
\* balances are always the sums of the pending inscriptions they stand for,
\* through every partial match and refund.
THEOREM SpecPendingIsBacked == Spec => []PendingIsBacked
<1>1. LedgerInv => PendingIsBacked  BY DEF LedgerInv
<1> QED BY <1>1, SpecLedgerInv, PTL

\* Matching: a transfer settles conditional approvals for at most its amount,
\* whatever the order of transfers and approvals within the transaction
\* (ProcessConditionalApproveEvents and the shared transfer states).
THEOREM SpecMatchedAtMostOnce == Spec => []MatchedAtMostOnce
<1>1. LedgerInv => MatchedAtMostOnce  BY DEF LedgerInv, MatchSound
<1> QED BY <1>1, SpecLedgerInv, PTL

\* Pools: one that has LP keeps both reserves, and its root K never falls
\* behind the mark of the service fee, whatever commits run.
THEOREM SpecPoolKeepsValue == Spec => []PoolKeepsValue
<1>1. LedgerInv => PoolKeepsValue
  <2> SUFFICES ASSUME LedgerInv, NEW p \in mod.pools, mod.lp[p] > 0
               PROVE  /\ \A t \in p : mod.res[p][t] > 0
                      /\ RootK(mod, p) >= mod.lastK[p] /\ mod.lastK[p] > 0
    BY DEF PoolKeepsValue
  <2>1. mod \in Modules /\ PoolsSound(mod)  BY DEF LedgerInv, Typed
  <2>2. p \in Pairs  BY <2>1 DEF Modules
  <2> QED BY <2>1, <2>2 DEF PoolsSound, PoolSound
<1> QED BY <1>1, SpecLedgerInv, PTL

\* A step that keeps the funds keeps the module backed.
LEMMA FundsKeepBacking ==
  ASSUME LedgerInv, LedgerInv', ModuleBacked, Funds
  PROVE  ModuleBacked'
<1>1. mod \in Modules /\ bal \in Balances /\ tran \in Balances  BY DEF LedgerInv, Typed
<1>2. mod' \in Modules /\ bal' \in Balances /\ tran' \in Balances  BY DEF LedgerInv, Typed
<1>3. ASSUME NEW t \in Ticks
      PROVE  Liabilities(mod', t) = mod'.dep[t] /\ mod'.dep[t] <= Holds(bal', tran', t)
  <2> DEFINE A == Liabilities(mod, t)
             B == mod.dep[t]
             C == Holds(bal, tran, t)
             X == Liabilities(mod', t)
             Y == mod'.dep[t]
             Z == Holds(bal', tran', t)
  <2>1. A \in Int /\ B \in Int /\ C \in Int  BY <1>1, FundNumbers
  <2>2. X \in Int /\ Y \in Int /\ Z \in Int  BY <1>2, FundNumbers
  <2>3. A = B /\ B <= C  BY DEF ModuleBacked, Holds
  <2>4. X - Y = A - B /\ Y - B <= Z - C  BY DEF Funds
  <2> HIDE DEF A, B, C, X, Y, Z
  <2>5. X = Y /\ Y <= Z  BY <2>1, <2>2, <2>3, <2>4
  <2> QED BY <2>5 DEF X, Y, Z
<1>4. \A t \in Ticks : Liabilities(mod', t) = mod'.dep[t] /\ mod'.dep[t] <= bal'[Module][t] + tran'[Module][t]
  BY <1>3 DEF Holds
<1> QED BY <1>4 DEF ModuleBacked, Liabilities, SumOf

\* Solvency of the module: as long as commits write ticks as the pools'
\* deployers did, what the module owes users and pools was deposited and its
\* script still holds it.
THEOREM SpecModuleBacked == SameTicks => (Spec => []ModuleBacked)
<1> SUFFICES ASSUME SameTicks PROVE Spec => []ModuleBacked  OBVIOUS
<1>1. Init => ModuleBacked  BY InitIsSound
<1>2. LedgerInv /\ LedgerInv' /\ ModuleBacked /\ [Next]_vars => ModuleBacked'
  BY NextKeepsInv, FundsKeepBacking
<1> QED BY <1>1, <1>2, SpecLedgerInv, PTL DEF Spec

-----------------------------------------------------------------------------
\* Commits below the height: the rehearsal on the copy is the execution.

\* Then the function has the same result.
LEMMA SameFunction ==
  ASSUME NEW m, NEW f \in SwapFunctions, NEW e1, NEW e2, ReadAlike(f, e1, e2)
  PROVE  ProcessFunction(m, f, e1) = ProcessFunction(m, f, e2)
<1>1. f.t0 \in e1.known /\ f.t1 \in e1.known /\ f.t0 \in e2.known /\ f.t1 \in e2.known
  BY DEF ReadAlike, Pair
<1>2. \A t, a : t \in {f.t0, f.t1} => CheckTickVerify(e1, t, a) = a /\ CheckTickVerify(e2, t, a) = a
  BY <1>1 DEF CheckTickVerify
<1>3. PoolFound(m, f, e1) <=> PoolFound(m, f, e2)  BY DEF ReadAlike, PoolFound
<1>4. SwapPanics(m, f, e1) <=> SwapPanics(m, f, e2)  BY <1>1 DEF SwapPanics
<1>5. AddLiquidity(m, f, e1) = AddLiquidity(m, f, e2)  BY <1>2, <1>3 DEF AddLiquidity
<1>6. RemoveLiquidity(m, f, e1) = RemoveLiquidity(m, f, e2)  BY <1>2, <1>3 DEF RemoveLiquidity
<1>7. Swap(m, f, e1) = Swap(m, f, e2)  BY <1>2, <1>3, <1>4 DEF Swap
<1>8. Send(m, f, e1) = Send(m, f, e2) /\ DecreaseApproval(m, f, e1) = DecreaseApproval(m, f, e2)
  <2>1. CheckTickVerify(e1, f.t0, f.amt) = CheckTickVerify(e2, f.t0, f.amt)  BY <1>2
  <2>2. Send(m, f, e1) = Send(m, f, e2)  BY <2>1, Zenon DEF Send
  <2>3. DecreaseApproval(m, f, e1) = DecreaseApproval(m, f, e2)
    <3> DEFINE D(a) == IF m.swap[f.by][f.t0] < a THEN Err(m)
                       ELSE Ok([m EXCEPT !.swap[f.by][f.t0] = @ - a, !.avail[f.by][f.t0] = @ + a])
    <3>1. \A e : DecreaseApproval(m, f, e) = D(CheckTickVerify(e, f.t0, f.amt))
      BY DEF DecreaseApproval
    <3> HIDE DEF D
    <3> QED BY <2>1, <3>1
  <2> QED BY <2>2, <2>3
<1> QED BY <1>5, <1>6, <1>7, <1>8 DEF ProcessFunction

\* And so has the commit.
LEMMA SameCommit ==
  ASSUME NEW m, NEW c \in Commits, NEW e1, NEW e2,
         \A k \in 1..Len(c.data) : ReadAlike(c.data[k], e1, e2), e1.enabled = e2.enabled
  PROVE  ProcessCommitVerify(m, c, e1) = ProcessCommitVerify(m, c, e2)
<1> DEFINE n == Len(c.data)
           R == CommitRun(m, c, e1)
           S == CommitRun(m, c, e2)
           T == {k \in 0..n : R[k] = S[k]}
<1>1. c.data \in Seq(SwapFunctions) /\ n \in Nat  BY CommitsAssumption
<1>2. /\ R[0] = Ok(m) /\ \A k \in 1..n : R[k] = RunFunction(R[k - 1], c.data[k], c.gas, e1)
      /\ S[0] = Ok(m) /\ \A k \in 1..n : S[k] = RunFunction(S[k - 1], c.data[k], c.gas, e2)
  BY <1>1, CommitRunUnfolds
<1>3. ASSUME NEW k \in 1..n, NEW r
      PROVE  RunFunction(r, c.data[k], c.gas, e1) = RunFunction(r, c.data[k], c.gas, e2)
  <2> DEFINE f == c.data[k]
  <2>1. f \in SwapFunctions /\ ReadAlike(f, e1, e2)  BY <1>1, <1>3
  <2> HIDE DEF f
  <2>2. GasFee(r.m, f, c.gas, e1) = GasFee(r.m, f, c.gas, e2)  BY DEF GasFee
  <2>3. \A g : AfterGas(g, f, e1) = AfterGas(g, f, e2)  BY <2>1, SameFunction DEF AfterGas
  <2>4. RunFunction(r, f, c.gas, e1) = RunFunction(r, f, c.gas, e2)  BY <2>2, <2>3 DEF RunFunction
  <2> QED BY <2>4 DEF f
<1>4. \A k \in 1..n : R[k - 1] = S[k - 1] => R[k] = S[k]  BY <1>2, <1>3
<1>5. n \in T
  <2>1. n \in Nat /\ 0 \in T /\ \A k \in 1..n : k - 1 \in T => k \in T  BY <1>1, <1>2, <1>4
  <2> HIDE DEF n, T
  <2> QED BY <2>1, UpTo
<1>6. Run(m, c, e1) = R /\ Run(m, c, e2) = S  BY RunIsRun
<1> HIDE DEF R, S, n
<1>7. Run(m, c, e1)[n] = Run(m, c, e2)[n]  BY <1>5, <1>6
<1> QED BY <1>7 DEF ProcessCommitVerify, n

\* The copy knows all ticks of such a commit.
LEMMA PickedAll ==
  ASSUME NEW c \in Commits, OldFormat(c)
  PROVE  \A k \in 1..Len(c.data) : Pair(c.data[k]) \subseteq PickedTicks(c, FALSE)
<1> SUFFICES ASSUME NEW k \in 1..Len(c.data)
             PROVE  Pair(c.data[k]) \subseteq PickedTicks(c, FALSE)
  OBVIOUS
<1>1. Len(c.data) \in Nat /\ DOMAIN c.data = 1..Len(c.data)  BY CommitsAssumption
<1>2. \A j \in 1..k : j \in 1..Len(c.data)  BY <1>1
<1> QED BY <1>1, <1>2 DEF PickedTicks, OldFormat

\* Below the height a commit is either accepted, continuing one that nobody
\* continued, or leaves nothing but its id among the invalid ones.
LEMMA CommitDecided ==
  ASSUME NEW m0 \in Modules, PoolsSound(m0), NEW c \in Commits, PoolsDiffer(c), OldFormat(c),
         NEW sender
  PROVE  LET n == ProcessCommit(m0, c, sender, FALSE).m
         IN  \/ n = [m0 EXCEPT !.invalid = m0.invalid \cup {c.id}]
             \/ /\ ParentOk(m0, c)
                /\ n.ids = m0.ids \cup {c.id} /\ n.chain = m0.chain \cup {c.parent}
<1> DEFINE inv == m0.invalid \cup {c.id}
           m == [m0 EXCEPT !.invalid = inv]
           e == [enabled |-> FALSE, known |-> Ticks]
           d == [enabled |-> FALSE, known |-> PickedTicks(c, FALSE)]
           v == ProcessCommitVerify(m, c, e)
           w == ProcessCommitVerify(m, c, d)
           n == ProcessCommit(m0, c, sender, FALSE).m
<1>1. n = m \/ (w.st = "ok" /\ n = Chained(v, c).m)  BY DEF ProcessCommit, Err, VerifiedOnCopy
<1>2. /\ m \in Modules /\ PoolsSound(m) /\ m.ids = m0.ids /\ m.chain = m0.chain
  <2>1. inv \in SUBSET CommitIds /\ c.id \in CommitIds  BY DEF Modules, CommitIds
  <2>2. /\ m0.ids \in SUBSET CommitIds /\ m0.chain \in SUBSET {b.parent : b \in Commits}
        /\ m = [m0 EXCEPT !.ids = m0.ids, !.chain = m0.chain, !.invalid = inv]
    BY DEF Modules
  <2>3. m.ids = m0.ids /\ m.chain = m0.chain  BY DEF Modules
  <2> HIDE DEF m, inv
  <2> QED BY <2>1, <2>2, <2>3, ChainChanged
<1> HIDE DEF m
<1>3. w = v
  <2>1. \A k \in 1..Len(c.data) : ReadAlike(c.data[k], d, e)
    <3>1. \A k \in 1..Len(c.data) : Pair(c.data[k]) \subseteq PickedTicks(c, FALSE)  BY PickedAll
    <3>2. \A k \in 1..Len(c.data) : Pair(c.data[k]) \subseteq Ticks
      <4> TAKE k \in 1..Len(c.data)
      <4>1. c.data[k] \in SwapFunctions  BY CommitsAssumption
      <4> QED BY <4>1 DEF SwapFunctions, Pair
    <3> QED BY <3>1, <3>2 DEF ReadAlike
  <2>2. d.enabled = e.enabled  OBVIOUS
  <2> HIDE DEF d, e
  <2> QED BY <2>1, <2>2, SameCommit
<1>4. CASE n = m  BY <1>4 DEF m
<1>5. CASE w.st = "ok" /\ n = Chained(v, c).m
  <2>1. v.st = "ok"  BY <1>3, <1>5
  <2>2. ParentOk(m, c) /\ v = Run(m, c, e)[Len(c.data)]  BY <2>1 DEF ProcessCommitVerify, Err
  <2>3. e.known = Ticks  OBVIOUS
  <2> HIDE DEF e
  <2>4. RanOn(m, c, v.m)  BY <1>2, <2>2, <2>3, CommitRan
  <2>5. v.m \in Modules /\ v.m.ids = m.ids /\ v.m.chain = m.chain
    BY <2>4 DEF RanOn, KeepsRest, KeepsChain
  <2> HIDE DEF v
  <2>6. n = [v.m EXCEPT !.ids = @ \cup {c.id}, !.chain = @ \cup {c.parent}, !.invalid = @ \ {c.id}]
    BY <1>5, <2>1 DEF Chained, Ok
  <2>7. n.ids = v.m.ids \cup {c.id} /\ n.chain = v.m.chain \cup {c.parent}
    BY <2>5, <2>6 DEF Modules
  <2>8. ParentOk(m0, c)  BY <1>2, <2>2 DEF ParentOk
  <2> QED BY <1>2, <2>5, <2>7, <2>8
<1> QED BY <1>1, <1>4, <1>5

\* It keeps the chain.
LEMMA ChainStays ==
  ASSUME NEW x, NEW y, NEW m, NEW n, ChainOk(x, m), CommitsStay(x, y), n.ids = m.ids, n.chain = m.chain
  PROVE  ChainOk(y, n)
<1>1. ASSUME NEW i \in DOMAIN y, y[i].kind = "commit"
      PROVE  /\ y[i].valid => OldFormat(CommitOf(y[i].c))
             /\ y[i].moves = 0 => y[i].c \notin n.ids
             /\ \A j \in DOMAIN y : y[j].kind = "commit" /\ y[j].c = y[i].c => j = i
  <2>1. i \in DOMAIN x /\ x[i].kind = "commit"  BY <1>1 DEF CommitsStay
  <2>2. /\ x[i].valid => OldFormat(CommitOf(x[i].c))
        /\ x[i].moves = 0 => x[i].c \notin m.ids
        /\ \A j \in DOMAIN x : x[j].kind = "commit" /\ x[j].c = x[i].c => j = i
    BY <2>1 DEF ChainOk
  <2> QED BY <2>1, <2>2 DEF CommitsStay
<1>2. \A d \in n.ids : \E i \in DOMAIN y : y[i].kind = "commit" /\ y[i].c = d
  BY DEF ChainOk, CommitsStay
<1>3. /\ n.chain \subseteq n.ids \cup {NoParent}
      /\ n.ids # {} => \E h \in n.ids : n.ids \ n.chain = {h}
  BY DEF ChainOk
<1> QED BY <1>1, <1>2, <1>3 DEF ChainOk

\* A new inscription that is no commit.
LEMMA OtherInscribed ==
  ASSUME Inscribed(ins), NEW kind, kind # "commit", NEW u, NEW t, NEW amt, NEW valid, NEW y,
         y = Append(ins, Inscription(kind, u, t, amt, valid))
  PROVE  CommitsStay(ins, y)
<1> DEFINE z == Inscription(kind, u, t, amt, valid)
<1>1. z.kind = kind  BY DEF Inscription
<1> HIDE DEF z
<1>2. /\ ins \in Seq(Inscriptions) /\ Len(ins) \in Nat /\ DOMAIN ins = 1..Len(ins)  BY DEF Inscribed
<1>3. y = Append(ins, z)  BY DEF z
<1>4. /\ DOMAIN y = 1..(Len(ins) + 1) /\ y[Len(ins) + 1] = z
      /\ \A j \in DOMAIN ins : y[j] = ins[j]
  BY <1>2, <1>3
<1>5. \A j \in DOMAIN y : j \notin DOMAIN ins => j = Len(ins) + 1  BY <1>2, <1>4
<1>6. DOMAIN ins \subseteq DOMAIN y  BY <1>2, <1>4
<1> QED BY <1>1, <1>4, <1>5, <1>6 DEF CommitsStay

\* RestOf changes balances only.
LEMMA RestStays ==
  ASSUME NEW x, NEW y, NEW events, CommitsStay(x, y), \A j \in DOMAIN y : y[j] \in Inscriptions
  PROVE  CommitsStay(x, RestOf(y, events))
<1> DEFINE w == RestOf(y, events)
<1>1. DOMAIN w = DOMAIN y  BY DEF RestOf
<1>2. ASSUME NEW j \in DOMAIN y
      PROVE  /\ w[j].kind = y[j].kind /\ w[j].valid = y[j].valid /\ w[j].c = y[j].c
             /\ w[j].moves = y[j].moves
  <2>1. w[j] = y[j] \/ \E b : w[j] = [y[j] EXCEPT !.bal = b]  BY DEF RestOf
  <2> DEFINE z == y[j]
             v == w[j]
  <2>2. z \in Inscriptions /\ (v = z \/ \E b : v = [z EXCEPT !.bal = b])  BY <2>1
  <2> HIDE DEF z, v
  <2>3. v.kind = z.kind /\ v.valid = z.valid /\ v.c = z.c /\ v.moves = z.moves
    BY <2>2 DEF Inscriptions
  <2> QED BY <2>3 DEF z, v
<1> HIDE DEF w
<1>3. CommitsStay(x, w)  BY <1>1, <1>2 DEF CommitsStay
<1> QED BY <1>3 DEF w

\* An inscription that is no commit changes, but for its kind.
LEMMA OtherMoves ==
  ASSUME Inscribed(ins), NEW i \in DOMAIN ins, ins[i].kind # "commit", NEW z \in Inscriptions,
         z.kind = ins[i].kind, z.valid = ins[i].valid, z.c = ins[i].c,
         NEW y, y = [ins EXCEPT ![i] = z]
  PROVE  CommitsStay(ins, y) /\ \A j \in DOMAIN y : y[j] \in Inscriptions
<1>1. ins \in Seq(Inscriptions) /\ \A j \in DOMAIN ins : ins[j] \in Inscriptions  BY DEF Inscribed
<1>2. /\ DOMAIN y = DOMAIN ins /\ y[i] = z
      /\ \A j \in DOMAIN ins : j # i => y[j] = ins[j]
  BY <1>1
<1> QED BY <1>1, <1>2 DEF CommitsStay

\* Nothing happens to inscriptions and module.
LEMMA NothingQuiet ==
  ASSUME UNCHANGED <<ins, mod>>
  PROVE  Quiet
BY DEF Quiet, CommitsStay, ModuleStays, KeepsChain, PoolsStay

\* Inscriptions that are no commits touch neither chain nor pools.
LEMMA InscribeQuiet ==
  ASSUME Inscribed(ins), mod \in Modules, NEW u, NEW t, NEW amt,
         \/ InscribeTransfer(u, t, amt) \/ InscribeApprove(u, t, amt)
         \/ InscribeConditionalApprove(u, t, amt) \/ InscribeWithdraw(u, t, amt)
  PROVE  Quiet
<1>1. CASE InscribeTransfer(u, t, amt)
  <2>1. /\ ins' = Append(ins, Inscription("transfer", u, t, amt, bal[u][t] >= amt))
        /\ mod' = mod
    BY <1>1 DEF InscribeTransfer
  <2>2. CommitsStay(ins, ins')  BY <2>1, OtherInscribed
  <2> QED BY <2>1, <2>2 DEF Quiet, ModuleStays, KeepsChain, PoolsStay
<1>2. CASE InscribeApprove(u, t, amt)
  <2>1. /\ ins' = Append(ins, Inscription("approve", u, t, amt, HasAvailable(u, t, amt)))
        /\ mod' = mod \/ mod' = ApprovedFrom(u, t, amt)
    BY <1>2 DEF InscribeApprove
  <2>2. CommitsStay(ins, ins')  BY <2>1, OtherInscribed
  <2>3. ModuleStays(mod, mod')
    BY <2>1 DEF ApprovedFrom, ModuleStays, KeepsChain, PoolsStay, Modules
  <2> QED BY <2>2, <2>3 DEF Quiet
<1>3. CASE InscribeConditionalApprove(u, t, amt)
  <2>1. /\ ins' = Append(ins, Inscription("cond", u, t, amt, HasAvailable(u, t, amt)))
        /\ \/ mod' = mod
           \/ mod' = [mod EXCEPT !.avail[u][t] = @ - amt, !.cond[u][t] = @ + amt,
                                 !.newAppr[t] = @ + amt]
    BY <1>3 DEF InscribeConditionalApprove
  <2>2. CommitsStay(ins, ins')  BY <2>1, OtherInscribed
  <2>3. ModuleStays(mod, mod')  BY <2>1 DEF ModuleStays, KeepsChain, PoolsStay, Modules
  <2> QED BY <2>2, <2>3 DEF Quiet
<1>4. CASE InscribeWithdraw(u, t, amt)
  <2>1. /\ ins' = Append(ins, Inscription("withdraw", u, t, amt, TRUE))
        /\ mod' = [mod EXCEPT !.ready[u][t] = @ + amt]
    BY <1>4 DEF InscribeWithdraw
  <2>2. CommitsStay(ins, ins')  BY <2>1, OtherInscribed
  <2>3. ModuleStays(mod, mod')  BY <2>1 DEF ModuleStays, KeepsChain, PoolsStay, Modules
  <2> QED BY <2>2, <2>3 DEF Quiet
<1> QED BY <1>1, <1>2, <1>3, <1>4

\* An approval that moves.
LEMMA MoveApproveQuiet ==
  ASSUME Inscribed(ins), mod \in Modules, NEW i \in DOMAIN ins, NEW to, MoveApprove(i, to)
  PROVE  Quiet
<1> DEFINE x == ins[i]
           z == [x EXCEPT !.moves = 1, !.pending = FALSE]
<1>1. x \in Inscriptions  BY PendingFacts
<1>2. /\ x.kind = "approve" /\ ins' = [ins EXCEPT ![i] = z]
      /\ \/ mod' = mod
         \/ mod' = [mod EXCEPT !.appr[x.owner][x.tick] = @ - x.amt, !.swap[to][x.tick] = @ + x.amt]
  BY DEF MoveApprove, Moves
<1>3. z \in Inscriptions /\ z.kind = x.kind /\ z.valid = x.valid /\ z.c = x.c
  BY <1>1 DEF Inscriptions
<1> HIDE DEF z
<1>4. CommitsStay(ins, ins')  BY <1>2, <1>3, OtherMoves
<1>5. ModuleStays(mod, mod')  BY <1>2 DEF ModuleStays, KeepsChain, PoolsStay, Modules
<1> QED BY <1>4, <1>5 DEF Quiet

\* A transfer that moves.
LEMMA MoveTransferQuiet ==
  ASSUME LedgerInv, NEW i \in DOMAIN ins, NEW to \in Dests, MoveTransfer(i, to)
  PROVE  Quiet
<1> DEFINE x == ins[i]
<1>1. Typed /\ TxSound /\ MatchSound /\ ValidIsPending  BY InvNow
<1>2. Inscribed(ins) /\ ins \in Seq(Inscriptions) /\ mod \in Modules /\ to \in Users
  BY <1>1, ScriptsAssumption DEF Typed, Inscribed
<1>3. x \in Inscriptions /\ x.kind = "transfer"  BY <1>2, PendingFacts DEF MoveTransfer, Moves
<1>4. CASE ~x.valid
  <2> DEFINE z == [x EXCEPT !.moves = 1]
  <2>1. ins' = [ins EXCEPT ![i] = z] /\ mod' = mod  BY <1>4 DEF MoveTransfer
  <2>2. z \in Inscriptions /\ z.kind = x.kind /\ z.valid = x.valid /\ z.c = x.c
    BY <1>3 DEF Inscriptions
  <2> HIDE DEF z
  <2>3. CommitsStay(ins, ins')  BY <1>2, <1>3, <2>1, <2>2, OtherMoves
  <2> QED BY <2>1, <2>3 DEF Quiet, ModuleStays, KeepsChain, PoolsStay
<1>5. CASE x.valid
  <2> DEFINE z == [x EXCEPT !.moves = 1, !.pending = FALSE]
             events == Settled(i, to)
             paid == BookEvents(mod, events)
             o == x.owner
             t == x.tick
             a == x.amt
  <2>1. /\ ins' = RestOf(MovedList(i), events)
        /\ mod' = IF Deposits(i, to) THEN [paid EXCEPT !.swap[o][t] = @ + a, !.dep[t] = @ + a]
                  ELSE paid
    BY <1>5, TransferBooks
  <2>2. MovedList(i) = [ins EXCEPT ![i] = z]  BY DEF MovedList
  <2>3. z \in Inscriptions /\ z.kind = x.kind /\ z.valid = x.valid /\ z.c = x.c
    BY <1>3 DEF Inscriptions
  <2>4. Sound(events)  BY <1>1, <1>2, TransferSettles
  <2> HIDE DEF z, events
  <2>5. CommitsStay(ins, MovedList(i)) /\ \A j \in DOMAIN MovedList(i) : MovedList(i)[j] \in Inscriptions
    BY <1>2, <1>3, <2>2, <2>3, OtherMoves
  <2>6. CommitsStay(ins, ins')  BY <2>1, <2>5, RestStays
  <2>7. Booked(mod, paid, events, Len(events))  BY <1>2, <2>4, EventsAreBooked
  <2> HIDE DEF paid
  <2>8. paid \in Modules /\ KeepsPools(mod, paid) /\ KeepsChain(mod, paid)  BY <2>7 DEF Booked
  <2>9. KeepsPools(paid, mod') /\ KeepsChain(paid, mod')
    <3> HIDE DEF o, t, a
    <3> QED BY <2>1, <2>8 DEF KeepsPools, KeepsChain, Modules
  <2> QED BY <2>6, <2>8, <2>9 DEF Quiet, ModuleStays, KeepsPools, KeepsChain, PoolsStay
<1> QED BY <1>4, <1>5

\* A conditional approval that moves.
LEMMA MoveConditionalQuiet ==
  ASSUME LedgerInv, NEW i \in DOMAIN ins, NEW to \in Dests, MoveConditionalApprove(i, to)
  PROVE  Quiet
<1> DEFINE x == ins[i]
           events == Charged(i, to)
           moves == x.moves + 1
           agent == IF Appoints(i, to) THEN to ELSE x.agent
           z == [x EXCEPT !.moves = moves, !.agent = agent]
           y == AppointedList(i, to)
<1>1. Typed /\ TxSound /\ MatchSound /\ ValidIsPending  BY InvNow
<1>2. Inscribed(ins) /\ ins \in Seq(Inscriptions) /\ mod \in Modules /\ to \in Users
  BY <1>1, ScriptsAssumption DEF Typed, Inscribed
<1>3. /\ x.kind = "cond" /\ x.valid /\ ins' = RestOf(y, events)
      /\ mod' = BookEvents(mod, events)
  BY ConditionalBooks
<1>4. x \in Inscriptions /\ x.pending  BY <1>1, <1>2, <1>3, PendingFacts DEF ValidIsPending
<1>5. Sound(events)  BY <1>1, <1>2, <1>3, <1>4, ConditionalCharges
<1>6. y = [ins EXCEPT ![i] = z]  BY DEF AppointedList
<1>7. z \in Inscriptions /\ z.kind = x.kind /\ z.valid = x.valid /\ z.c = x.c
  <2>1. moves \in Nat /\ agent \in Users \cup {"none"}  BY <1>2, <1>4 DEF Inscriptions
  <2> HIDE DEF moves, agent
  <2> QED BY <1>4, <2>1 DEF Inscriptions
<1> HIDE DEF z, y, events
<1>8. CommitsStay(ins, y) /\ \A j \in DOMAIN y : y[j] \in Inscriptions
  BY <1>2, <1>3, <1>6, <1>7, OtherMoves
<1>9. CommitsStay(ins, ins')  BY <1>3, <1>8, RestStays
<1>10. Booked(mod, mod', events, Len(events))  BY <1>2, <1>3, <1>5, EventsAreBooked
<1> QED BY <1>9, <1>10 DEF Quiet, ModuleStays, Booked, KeepsPools, PoolsStay

\* A commit that is accepted is the new head.
LEMMA ChainGrows ==
  ASSUME NEW m \in Modules, NEW n, NEW c \in Commits, Continues(m, n, c),
         m.chain \subseteq m.ids \cup {NoParent},
         m.ids # {} => \E h \in m.ids : m.ids \ m.chain = {h}
  PROVE  /\ n.chain \subseteq n.ids \cup {NoParent} /\ n.ids \ n.chain = {c.id}
         /\ m.ids = {} => n.ids = {c.id} /\ n.ids \cap n.chain = {}
         /\ m.ids # {} => m.ids \ m.chain = {c.parent} /\ n.ids \cap n.chain = m.ids
<1>1. c.id # NoParent  BY CommitsAssumption
<1>2. NoParent \notin m.ids
  <2>1. m.ids \subseteq CommitIds  BY DEF Modules
  <2> QED BY <2>1, CommitsAssumption DEF CommitIds
<1>3. c.id \notin m.chain  BY <1>1 DEF Continues
<1>4. CASE c.parent = NoParent
  <2>1. m.ids = {} /\ n.ids = {c.id} /\ n.chain \subseteq {NoParent}
    BY <1>4 DEF Continues, ParentOk
  <2> QED BY <1>1, <2>1
<1>5. CASE c.parent # NoParent
  <2>1. c.parent \in m.ids /\ c.parent \notin m.chain  BY <1>5 DEF Continues, ParentOk
  <2>2. m.ids # {} /\ m.ids \ m.chain = {c.parent}  BY <2>1
  <2>3. c.parent # c.id  BY <2>1 DEF Continues
  <2>4. n.ids = m.ids \cup {c.id} /\ n.chain = m.chain \cup {c.parent}  BY DEF Continues
  <2> QED BY <1>3, <2>1, <2>2, <2>3, <2>4
<1> QED BY <1>4, <1>5

\* A commit is inscribed.
LEMMA InscribeCommitChains ==
  ASSUME LedgerInv, ChainInv, NEW c \in Commits, NEW u, InscribeCommit(c, u)
  PROVE  ChainOk(ins', mod') /\ Rejects(mod, mod')
<1> DEFINE ok == u = Sequencer /\ PreVerified(c, enabled, deployed)
           y == Inscription("commit", u, GasTick, 0, ok)
           z == [y EXCEPT !.c = c.id]
           n == Len(ins) + 1
<1>1. ins \in Seq(Inscriptions) /\ mod \in Modules /\ enabled = FALSE /\ ChainOk(ins, mod)
  BY DEF LedgerInv, Typed, ChainInv
<1>2. /\ ins' = Append(ins, z) /\ mod' = [mod EXCEPT !.invalid = IF ok THEN @ ELSE @ \cup {c.id}]
      /\ \A i \in DOMAIN ins : ins[i].c # c.id
  BY DEF InscribeCommit
<1>3. z.kind = "commit" /\ z.c = c.id /\ z.valid = ok  BY DEF Inscription
<1>4. ok => OldFormat(c)
  <2> SUFFICES ASSUME PreVerified(c, enabled, deployed) PROVE OldFormat(c)  OBVIOUS
  <2>1. DOMAIN c.data = 1..Len(c.data)  BY CommitsAssumption
  <2> QED BY <1>1, <2>1 DEF PreVerified, PreVerifiedFunction, OldFormat
<1>5. CommitOf(c.id) = c  BY CommitFound
<1> HIDE DEF ok, z
<1>6. /\ DOMAIN ins = 1..Len(ins) /\ Len(ins) \in Nat
      /\ DOMAIN ins' = DOMAIN ins \cup {n} /\ n \notin DOMAIN ins /\ ins'[n] = z
      /\ \A j \in DOMAIN ins : ins'[j] = ins[j]
  BY <1>1, <1>2
<1> HIDE DEF n
<1>7. mod'.ids = mod.ids /\ mod'.chain = mod.chain  BY <1>1, <1>2 DEF Modules
<1>8. c.id \notin mod.ids  BY <1>1, <1>2 DEF ChainOk
<1>9. ASSUME NEW i \in DOMAIN ins', ins'[i].kind = "commit"
      PROVE  /\ ins'[i].valid => OldFormat(CommitOf(ins'[i].c))
             /\ ins'[i].moves = 0 => ins'[i].c \notin mod'.ids
             /\ \A j \in DOMAIN ins' : ins'[j].kind = "commit" /\ ins'[j].c = ins'[i].c => j = i
  <2>1. CASE i = n  BY <1>2, <1>3, <1>4, <1>5, <1>6, <1>7, <1>8, <2>1
  <2>2. CASE i \in DOMAIN ins
    <3>1. /\ ins[i].valid => OldFormat(CommitOf(ins[i].c))
          /\ ins[i].moves = 0 => ins[i].c \notin mod.ids
          /\ \A j \in DOMAIN ins : ins[j].kind = "commit" /\ ins[j].c = ins[i].c => j = i
      BY <1>1, <1>6, <1>9, <2>2 DEF ChainOk
    <3> QED BY <1>2, <1>3, <1>6, <1>7, <2>2, <3>1
  <2> QED BY <1>6, <2>1, <2>2
<1>10. \A d \in mod'.ids : \E i \in DOMAIN ins' : ins'[i].kind = "commit" /\ ins'[i].c = d
  BY <1>1, <1>6, <1>7 DEF ChainOk
<1>11. /\ mod'.chain \subseteq mod'.ids \cup {NoParent}
       /\ mod'.ids # {} => \E h \in mod'.ids : mod'.ids \ mod'.chain = {h}
  BY <1>1, <1>7 DEF ChainOk
<1>12. ChainOk(ins', mod')  BY <1>9, <1>10, <1>11 DEF ChainOk
<1>13. Rejects(mod, mod')  BY <1>2 DEF Rejects
<1> QED BY <1>12, <1>13

\* A commit moves.
LEMMA MoveCommitChains ==
  ASSUME LedgerInv, ChainInv, NEW i \in DOMAIN ins, NEW to, MoveCommit(i, to)
  PROVE  ChainOk(ins', mod') /\ (mod' = mod \/ Rejects(mod, mod') \/ Accepts(mod, mod'))
<1> DEFINE x == ins[i]
           c == CommitOf(x.c)
           n == ProcessCommit(mod, c, x.owner, enabled).m
           z == [x EXCEPT !.moves = 1]
<1>1. /\ Inscribed(ins) /\ ins \in Seq(Inscriptions) /\ mod \in Modules /\ enabled = FALSE
      /\ ChainOk(ins, mod) /\ ValidCommits /\ PoolsSound(mod)
  BY DEF LedgerInv, Typed, Inscribed, ChainInv
<1>2. /\ x.kind = "commit" /\ x.valid /\ x.moves = 0 /\ ins' = [ins EXCEPT ![i] = z]
      /\ mod' = mod \/ mod' = n
  BY DEF MoveCommit, Moves
<1>3. x \in Inscriptions  BY <1>1, PendingFacts
<1>4. z.kind = "commit" /\ z.valid = x.valid /\ z.c = x.c /\ z.moves = 1
  BY <1>2, <1>3 DEF Inscriptions
<1>5. c \in Commits /\ PoolsDiffer(c) /\ c.id = x.c
  <2>1. x.c \in CommitIds /\ PoolsDiffer(c)  BY <1>1, <1>2 DEF ValidCommits
  <2>2. PICK d \in Commits : x.c = d.id  BY <2>1 DEF CommitIds
  <2> QED BY <2>1, <2>2, CommitFound
<1>6. OldFormat(c) /\ c.id \notin mod.ids  BY <1>1, <1>2, <1>5 DEF ChainOk
<1> HIDE DEF c
<1>7. \/ n = [mod EXCEPT !.invalid = mod.invalid \cup {c.id}]
      \/ /\ ParentOk(mod, c)
         /\ n.ids = mod.ids \cup {c.id} /\ n.chain = mod.chain \cup {c.parent}
  BY <1>1, <1>5, <1>6, CommitDecided
<1> HIDE DEF n, z
<1>8. /\ DOMAIN ins' = DOMAIN ins /\ ins'[i] = z
      /\ \A j \in DOMAIN ins : j # i => ins'[j] = ins[j]
  BY <1>1, <1>2
<1>9. mod' = mod \/ Rejects(mod, mod') \/ Continues(mod, mod', c)
  BY <1>2, <1>6, <1>7 DEF Rejects, Continues
<1>10. /\ mod'.ids \subseteq mod.ids \cup {c.id} /\ mod.ids \subseteq mod'.ids
       /\ mod'.chain \subseteq mod'.ids \cup {NoParent}
       /\ mod'.ids # {} => \E h \in mod'.ids : mod'.ids \ mod'.chain = {h}
  <2>1. /\ mod.chain \subseteq mod.ids \cup {NoParent}
        /\ mod.ids # {} => \E h \in mod.ids : mod.ids \ mod.chain = {h}
    BY <1>1 DEF ChainOk
  <2>2. CASE mod' = mod  BY <2>1, <2>2
  <2>3. CASE Rejects(mod, mod')
    <3>1. mod'.ids = mod.ids /\ mod'.chain = mod.chain  BY <1>1, <2>3 DEF Rejects, Modules
    <3> QED BY <2>1, <3>1
  <2>4. CASE Continues(mod, mod', c)
    <3>1. mod'.chain \subseteq mod'.ids \cup {NoParent} /\ mod'.ids \ mod'.chain = {c.id}
      BY <1>1, <1>5, <2>1, <2>4, ChainGrows
    <3>2. mod'.ids = mod.ids \cup {c.id}  BY <2>4 DEF Continues
    <3> QED BY <3>1, <3>2
  <2> QED BY <1>9, <2>2, <2>3, <2>4
<1>11. ASSUME NEW k \in DOMAIN ins', ins'[k].kind = "commit"
       PROVE  /\ ins'[k].valid => OldFormat(CommitOf(ins'[k].c))
              /\ ins'[k].moves = 0 => ins'[k].c \notin mod'.ids
              /\ \A j \in DOMAIN ins' : ins'[j].kind = "commit" /\ ins'[j].c = ins'[k].c => j = k
  <2>1. /\ \A j \in DOMAIN ins : ins'[j].kind = ins[j].kind /\ ins'[j].valid = ins[j].valid
                                 /\ ins'[j].c = ins[j].c
        /\ k # i => ins'[k].moves = ins[k].moves
    BY <1>2, <1>4, <1>8
  <2>2. /\ ins[k].valid => OldFormat(CommitOf(ins[k].c))
        /\ ins[k].moves = 0 => ins[k].c \notin mod.ids
        /\ \A j \in DOMAIN ins : ins[j].kind = "commit" /\ ins[j].c = ins[k].c => j = k
    BY <1>1, <1>8, <1>11, <2>1 DEF ChainOk
  <2>3. ins'[k].moves = 0 => ins'[k].c \notin mod'.ids
    <3>1. CASE k = i  BY <1>4, <1>8, <3>1
    <3>2. CASE k # i
      <4>1. ins[k].c # c.id  BY <1>2, <1>5, <1>8, <2>2, <3>2
      <4> QED BY <1>8, <1>10, <2>1, <2>2, <3>2, <4>1
    <3> QED BY <3>1, <3>2
  <2> QED BY <1>8, <2>1, <2>2, <2>3
<1>12. \A d \in mod'.ids : \E k \in DOMAIN ins' : ins'[k].kind = "commit" /\ ins'[k].c = d
  <2> SUFFICES ASSUME NEW d \in mod'.ids
               PROVE  \E k \in DOMAIN ins' : ins'[k].kind = "commit" /\ ins'[k].c = d
    OBVIOUS
  <2>1. \A j \in DOMAIN ins : ins'[j].kind = ins[j].kind /\ ins'[j].c = ins[j].c
    BY <1>2, <1>4, <1>8
  <2>2. CASE d = c.id  BY <1>2, <1>5, <1>8, <2>1, <2>2
  <2>3. CASE d \in mod.ids  BY <1>1, <1>8, <2>1, <2>3 DEF ChainOk
  <2> QED BY <1>10, <2>2, <2>3
<1>13. ChainOk(ins', mod')  BY <1>10, <1>11, <1>12 DEF ChainOk
<1> QED BY <1>5, <1>9, <1>13 DEF Accepts

\* Below the height every step keeps the chain, and pools and commits of the
\* module change only when a commit is rejected or accepted.
LEMMA NextKeepsChain ==
  ASSUME HeightPasses = FALSE, LedgerInv, ChainInv, [Next]_vars
  PROVE  /\ ChainInv'
         /\ ModuleStays(mod, mod') \/ Rejects(mod, mod') \/ Accepts(mod, mod')
<1>1. Inscribed(ins) /\ mod \in Modules /\ enabled = FALSE /\ ChainOk(ins, mod)
  BY DEF LedgerInv, Typed, Inscribed, ChainInv
<1>2. ASSUME Quiet PROVE ChainOk(ins', mod') /\ ModuleStays(mod, mod')
  <2>1. CommitsStay(ins, ins') /\ mod'.ids = mod.ids /\ mod'.chain = mod.chain
    BY <1>2 DEF Quiet, ModuleStays, KeepsChain
  <2> QED BY <1>1, <1>2, <2>1, ChainStays DEF Quiet
<1>3. ASSUME enabled' = FALSE, ChainOk(ins', mod') PROVE ChainInv'
  BY <1>3 DEF ChainInv, ChainOk, OldFormat, CommitOf
<1>4. ASSUME NEW t \in Ticks, NEW u \in Inscribers, Deploy(t, u)
      PROVE  Quiet /\ enabled' = FALSE
  BY <1>1, <1>4, NothingQuiet DEF Deploy
<1>5. ASSUME NEW t \in Ticks, NEW u \in Inscribers, NEW a \in Amounts, Mint(t, u, a)
      PROVE  Quiet /\ enabled' = FALSE
  BY <1>1, <1>5, NothingQuiet DEF Mint
<1>6. CASE CreateModule
  <2>1. Quiet /\ enabled' = FALSE  BY <1>1, <1>6, NothingQuiet DEF CreateModule
  <2> QED BY <1>2, <1>3, <2>1
<1>7. ASSUME NEW i \in DOMAIN ins, MoveWithdraw(i)
      PROVE  Quiet /\ enabled' = FALSE
  BY <1>1, <1>7, NothingQuiet DEF MoveWithdraw
<1>8. CASE NextTx
  <2>1. Quiet /\ enabled' = FALSE  BY <1>1, <1>8, NothingQuiet DEF NextTx
  <2> QED BY <1>2, <1>3, <2>1
<1>9. CASE EndBlock
  <2>1. UNCHANGED <<ins, mod>> /\ enabled' = FALSE  BY <1>1, <1>9 DEF EndBlock
  <2> QED BY <1>2, <1>3, <2>1, NothingQuiet
<1>10. CASE UNCHANGED vars
  <2>1. UNCHANGED <<ins, mod>> /\ enabled' = FALSE  BY <1>1, <1>10 DEF vars
  <2> QED BY <1>2, <1>3, <2>1, NothingQuiet
<1>11. ASSUME NEW t \in Ticks, NEW u \in Inscribers, NEW a \in Amounts,
              \/ InscribeTransfer(u, t, a) \/ InscribeApprove(u, t, a)
              \/ InscribeConditionalApprove(u, t, a) \/ InscribeWithdraw(u, t, a)
       PROVE  Quiet /\ enabled' = FALSE
  <2>1. enabled' = enabled
    BY <1>11 DEF InscribeTransfer, InscribeApprove, InscribeConditionalApprove, InscribeWithdraw
  <2> QED BY <1>1, <1>11, <2>1, InscribeQuiet
<1>12. ASSUME NEW i \in DOMAIN ins, NEW to \in Dests,
              MoveTransfer(i, to) \/ MoveApprove(i, to) \/ MoveConditionalApprove(i, to)
       PROVE  Quiet /\ enabled' = FALSE
  <2>1. enabled' = enabled  BY <1>12 DEF MoveTransfer, MoveApprove, MoveConditionalApprove
  <2> QED BY <1>1, <1>12, <2>1, MoveTransferQuiet, MoveApproveQuiet, MoveConditionalQuiet
<1>13. ASSUME NEW c \in Commits, NEW u \in Inscribers, InscribeCommit(c, u)
       PROVE  ChainInv' /\ Rejects(mod, mod')
  <2>1. enabled' = FALSE  BY <1>1, <1>13 DEF InscribeCommit
  <2> QED BY <1>3, <1>13, <2>1, InscribeCommitChains
<1>14. ASSUME NEW i \in DOMAIN ins, NEW to \in Dests, MoveCommit(i, to)
       PROVE  /\ ChainInv'
              /\ ModuleStays(mod, mod') \/ Rejects(mod, mod') \/ Accepts(mod, mod')
  <2>1. enabled' = FALSE  BY <1>1, <1>14 DEF MoveCommit
  <2>2. ChainOk(ins', mod') /\ (mod' = mod \/ Rejects(mod, mod') \/ Accepts(mod, mod'))
    BY <1>14, MoveCommitChains
  <2>3. mod' = mod => ModuleStays(mod, mod')  BY DEF ModuleStays, KeepsChain, PoolsStay
  <2> QED BY <1>3, <2>1, <2>2, <2>3
<1> QED
  BY <1>2, <1>3, <1>4, <1>5, <1>6, <1>7, <1>8, <1>9, <1>10, <1>11, <1>12, <1>13, <1>14 DEF Next

\* At first there is no commit.
LEMMA InitChain ==
  ASSUME Init
  PROVE  ChainInv /\ PoolState(mod) = PoolState(NewModule) /\ mod.ids = {}
<1>1. PICK st \in Starts : ins = << >> /\ mod = StartModule(st)  BY InitFacts
<1>2. enabled = FALSE  BY DEF Init
<1> DEFINE n == NewModule
           owed == [t \in Ticks |->
                      SumFunctionOnSet([u \in Users |-> st.avail[u][t] + st.swap[u][t]], Users)]
<1>3. n.ids = {} /\ n.chain = {}  BY DEF NewModule
<1>4. mod = [n EXCEPT !.avail = st.avail, !.swap = st.swap, !.dep = owed]  BY <1>1 DEF StartModule
<1>5. DOMAIN ins = {}  BY <1>1
<1> HIDE DEF n, owed
<1>6. mod.ids = n.ids /\ mod.chain = n.chain /\ PoolState(mod) = PoolState(n)  BY <1>4 DEF PoolState
<1>7. ChainOk(ins, mod)  BY <1>3, <1>5, <1>6 DEF ChainOk
<1> QED BY <1>2, <1>3, <1>6, <1>7 DEF ChainInv, n

\* The chain invariant always holds below the height.
THEOREM SpecChainInv == HeightPasses = FALSE => (Spec => [](LedgerInv /\ ChainInv))
<1> SUFFICES ASSUME HeightPasses = FALSE PROVE Spec => [](LedgerInv /\ ChainInv)
  OBVIOUS
<1>1. Init => ChainInv  BY InitChain
<1>2. LedgerInv /\ ChainInv /\ [Next]_vars => ChainInv'  BY NextKeepsChain
<1> QED BY <1>1, <1>2, SpecLedgerInv, PTL DEF Spec

\* What was overwritten does not matter.
LEMMA OverwrittenTwice ==
  ASSUME NEW f, NEW g, NEW a, NEW x, g = [f EXCEPT ![a] = x]
  PROVE  \A y : [g EXCEPT ![a] = y] = [f EXCEPT ![a] = y]
OBVIOUS

\* Commits are atomic: below the height a commit that is not accepted leaves no
\* trace but its id in CommitInvalidMap, for the rehearsal on the copy has the
\* result of the execution.
THEOREM SpecCommitIsAtomic == HeightPasses = FALSE => (Spec => CommitIsAtomic)
<1> SUFFICES ASSUME HeightPasses = FALSE PROVE Spec => CommitIsAtomic  OBVIOUS
<1> DEFINE A == mod'.invalid # mod.invalid /\ mod'.ids = mod.ids
                  => [mod' EXCEPT !.invalid = {}] = [mod EXCEPT !.invalid = {}]
<1>1. LedgerInv /\ ChainInv /\ [Next]_vars => [A]_vars
  <2> SUFFICES ASSUME LedgerInv, ChainInv, [Next]_vars, mod'.invalid # mod.invalid, mod'.ids = mod.ids
               PROVE  [mod' EXCEPT !.invalid = {}] = [mod EXCEPT !.invalid = {}]
    OBVIOUS
  <2>1. ModuleStays(mod, mod') \/ Rejects(mod, mod') \/ Accepts(mod, mod')  BY NextKeepsChain
  <2>2. ~ModuleStays(mod, mod')  BY DEF ModuleStays, KeepsChain
  <2>3. ~Accepts(mod, mod')  BY DEF Accepts, Continues
  <2>4. PICK i : mod' = [mod EXCEPT !.invalid = i]  BY <2>1, <2>2, <2>3 DEF Rejects
  <2> QED BY <2>4, OverwrittenTwice
<1>2. CommitIsAtomic <=> [][A]_vars  BY PTL DEF CommitIsAtomic
<1> QED BY <1>1, <1>2, SpecChainInv, PTL DEF Spec

\* The head is the one commit that nobody continued.
LEMMA HeadIs ==
  ASSUME NEW m, NEW h, h \in m.ids, m.ids \ m.chain = {h}
  PROVE  HeadOf(m) = h
<1>1. Cardinality({h}) = 1  BY FS_Singleton
<1> QED BY <1>1 DEF HeadOf

\* A step of the module is a step of the abstract chain or leaves it alone.
LEMMA StepRefines ==
  ASSUME NEW m \in Modules, NEW n, NEW x, ChainOk(x, m),
         ModuleStays(m, n) \/ Rejects(m, n) \/ Accepts(m, n)
  PROVE  \/ HeadOf(n) = HeadOf(m) /\ SettledOf(n) = SettledOf(m) /\ PoolState(n) = PoolState(m)
         \/ \E id \in CommitIds :
              /\ id \notin SettledOf(m) \cup {HeadOf(m)}
              /\ SettledOf(n) = SettledOf(m) \cup ({HeadOf(m)} \ {NoParent})
              /\ HeadOf(n) = id
<1>1. CASE ModuleStays(m, n)
  BY <1>1 DEF ModuleStays, KeepsChain, PoolsStay, HeadOf, SettledOf, PoolState
<1>2. CASE Rejects(m, n)
  <2>1. n.ids = m.ids /\ n.chain = m.chain /\ PoolState(n) = PoolState(m)
    BY <1>2 DEF Rejects, PoolState, Modules
  <2> QED BY <2>1 DEF HeadOf, SettledOf
<1>3. CASE Accepts(m, n)
  <2>1. PICK c \in Commits : Continues(m, n, c)  BY <1>3 DEF Accepts
  <2>2. /\ m.chain \subseteq m.ids \cup {NoParent}
        /\ m.ids # {} => \E h \in m.ids : m.ids \ m.chain = {h}
    BY DEF ChainOk
  <2>3. /\ n.ids \ n.chain = {c.id}
        /\ m.ids = {} => n.ids = {c.id} /\ n.ids \cap n.chain = {}
        /\ m.ids # {} => m.ids \ m.chain = {c.parent} /\ n.ids \cap n.chain = m.ids
    BY <2>1, <2>2, ChainGrows
  <2>4. c.id \in CommitIds /\ c.id # NoParent /\ c.id \notin m.ids /\ c.id \in n.ids
    BY <2>1, CommitsAssumption DEF CommitIds, Continues
  <2>5. HeadOf(n) = c.id  BY <2>3, <2>4, HeadIs
  <2>6. CASE m.ids = {}
    <3>1. HeadOf(m) = NoParent /\ SettledOf(m) = {} /\ SettledOf(n) = {}
      BY <2>3, <2>6 DEF HeadOf, SettledOf
    <3> QED BY <2>4, <2>5, <3>1
  <2>7. CASE m.ids # {}
    <3>1. c.parent \in m.ids /\ m.ids \ m.chain = {c.parent} /\ SettledOf(n) = m.ids
      BY <2>3, <2>7 DEF SettledOf
    <3>2. HeadOf(m) = c.parent  BY <3>1, HeadIs
    <3>3. c.parent # NoParent
      <4>1. m.ids \subseteq CommitIds  BY DEF Modules
      <4> QED BY <3>1, <4>1, CommitsAssumption DEF CommitIds
    <3>4. m.ids = SettledOf(m) \cup {c.parent}  BY <3>1 DEF SettledOf
    <3> QED BY <2>4, <2>5, <3>1, <3>2, <3>3, <3>4
  <2> QED BY <2>6, <2>7
<1> QED BY <1>1, <1>2, <1>3

\* The commits of the module implement the abstract chain (bp02-module-swap):
\* below the height ProcessCommit accepts only the continuation of the one
\* head, and pools change with accepted commits only.
THEOREM SpecCommitsFormOneChain == HeightPasses = FALSE => (Spec => CommitsFormOneChain)
<1> SUFFICES ASSUME HeightPasses = FALSE PROVE Spec => CommitsFormOneChain  OBVIOUS
<1>1. Head1 = HeadOf(mod) /\ Head1' = HeadOf(mod')  BY DEF Head1, HeadOf
<1>2. Init => Log!Init
  <2> SUFFICES ASSUME Init PROVE Log!Init  OBVIOUS
  <2>1. PoolState(mod) = PoolState(NewModule) /\ mod.ids = {}  BY InitChain
  <2>2. Head1 = NoParent /\ mod.ids \cap mod.chain = {}  BY <2>1 DEF Head1
  <2> QED BY <2>1, <2>2 DEF Log!Init
<1>3. LedgerInv /\ ChainInv /\ [Next]_vars => [Log!Next]_Log!vars
  <2> SUFFICES ASSUME LedgerInv, ChainInv, [Next]_vars PROVE [Log!Next]_Log!vars  OBVIOUS
  <2>1. ModuleStays(mod, mod') \/ Rejects(mod, mod') \/ Accepts(mod, mod')  BY NextKeepsChain
  <2>2. mod \in Modules /\ ChainOk(ins, mod)  BY DEF LedgerInv, Typed, ChainInv
  <2>3. \/ /\ HeadOf(mod') = HeadOf(mod) /\ SettledOf(mod') = SettledOf(mod)
           /\ PoolState(mod') = PoolState(mod)
        \/ \E id \in CommitIds :
             /\ id \notin SettledOf(mod) \cup {HeadOf(mod)}
             /\ SettledOf(mod') = SettledOf(mod) \cup ({HeadOf(mod)} \ {NoParent})
             /\ HeadOf(mod') = id
    BY <2>1, <2>2, StepRefines
  <2>4. /\ (mod.ids \cap mod.chain) = SettledOf(mod) /\ (mod.ids \cap mod.chain)' = SettledOf(mod')
        /\ PoolState(mod)' = PoolState(mod')
    BY DEF SettledOf, PoolState
  <2>5. CASE /\ HeadOf(mod') = HeadOf(mod) /\ SettledOf(mod') = SettledOf(mod)
             /\ PoolState(mod') = PoolState(mod)
    BY <1>1, <2>4, <2>5 DEF Log!vars
  <2>6. CASE \E id \in CommitIds :
               /\ id \notin SettledOf(mod) \cup {HeadOf(mod)}
               /\ SettledOf(mod') = SettledOf(mod) \cup ({HeadOf(mod)} \ {NoParent})
               /\ HeadOf(mod') = id
    <3>1. \E id \in CommitIds :
             /\ id \notin (mod.ids \cap mod.chain) \cup {Head1}
             /\ (mod.ids \cap mod.chain)' = (mod.ids \cap mod.chain) \cup ({Head1} \ {NoParent})
             /\ Head1' = id
      BY <1>1, <2>4, <2>6
    <3> QED BY <3>1 DEF Log!Next, Log!Accept, CommitIds
  <2> QED BY <2>3, <2>5, <2>6
<1>4. CommitsFormOneChain <=> Log!Init /\ [][Log!Next]_Log!vars
  BY DEF CommitsFormOneChain, Log!Spec
<1> QED BY <1>2, <1>3, <1>4, SpecChainInv, PTL DEF Spec

-----------------------------------------------------------------------------
\* The verification service.  A commit that passes its rehearsal on a
\* module passes it on every module that has the same pools and the same
\* chain and owes no user less.

\* Every module has them.
LEMMA ModuleHasFields ==
  ASSUME NEW m \in Modules
  PROVE  HasFields(m)
BY DEF Modules, HasFields

\* A trade of the same amounts keeps the richer module richer.
LEMMA TradeRicher ==
  ASSUME NEW m, NEW n, NEW gap, Ahead(m, n, gap), NEW u \in Users, NEW p, NEW t0 \in Ticks, NEW x0 \in Int,
         NEW t1 \in Ticks, NEW x1 \in Int, NEW s0
  PROVE  Ahead(Trade(m, u, p, t0, x0, t1, x1, s0), Trade(n, u, p, t0, x0, t1, x1, s0), gap)
<1> DEFINE a == [m.swap EXCEPT ![u][t0] = @ - x0, ![u][t1] = @ - x1]
           b == [n.swap EXCEPT ![u][t0] = @ - x0, ![u][t1] = @ - x1]
           r == [m.res EXCEPT ![p][s0] = @ + x0, ![p][Other(p, s0)] = @ + x1]
           m1 == Trade(m, u, p, t0, x0, t1, x1, s0)
           n1 == Trade(n, u, p, t0, x0, t1, x1, s0)
<1>1. m1 = [m EXCEPT !.swap = a, !.res = r] /\ n1 = [n EXCEPT !.swap = b, !.res = r]
  BY DEF Trade, Ahead, KeepsPools
<1>2. a \in Balances /\ b \in Balances
  <2>1. ASSUME NEW f \in Balances
        PROVE  [f EXCEPT ![u][t0] = @ - x0, ![u][t1] = @ - x1] \in Balances
    BY <2>1 DEF Balances
  <2>2. m.swap \in Balances /\ n.swap \in Balances  BY DEF Ahead
  <2> QED BY <2>1, <2>2
<1>3. \A v \in Users, t \in Ticks : b[v][t] = a[v][t] + gap[v][t]  BY DEF Ahead, Balances
<1> HIDE DEF a, b, r, m1, n1
<1>4. HasFields(m1) /\ HasFields(n1) /\ m1.swap = a /\ n1.swap = b  BY <1>1 DEF Ahead, HasFields
<1>5. KeepsPools(m1, n1) /\ n1.ids = m1.ids /\ n1.chain = m1.chain
  BY <1>1 DEF Ahead, HasFields, KeepsPools
<1> QED BY <1>2, <1>3, <1>4, <1>5 DEF Ahead, m1, n1

\* So does a transfer of the same amount.
LEMMA MoveSwapRicher ==
  ASSUME NEW m, NEW n, NEW gap, Ahead(m, n, gap), NEW from \in Users, NEW to \in Users, NEW t \in Ticks,
         NEW amt \in Int
  PROVE  Ahead(MoveSwap(m, from, to, t, amt), MoveSwap(n, from, to, t, amt), gap)
<1> DEFINE a == [m.swap EXCEPT ![from][t] = @ - amt]
           b == [n.swap EXCEPT ![from][t] = @ - amt]
           c == [a EXCEPT ![to][t] = @ + amt]
           d == [b EXCEPT ![to][t] = @ + amt]
           m1 == MoveSwap(m, from, to, t, amt)
           n1 == MoveSwap(n, from, to, t, amt)
<1>1. m1 = [m EXCEPT !.swap = c] /\ n1 = [n EXCEPT !.swap = d]  BY DEF MoveSwap
<1>2. a \in Balances /\ b \in Balances  BY DEF Ahead, Balances
<1>3. \A v \in Users, s \in Ticks : b[v][s] = a[v][s] + gap[v][s]  BY DEF Ahead, Balances
<1> HIDE DEF a, b, m1, n1
<1>4. c \in Balances /\ d \in Balances  BY <1>2 DEF Balances
<1>5. \A v \in Users, s \in Ticks : d[v][s] = c[v][s] + gap[v][s]  BY <1>2, <1>3 DEF Ahead, Balances
<1> HIDE DEF c, d
<1>6. HasFields(m1) /\ HasFields(n1) /\ m1.swap = c /\ n1.swap = d  BY <1>1 DEF Ahead, HasFields
<1>7. KeepsPools(m1, n1) /\ n1.ids = m1.ids /\ n1.chain = m1.chain
  BY <1>1 DEF Ahead, HasFields, KeepsPools
<1> QED BY <1>4, <1>5, <1>6, <1>7 DEF Ahead, m1, n1

\* LP that is credited depends on the pools only.
LEMMA CreditLpRicher ==
  ASSUME NEW m, NEW n, NEW gap, Ahead(m, n, gap), NEW p, NEW u, NEW amt
  PROVE  Ahead(CreditLp(m, p, u, amt), CreditLp(n, p, u, amt), gap)
<1> DEFINE x == m.lpOfPool[p][u] + amt
           a == [m.lpOfPool EXCEPT ![p][u] = x]
           b == [m.lpOfUser EXCEPT ![u][p] = x]
           m1 == CreditLp(m, p, u, amt)
           n1 == CreditLp(n, p, u, amt)
<1>1. /\ m1 = [m EXCEPT !.lpOfPool = a, !.lpOfUser = b, !.lpUsers = m.lpUsers \cup {u}]
      /\ n1 = [n EXCEPT !.lpOfPool = a, !.lpOfUser = b, !.lpUsers = m.lpUsers \cup {u}]
  BY DEF CreditLp, Ahead, KeepsPools
<1> HIDE DEF a, b, m1, n1
<1>2. HasFields(m1) /\ HasFields(n1) /\ m1.swap = m.swap /\ n1.swap = n.swap
  BY <1>1 DEF Ahead, HasFields
<1>3. KeepsPools(m1, n1) /\ n1.ids = m1.ids /\ n1.chain = m1.chain
  BY <1>1 DEF Ahead, HasFields, KeepsPools
<1> QED BY <1>2, <1>3 DEF Ahead, m1, n1

\* LP that is added to a pool.
LEMMA AddLpRicher ==
  ASSUME NEW m, NEW n, NEW gap, Ahead(m, n, gap), NEW p, NEW amt
  PROVE  Ahead([m EXCEPT !.lp[p] = @ + amt], [n EXCEPT !.lp[p] = @ + amt], gap)
<1> DEFINE a == [m.lp EXCEPT ![p] = @ + amt]
           m1 == [m EXCEPT !.lp[p] = @ + amt]
           n1 == [n EXCEPT !.lp[p] = @ + amt]
<1>1. m1 = [m EXCEPT !.lp = a] /\ n1 = [n EXCEPT !.lp = a]  BY DEF Ahead, KeepsPools
<1> HIDE DEF a, m1, n1
<1>2. HasFields(m1) /\ HasFields(n1) /\ m1.swap = m.swap /\ n1.swap = n.swap
  BY <1>1 DEF Ahead, HasFields
<1>3. KeepsPools(m1, n1) /\ n1.ids = m1.ids /\ n1.chain = m1.chain
  BY <1>1 DEF Ahead, HasFields, KeepsPools
<1> QED BY <1>2, <1>3 DEF Ahead, m1, n1

\* The mark of the service fee.
LEMMA SetLastKRicher ==
  ASSUME NEW m, NEW n, NEW gap, Ahead(m, n, gap), NEW p
  PROVE  Ahead(SetLastK(m, p), SetLastK(n, p), gap)
<1> DEFINE a == [m.lastK EXCEPT ![p] = RootK(m, p)]
           m1 == SetLastK(m, p)
           n1 == SetLastK(n, p)
<1>1. RootK(n, p) = RootK(m, p)  BY DEF RootK, Ahead, KeepsPools
<1>2. m1 = [m EXCEPT !.lastK = a] /\ n1 = [n EXCEPT !.lastK = a]
  BY <1>1 DEF Ahead, KeepsPools, SetLastK
<1> HIDE DEF a, m1, n1
<1>3. HasFields(m1) /\ HasFields(n1) /\ m1.swap = m.swap /\ n1.swap = n.swap
  BY <1>2 DEF Ahead, HasFields
<1>4. KeepsPools(m1, n1) /\ n1.ids = m1.ids /\ n1.chain = m1.chain
  BY <1>2 DEF Ahead, HasFields, KeepsPools
<1> QED BY <1>3, <1>4 DEF Ahead, m1, n1

\* The service fee.
LEMMA IssueFeeRicher ==
  ASSUME NEW m, NEW n, NEW gap, Ahead(m, n, gap), NEW p
  PROVE  Ahead(IssueFee(m, p), IssueFee(n, p), gap)
<1> DEFINE a == FeeLp(m, p)
           m1 == [m EXCEPT !.lp[p] = @ + a]
           n1 == [n EXCEPT !.lp[p] = @ + a]
<1>1. FeeLp(n, p) = a  BY DEF FeeLp, RootK, Ahead, KeepsPools
<1> HIDE DEF a
<1>2. /\ IssueFee(m, p) = IF a <= 0 THEN m ELSE CreditLp(m1, p, LpFeeTo, a)
      /\ IssueFee(n, p) = IF a <= 0 THEN n ELSE CreditLp(n1, p, LpFeeTo, a)
  BY <1>1 DEF IssueFee, IssueLp, a
<1>3. Ahead(m1, n1, gap)  BY AddLpRicher
<1> HIDE DEF m1, n1
<1>4. Ahead(CreditLp(m1, p, LpFeeTo, a), CreditLp(n1, p, LpFeeTo, a), gap)  BY <1>3, CreditLpRicher
<1> QED BY <1>2, <1>4

\* Gas: what succeeds on the poorer module succeeds on the richer one.
LEMMA GasFollows ==
  ASSUME NEW m, NEW n, NEW gap, Ahead(m, n, gap), NEW f \in SwapFunctions, NEW price \in Nat, NEW e
  PROVE  Follows(GasFee(m, f, price, e), GasFee(n, f, price, e), gap)
<1> DEFINE gas == price * (IF e.enabled THEN 1 ELSE f.size)
           m1 == MoveSwap(m, f.by, GasTo, GasTick, gas)
           n1 == MoveSwap(n, f.by, GasTo, GasTick, gas)
<1>1. f.by \in Users /\ f.size \in Nat /\ GasTo \in Users /\ GasTick \in Ticks
  BY AddressesAssumption DEF SwapFunctions
<1>2. gas \in Nat
  <2>1. CASE e.enabled  BY <2>1
  <2>2. CASE ~e.enabled
    <3>1. price * f.size \in Nat  BY <1>1, MulNat
    <3> QED BY <2>2, <3>1
  <2> QED BY <2>1, <2>2
<1>3. /\ GasFee(m, f, price, e) = IF price = 0 THEN Ok(m)
           ELSE IF m.swap[f.by][GasTick] < gas THEN Err(m) ELSE Ok(m1)
      /\ GasFee(n, f, price, e) = IF price = 0 THEN Ok(n)
           ELSE IF n.swap[f.by][GasTick] < gas THEN Err(n) ELSE Ok(n1)
  BY DEF GasFee
<1> HIDE DEF gas
<1>4. Ahead(m1, n1, gap)  BY <1>1, <1>2, MoveSwapRicher
<1> HIDE DEF m1, n1
<1>5. ~(m.swap[f.by][GasTick] < gas) => ~(n.swap[f.by][GasTick] < gas)
  BY <1>1, <1>2 DEF Ahead, Balances
<1> QED BY <1>3, <1>4, <1>5 DEF Follows, Ok, Err

\* Amounts that are sent.
LEMMA SendFollows ==
  ASSUME NEW m, NEW n, NEW gap, Ahead(m, n, gap), NEW f \in SwapFunctions, NEW e
  PROVE  Follows(Send(m, f, e), Send(n, f, e), gap)
<1> DEFINE amt == CheckTickVerify(e, f.t0, f.amt)
           m1 == MoveSwap(m, f.by, f.to, f.t0, amt)
           n1 == MoveSwap(n, f.by, f.to, f.t0, amt)
<1>1. f.by \in Users /\ f.to \in Users /\ f.t0 \in Ticks /\ amt \in Nat
  BY DEF SwapFunctions, CheckTickVerify
<1>2. /\ Send(m, f, e) = IF m.swap[f.by][f.t0] < amt THEN Err(m) ELSE Ok(m1)
      /\ Send(n, f, e) = IF n.swap[f.by][f.t0] < amt THEN Err(n) ELSE Ok(n1)
  BY DEF Send
<1> HIDE DEF amt
<1>3. Ahead(m1, n1, gap)  BY <1>1, MoveSwapRicher
<1> HIDE DEF m1, n1
<1>4. ~(m.swap[f.by][f.t0] < amt) => ~(n.swap[f.by][f.t0] < amt)  BY <1>1 DEF Ahead, Balances
<1> QED BY <1>2, <1>3, <1>4 DEF Follows, Ok, Err

\* Decreased approvals.
LEMMA DecreaseFollows ==
  ASSUME NEW m, NEW n, NEW gap, Ahead(m, n, gap), NEW f \in SwapFunctions, NEW e
  PROVE  Follows(DecreaseApproval(m, f, e), DecreaseApproval(n, f, e), gap)
<1> DEFINE amt == CheckTickVerify(e, f.t0, f.amt)
           a == [m.swap EXCEPT ![f.by][f.t0] = @ - amt]
           b == [n.swap EXCEPT ![f.by][f.t0] = @ - amt]
           m1 == [m EXCEPT !.swap[f.by][f.t0] = @ - amt, !.avail[f.by][f.t0] = @ + amt]
           n1 == [n EXCEPT !.swap[f.by][f.t0] = @ - amt, !.avail[f.by][f.t0] = @ + amt]
<1>1. f.by \in Users /\ f.t0 \in Ticks /\ amt \in Nat  BY DEF SwapFunctions, CheckTickVerify
<1>2. /\ DecreaseApproval(m, f, e) = IF m.swap[f.by][f.t0] < amt THEN Err(m) ELSE Ok(m1)
      /\ DecreaseApproval(n, f, e) = IF n.swap[f.by][f.t0] < amt THEN Err(n) ELSE Ok(n1)
  BY DEF DecreaseApproval
<1> HIDE DEF amt
<1>3. Ahead(m1, n1, gap)
  <2> DEFINE c == [m.avail EXCEPT ![f.by][f.t0] = @ + amt]
             d == [n.avail EXCEPT ![f.by][f.t0] = @ + amt]
  <2>1. m1 = [m EXCEPT !.swap = a, !.avail = c] /\ n1 = [n EXCEPT !.swap = b, !.avail = d]
    OBVIOUS
  <2>2. a \in Balances /\ b \in Balances  BY <1>1 DEF Ahead, Balances
  <2>3. \A v \in Users, s \in Ticks : b[v][s] = a[v][s] + gap[v][s]  BY <1>1 DEF Ahead, Balances
  <2> HIDE DEF a, b, c, d, m1, n1
  <2>4. HasFields(m1) /\ HasFields(n1) /\ m1.swap = a /\ n1.swap = b  BY <2>1 DEF Ahead, HasFields
  <2>5. KeepsPools(m1, n1) /\ n1.ids = m1.ids /\ n1.chain = m1.chain
    BY <2>1 DEF Ahead, HasFields, KeepsPools
  <2> QED BY <2>2, <2>3, <2>4, <2>5 DEF Ahead
<1> HIDE DEF m1, n1
<1>4. ~(m.swap[f.by][f.t0] < amt) => ~(n.swap[f.by][f.t0] < amt)  BY <1>1 DEF Ahead, Balances
<1> QED BY <1>2, <1>3, <1>4 DEF Follows, Ok, Err

\* LP that is sent.
LEMMA SendLpFollows ==
  ASSUME NEW m, NEW n, NEW gap, Ahead(m, n, gap), NEW f
  PROVE  Follows(SendLp(m, f), SendLp(n, f), gap)
<1> DEFINE p == Pair(f)
           m1 == CreditLp(m, p, f.by, -f.amt)
           n1 == CreditLp(n, p, f.by, -f.amt)
           m2 == CreditLp(m1, p, f.to, f.amt)
           n2 == CreditLp(n1, p, f.to, f.amt)
           bad == \/ p \notin m.pools \/ f.by \notin m.lpUsers
                  \/ m.lpOfPool[p][f.by] # m.lpOfUser[f.by][p]
                  \/ m.lpOfPool[p][f.by] < f.amt
<1>1. /\ SendLp(m, f) = IF bad THEN Err(m) ELSE Ok(m2)
      /\ SendLp(n, f) = IF bad THEN Err(n) ELSE Ok(n2)
  BY DEF SendLp, Ahead, KeepsPools
<1>2. Ahead(m1, n1, gap)  BY CreditLpRicher
<1> HIDE DEF m1, n1, bad
<1>3. Ahead(m2, n2, gap)  BY <1>2, CreditLpRicher
<1> HIDE DEF m2, n2
<1> QED BY <1>1, <1>3 DEF Follows, Ok, Err

\* A pool that is deployed.
LEMMA DeployFollows ==
  ASSUME NEW m, NEW n, NEW gap, Ahead(m, n, gap), NEW f
  PROVE  Follows(DeployPool(m, f), DeployPool(n, f), gap)
<1> DEFINE a == m.pools \cup {Pair(f)}
           b == [m.tick0 EXCEPT ![Pair(f)] = f.t0]
           m1 == [m EXCEPT !.pools = a, !.tick0 = b]
           n1 == [n EXCEPT !.pools = a, !.tick0 = b]
<1>1. /\ DeployPool(m, f) = IF Pair(f) \in m.pools THEN Err(m) ELSE Ok(m1)
      /\ DeployPool(n, f) = IF Pair(f) \in m.pools THEN Err(n) ELSE Ok(n1)
  <2> DEFINE c == [n.tick0 EXCEPT ![Pair(f)] = f.t0]
             d == n.pools \cup {Pair(f)}
  <2>1. DeployPool(m, f) = IF Pair(f) \in m.pools THEN Err(m) ELSE Ok(m1)  BY DEF DeployPool
  <2>2. DeployPool(n, f) = IF Pair(f) \in n.pools THEN Err(n)
                           ELSE Ok([n EXCEPT !.pools = d, !.tick0 = c])
    BY DEF DeployPool
  <2>3. c = b /\ d = a /\ n.pools = m.pools  BY DEF Ahead, KeepsPools
  <2> HIDE DEF a, b, c, d
  <2> QED BY <2>1, <2>2, <2>3
<1> HIDE DEF a, b
<1>2. HasFields(m1) /\ HasFields(n1) /\ m1.swap = m.swap /\ n1.swap = n.swap
  BY DEF Ahead, HasFields
<1>3. KeepsPools(m1, n1) /\ n1.ids = m1.ids /\ n1.chain = m1.chain
  BY DEF Ahead, HasFields, KeepsPools
<1> HIDE DEF m1, n1
<1>4. Ahead(m1, n1, gap)  BY <1>2, <1>3 DEF Ahead
<1> QED BY <1>1, <1>4 DEF Follows, Ok, Err

\* Liquidity that is taken.
LEMMA TakeLiqFollows ==
  ASSUME NEW m, NEW n, NEW gap, Ahead(m, n, gap), NEW f \in SwapFunctions,
         NEW liq, liq.a0 \in Nat, liq.a1 \in Nat, NEW locked
  PROVE  Follows(TakeLiq(m, f, liq, locked), TakeLiq(n, f, liq, locked), gap)
<1> DEFINE p == Pair(f)
           s0 == Side0(m, f)
           few == liq.lp < locked \/ liq.lp - locked < (f.lp * (1000 - f.slip)) \div 1000
           m1 == Trade(m, f.by, p, f.t0, liq.a0, f.t1, liq.a1, s0)
           n1 == Trade(n, f.by, p, f.t0, liq.a0, f.t1, liq.a1, s0)
           m2 == [m1 EXCEPT !.lp[p] = @ + liq.lp]
           n2 == [n1 EXCEPT !.lp[p] = @ + liq.lp]
           m3 == CreditLp(m2, p, f.by, liq.lp - locked)
           n3 == CreditLp(n2, p, f.by, liq.lp - locked)
           m4 == IF locked > 0 THEN CreditLp(m3, p, Zero, locked) ELSE m3
           n4 == IF locked > 0 THEN CreditLp(n3, p, Zero, locked) ELSE n3
           m5 == SetLastK(m4, p)
           n5 == SetLastK(n4, p)
<1>1. f.by \in Users /\ f.t0 \in Ticks /\ f.t1 \in Ticks  BY DEF SwapFunctions
<1>2. Side0(n, f) = s0  BY DEF Side0, Ahead, KeepsPools
<1>3. /\ TakeLiq(m, f, liq, locked) =
           IF few \/ m.swap[f.by][f.t0] < liq.a0 \/ m.swap[f.by][f.t1] < liq.a1 THEN Err(m) ELSE Ok(m5)
      /\ TakeLiq(n, f, liq, locked) =
           IF few \/ n.swap[f.by][f.t0] < liq.a0 \/ n.swap[f.by][f.t1] < liq.a1 THEN Err(n) ELSE Ok(n5)
  BY <1>2 DEF TakeLiq
<1>4. /\ ~(m.swap[f.by][f.t0] < liq.a0) => ~(n.swap[f.by][f.t0] < liq.a0)
      /\ ~(m.swap[f.by][f.t1] < liq.a1) => ~(n.swap[f.by][f.t1] < liq.a1)
  BY <1>1 DEF Ahead, Balances
<1> HIDE DEF few, p, s0
<1>5. Ahead(m1, n1, gap)  BY <1>1, TradeRicher
<1> HIDE DEF m1, n1
<1>6. Ahead(m2, n2, gap)  BY <1>5, AddLpRicher
<1> HIDE DEF m2, n2
<1>7. Ahead(m3, n3, gap)  BY <1>6, CreditLpRicher
<1> HIDE DEF m3, n3
<1>8. Ahead(m4, n4, gap)  BY <1>7, CreditLpRicher
<1> HIDE DEF m4, n4
<1>9. Ahead(m5, n5, gap)  BY <1>8, SetLastKRicher
<1> HIDE DEF m5, n5
<1> QED BY <1>3, <1>4, <1>9 DEF Follows, Ok, Err

\* Liquidity that is added, first or later.
LEMMA AddLiquidityFollows ==
  ASSUME NEW m \in Modules, PoolsSound(m), NEW n, NEW gap, Ahead(m, n, gap), NEW f \in SwapFunctions, NEW e
  PROVE  Follows(AddLiquidity(m, f, e), AddLiquidity(n, f, e), gap)
<1> DEFINE p == Pair(f)
           b0 == CheckTickVerify(e, f.t0, f.a0)
           b1 == CheckTickVerify(e, f.t1, f.a1)
           m1 == IssueFee(m, p)
           n1 == IssueFee(n, p)
           first == FirstLiq(b0, b1)
           liq == NextLiq(m1, f, b0, b1)
           found == PoolFound(m, f, e)
           empty == \A t \in p : m.res[p][t] = 0
           panics == AddLiqPanics(m, f)
<1>1. b0 \in Nat /\ b1 \in Nat /\ f.t0 \in Ticks /\ f.t1 \in Ticks  BY DEF SwapFunctions, CheckTickVerify
<1>2. Ahead(m1, n1, gap)  BY IssueFeeRicher
<1>3. AddLiquidity(m, f, e) =
        IF ~found THEN Err(m) ELSE IF empty THEN TakeLiq(m, f, first, MinLp)
        ELSE IF panics THEN Panic(m) ELSE TakeLiq(m1, f, liq, 0)
  BY DEF AddLiquidity, TakeNextLiq
<1>4. AddLiquidity(n, f, e) =
        IF ~found THEN Err(n) ELSE IF empty THEN TakeLiq(n, f, first, MinLp)
        ELSE IF panics THEN Panic(n) ELSE TakeLiq(n1, f, liq, 0)
  <2>1. AddLiquidity(n, f, e) =
          IF ~PoolFound(n, f, e) THEN Err(n)
          ELSE IF \A t \in p : n.res[p][t] = 0 THEN TakeLiq(n, f, first, MinLp)
          ELSE IF AddLiqPanics(n, f) THEN Panic(n)
          ELSE TakeLiq(n1, f, NextLiq(n1, f, b0, b1), 0)
    BY DEF AddLiquidity, TakeNextLiq
  <2>2. PoolFound(n, f, e) = found /\ n.res = m.res  BY DEF PoolFound, Ahead, KeepsPools
  <2>3. AddLiqPanics(n, f) = panics  BY DEF AddLiqPanics, FeePanics, RootK, Side0, Ahead, KeepsPools
  <2>4. NextLiq(n1, f, b0, b1) = liq
    <3> HIDE DEF m1, n1
    <3> QED BY <1>2 DEF NextLiq, Side0, Ahead, KeepsPools
  <2> HIDE DEF m1, n1, first, liq, found, panics
  <2> QED BY <2>1, <2>2, <2>3, <2>4
<1> HIDE DEF n1, b0, b1
<1>5. SUFFICES ASSUME found, ~panics \/ empty
               PROVE  Follows(AddLiquidity(m, f, e), AddLiquidity(n, f, e), gap)
  BY <1>3, <1>4 DEF Follows, Err, Panic
<1>6. p \in Pairs  BY <1>5 DEF PoolFound, Modules
<1>7. CASE empty
  <2>1. first.a0 \in Nat /\ first.a1 \in Nat  BY <1>1, FirstLiqFacts
  <2> HIDE DEF first, empty, m1, liq, found
  <2> QED BY <1>3, <1>4, <1>5, <1>7, <2>1, TakeLiqFollows
<1>8. CASE ~empty
  <2>1. /\ ~FeePanics(m, p) /\ m.res[p][Side0(m, f)] # 0
        /\ m.lp[p] > 0 => m.res[p][Other(p, Side0(m, f))] # 0
    BY <1>5, <1>8 DEF AddLiqPanics
  <2>2. m1 \in Modules /\ KeepsButLp(m, m1) /\ PoolsSound(m1) /\ (m.lp[p] = 0 <=> m1.lp[p] = 0)
    BY <1>6, <2>1, IssueFeeFacts
  <2> HIDE DEF m1
  <2>3. Side0(m1, f) = Side0(m, f) /\ m1.res = m.res /\ m1.lp[p] \in Nat /\ m.lp[p] \in Nat
    BY <1>6, <2>2 DEF Side0, KeepsButLp, Modules
  <2>4. m1.res[p][Side0(m1, f)] # 0 /\ (m1.lp[p] > 0 => m1.res[p][Other(p, Side0(m1, f))] # 0)
    BY <2>1, <2>2, <2>3
  <2>5. liq.a0 \in Nat /\ liq.a1 \in Nat  BY <1>1, <1>6, <2>2, <2>4, NextLiqFacts
  <2> HIDE DEF first, empty, liq, found, panics
  <2> QED BY <1>2, <1>3, <1>4, <1>5, <1>8, <2>5, TakeLiqFollows
<1> QED BY <1>7, <1>8

\* Liquidity that is returned.
LEMMA ReturnLiqFollows ==
  ASSUME NEW m \in Modules, PoolsSound(m), NEW n, NEW gap, Ahead(m, n, gap), NEW f \in SwapFunctions,
         Pair(f) \in Pairs, NEW b0, NEW b1, NEW s0 \in Pair(f)
  PROVE  Follows(ReturnLiq(m, f, b0, b1, s0), ReturnLiq(n, f, b0, b1, s0), gap)
<1> DEFINE p == Pair(f)
           s1 == Other(p, s0)
           x0 == IF m.lp[p] = 0 THEN 0 ELSE (m.res[p][s0] * f.lp) \div m.lp[p]
           x1 == IF m.lp[p] = 0 THEN 0 ELSE (m.res[p][s1] * f.lp) \div m.lp[p]
           y0 == -x0
           y1 == -x1
           m1 == Trade(m, f.by, p, f.t0, y0, f.t1, y1, s0)
           n1 == Trade(n, f.by, p, f.t0, y0, f.t1, y1, s0)
           m2 == [m1 EXCEPT !.lpOfPool[p][f.by] = @ - f.lp,
                            !.lpOfUser[f.by][p] = @ - f.lp, !.lp[p] = @ - f.lp]
           n2 == [n1 EXCEPT !.lpOfPool[p][f.by] = @ - f.lp,
                            !.lpOfUser[f.by][p] = @ - f.lp, !.lp[p] = @ - f.lp]
           m3 == SetLastK(m2, p)
           n3 == SetLastK(n2, p)
           bad == \/ x0 < b0 - b0 * f.slip
                  \/ x1 < b1 - b1 * f.slip
                  \/ m.lp[p] < f.lp
                  \/ m.res[p][s0] < x0 \/ m.res[p][s1] < x1
                  \/ m.lpOfPool[p][f.by] # m.lpOfUser[f.by][p]
                  \/ m.lpOfPool[p][f.by] < f.lp
<1>1. ReturnLiq(m, f, b0, b1, s0) = IF bad THEN Err(m) ELSE Ok(m3)  BY DEF ReturnLiq
<1>2. ReturnLiq(n, f, b0, b1, s0) = IF bad THEN Err(n) ELSE Ok(n3)
  BY DEF ReturnLiq, Ahead, KeepsPools
<1>3. SUFFICES ASSUME ~bad PROVE Ahead(m3, n3, gap)
  <2> HIDE DEF bad, m3, n3
  <2> QED BY <1>1, <1>2 DEF Follows, Ok, Err
<1>4. f.by \in Users /\ f.lp \in Nat /\ f.t0 \in Ticks /\ f.t1 \in Ticks  BY DEF SwapFunctions
<1>5. s0 \in p /\ s1 \in p /\ s0 \in Ticks /\ s1 \in Ticks  BY PairFacts
<1>6. m.res[p][s0] \in Nat /\ m.res[p][s1] \in Nat /\ m.lp[p] \in Nat  BY <1>5 DEF Modules
<1>7. m.lp[p] > 0 => m.res[p][s0] > 0 /\ m.res[p][s1] > 0  BY <1>5 DEF PoolsSound, PoolSound
<1>8. f.lp <= m.lp[p]  BY <1>3, <1>4, <1>6
<1> HIDE DEF p, s1, bad
<1>9. x0 \in Nat  BY <1>4, <1>6, <1>7, <1>8, ShareFacts
<1>10. x1 \in Nat  BY <1>4, <1>6, <1>7, <1>8, ShareFacts
<1> HIDE DEF x0, x1
<1>11. y0 \in Int /\ y1 \in Int  BY <1>9, <1>10
<1> HIDE DEF y0, y1
<1>12. Ahead(m1, n1, gap)  BY <1>4, <1>11, TradeRicher
<1> HIDE DEF m1, n1
<1>13. Ahead(m2, n2, gap)
  <2> DEFINE a == [m1.lpOfPool EXCEPT ![p][f.by] = @ - f.lp]
             b == [m1.lpOfUser EXCEPT ![f.by][p] = @ - f.lp]
             c == [m1.lp EXCEPT ![p] = @ - f.lp]
  <2>1. /\ m2 = [m1 EXCEPT !.lpOfPool = a, !.lpOfUser = b, !.lp = c]
        /\ n2 = [n1 EXCEPT !.lpOfPool = a, !.lpOfUser = b, !.lp = c]
    BY <1>12 DEF Ahead, KeepsPools
  <2> HIDE DEF a, b, c, m2, n2
  <2>2. HasFields(m2) /\ HasFields(n2) /\ m2.swap = m1.swap /\ n2.swap = n1.swap
    BY <1>12, <2>1 DEF Ahead, HasFields
  <2>3. KeepsPools(m2, n2) /\ n2.ids = m2.ids /\ n2.chain = m2.chain
    BY <1>12, <2>1 DEF Ahead, HasFields, KeepsPools
  <2> QED BY <1>12, <2>2, <2>3 DEF Ahead
<1> HIDE DEF m2, n2
<1> QED BY <1>13, SetLastKRicher

\* Liquidity that is removed.
LEMMA RemoveLiquidityFollows ==
  ASSUME NEW m \in Modules, PoolsSound(m), NEW n, NEW gap, Ahead(m, n, gap), NEW f \in SwapFunctions, NEW e
  PROVE  Follows(RemoveLiquidity(m, f, e), RemoveLiquidity(n, f, e), gap)
<1> DEFINE p == Pair(f)
           s0 == Side0(m, f)
           b0 == CheckTickVerify(e, f.t0, f.a0)
           b1 == CheckTickVerify(e, f.t1, f.a1)
           m1 == IssueFee(m, p)
           n1 == IssueFee(n, p)
           bad == ~PoolFound(m, f, e) \/ f.by \notin m.lpUsers
           panics == FeePanics(m, p)
<1>1. RemoveLiquidity(m, f, e) = IF bad THEN Err(m) ELSE IF panics THEN Panic(m)
                                 ELSE ReturnLiq(m1, f, b0, b1, s0)
  BY DEF RemoveLiquidity
<1>2. RemoveLiquidity(n, f, e) = IF bad THEN Err(n) ELSE IF panics THEN Panic(n)
                                 ELSE ReturnLiq(n1, f, b0, b1, s0)
  <2>1. Side0(n, f) = s0 /\ FeePanics(n, p) = panics
    BY DEF Side0, FeePanics, RootK, Ahead, KeepsPools
  <2>2. (~PoolFound(n, f, e) \/ f.by \notin n.lpUsers) = bad  BY DEF PoolFound, Ahead, KeepsPools
  <2> HIDE DEF b0, b1, s0, n1, panics, bad
  <2> QED BY <2>1, <2>2 DEF RemoveLiquidity, b0, b1, n1
<1>3. SUFFICES ASSUME ~bad, ~panics
               PROVE  Follows(ReturnLiq(m1, f, b0, b1, s0), ReturnLiq(n1, f, b0, b1, s0), gap)
  BY <1>1, <1>2 DEF Follows, Err, Panic
<1>4. p \in Pairs  BY <1>3 DEF PoolFound, Modules
<1>5. m1 \in Modules /\ PoolsSound(m1)  BY <1>3, <1>4, IssueFeeFacts
<1>6. s0 \in p  BY <1>4, Side0Facts
<1>7. Ahead(m1, n1, gap)  BY IssueFeeRicher
<1> HIDE DEF m1, n1, s0, b0, b1
<1> QED BY <1>4, <1>5, <1>6, <1>7, ReturnLiqFollows

\* Swaps.
LEMMA SwapFollows ==
  ASSUME NEW m \in Modules, PoolsSound(m), NEW n, NEW gap, Ahead(m, n, gap), NEW f \in SwapFunctions, NEW e
  PROVE  Follows(Swap(m, f, e), Swap(n, f, e), gap)
<1> DEFINE p == Pair(f)
           amt == CheckTickVerify(e, f.t0, f.amt)
           quote == CheckTickVerify(e, f.t1, f.quote)
           got == AmountOut(m.res[p][f.t0], m.res[p][f.t1], amt)
           pay == AmountIn(m.res[p][f.t1], m.res[p][f.t0], amt)
           r == Swap(m, f, e)
           s == Swap(n, f, e)
<1>1. /\ f.by \in Users /\ f.t0 \in Ticks /\ f.t1 \in Ticks /\ amt \in Nat /\ quote \in Nat
      /\ f.dir \in {"exactIn", "exactOut"}
  BY DEF SwapFunctions, CheckTickVerify
<1>2. SUFFICES ASSUME r.st = "ok" PROVE s.st = "ok" /\ Ahead(r.m, s.m, gap)  BY DEF Follows
<1>3. p \in m.pools /\ PoolFound(m, f, e) /\ f.same /\ ~SwapPanics(m, f, e)
  BY <1>2 DEF Swap, PoolFound, Err, Panic
<1>4. p \in Pairs  BY <1>3 DEF Modules
<1>5. /\ f.t0 \in p /\ f.t1 \in p /\ Other(p, f.t0) = f.t1 /\ Other(p, f.t1) = f.t0
  BY <1>4, PairOf DEF Pair
<1>6. m.res[p][f.t0] \in Nat /\ m.res[p][f.t1] \in Nat  BY <1>1, <1>4 DEF Modules
<1>7. PoolFound(n, f, e) /\ ~SwapPanics(n, f, e) /\ n.res = m.res
  BY <1>3 DEF PoolFound, SwapPanics, Ahead, KeepsPools
<1>8. CASE f.dir = "exactIn"
  <2> DEFINE x == -got
             m1 == Trade(m, f.by, p, f.t0, amt, f.t1, x, f.t0)
             n1 == Trade(n, f.by, p, f.t0, amt, f.t1, x, f.t0)
             bad == got < (quote * 1000) \div (1000 + f.slip)
  <2>1. r = IF bad \/ m.swap[f.by][f.t0] < amt THEN Err(m) ELSE Ok(m1)  BY <1>3, <1>5, <1>8 DEF Swap
  <2>2. s = IF bad \/ n.swap[f.by][f.t0] < amt THEN Err(n) ELSE Ok(n1)
    BY <1>3, <1>5, <1>7, <1>8 DEF Swap
  <2> HIDE DEF amt, quote
  <2>3. got \in Nat  BY <1>1, <1>6, AmountOutFacts
  <2> HIDE DEF got, r, s, p, bad
  <2>4. x \in Int /\ amt \in Int  BY <1>1, <2>3
  <2> HIDE DEF x
  <2>5. Ahead(m1, n1, gap)  BY <1>1, <2>4, TradeRicher
  <2> HIDE DEF m1, n1
  <2>6. ~(m.swap[f.by][f.t0] < amt) => ~(n.swap[f.by][f.t0] < amt)  BY <1>1 DEF Ahead, Balances
  <2> QED BY <1>2, <2>1, <2>2, <2>5, <2>6 DEF Ok, Err
<1>9. CASE f.dir = "exactOut"
  <2> DEFINE x == -amt
             m1 == Trade(m, f.by, p, f.t1, pay, f.t0, x, f.t1)
             n1 == Trade(n, f.by, p, f.t1, pay, f.t0, x, f.t1)
             bad == quote * (1000 + f.slip) < pay
  <2>1. r = IF m.res[p][f.t0] < amt THEN Err(m)
            ELSE IF bad \/ m.swap[f.by][f.t1] < quote THEN Err(m) ELSE Ok(m1)
    BY <1>3, <1>5, <1>9 DEF Swap
  <2>2. s = IF m.res[p][f.t0] < amt THEN Err(n)
            ELSE IF bad \/ n.swap[f.by][f.t1] < quote THEN Err(n) ELSE Ok(n1)
    BY <1>3, <1>5, <1>7, <1>9 DEF Swap
  <2>3. amt = 0 \/ m.res[p][f.t0] # amt  BY <1>3, <1>9 DEF SwapPanics, CheckTickVerify
  <2> DEFINE A == m.res[p][f.t1]
             B == m.res[p][f.t0]
  <2> HIDE DEF amt, quote, r, s, bad
  <2>4. amt = 0 \/ amt < B
    <3> HIDE DEF m1
    <3> QED BY <1>1, <1>2, <1>6, <2>1, <2>3 DEF Err
  <2>5. pay \in Nat  BY <1>1, <1>6, <2>4, AmountInFacts
  <2> HIDE DEF pay, p
  <2>6. x \in Int /\ pay \in Int  BY <1>1, <2>5
  <2> HIDE DEF x
  <2>7. Ahead(m1, n1, gap)  BY <1>1, <2>6, TradeRicher
  <2> HIDE DEF m1, n1
  <2>8. ~(m.swap[f.by][f.t1] < quote) => ~(n.swap[f.by][f.t1] < quote)  BY <1>1 DEF Ahead, Balances
  <2> QED BY <1>2, <2>1, <2>2, <2>7, <2>8 DEF Ok, Err
<1> QED BY <1>1, <1>8, <1>9

\* Any function of a commit.
LEMMA FunctionFollows ==
  ASSUME NEW m \in Modules, PoolsSound(m), NEW n, NEW gap, Ahead(m, n, gap), NEW f \in SwapFunctions,
         NEW e
  PROVE  Follows(ProcessFunction(m, f, e), ProcessFunction(n, f, e), gap)
<1>1. f.fn \in {"deployPool", "addLiq", "removeLiq", "swap", "decreaseApproval", "send", "sendLp"}
  BY DEF SwapFunctions
<1>2. CASE f.fn = "deployPool"
  <2>1. \A o : ProcessFunction(o, f, e) = DeployPool(o, f)  BY <1>2 DEF ProcessFunction
  <2> QED BY <2>1, DeployFollows
<1>3. CASE f.fn = "addLiq"
  <2>1. \A o : ProcessFunction(o, f, e) = AddLiquidity(o, f, e)  BY <1>3 DEF ProcessFunction
  <2> QED BY <2>1, AddLiquidityFollows
<1>4. CASE f.fn = "removeLiq"
  <2>1. \A o : ProcessFunction(o, f, e) = RemoveLiquidity(o, f, e)  BY <1>4 DEF ProcessFunction
  <2> QED BY <2>1, RemoveLiquidityFollows
<1>5. CASE f.fn = "swap"
  <2>1. \A o : ProcessFunction(o, f, e) = Swap(o, f, e)  BY <1>5 DEF ProcessFunction
  <2> QED BY <2>1, SwapFollows
<1>6. CASE f.fn = "decreaseApproval"
  <2>1. \A o : ProcessFunction(o, f, e) = DecreaseApproval(o, f, e)  BY <1>6 DEF ProcessFunction
  <2> QED BY <2>1, DecreaseFollows
<1>7. CASE f.fn = "send"
  <2>1. \A o : ProcessFunction(o, f, e) = Send(o, f, e)  BY <1>7 DEF ProcessFunction
  <2> QED BY <2>1, SendFollows
<1>8. CASE f.fn = "sendLp"
  <2>1. \A o : ProcessFunction(o, f, e) = SendLp(o, f)  BY <1>8 DEF ProcessFunction
  <2> QED BY <2>1, SendLpFollows
<1> QED BY <1>1, <1>2, <1>3, <1>4, <1>5, <1>6, <1>7, <1>8

\* A function after its gas and after others.
LEMMA RunFunctionFollows ==
  ASSUME NEW r, NEW s, NEW gap, Follows(r, s, gap), r.m \in Modules, PoolsSound(r.m),
         NEW f \in SwapFunctions, NEW price \in Nat, NEW e
  PROVE  Follows(RunFunction(r, f, price, e), RunFunction(s, f, price, e), gap)
<1> DEFINE g == GasFee(r.m, f, price, e)
           h == GasFee(s.m, f, price, e)
<1>1. CASE r.st # "ok"  BY <1>1 DEF RunFunction, Follows
<1>2. CASE r.st = "ok"
  <2>1. s.st = "ok" /\ Ahead(r.m, s.m, gap)  BY <1>2 DEF Follows
  <2>2. Follows(g, h, gap)  BY <2>1, GasFollows
  <2>3. g.m \in Modules /\ KeepsPools(r.m, g.m)  BY GasFacts
  <2>4. PoolsSound(g.m)  BY <2>3, PoolsUntouched DEF KeepsPools
  <2>5. RunFunction(r, f, price, e) = AfterGas(g, f, e) /\ RunFunction(s, f, price, e) = AfterGas(h, f, e)
    BY <1>2, <2>1 DEF RunFunction
  <2> HIDE DEF g, h
  <2>6. CASE g.st # "ok"  BY <2>5, <2>6 DEF AfterGas, Follows
  <2>7. CASE g.st = "ok"
    <3>1. h.st = "ok" /\ Ahead(g.m, h.m, gap)  BY <2>2, <2>7 DEF Follows
    <3>2. Follows(ProcessFunction(g.m, f, e), ProcessFunction(h.m, f, e), gap)
      BY <2>3, <2>4, <3>1, FunctionFollows
    <3> QED BY <2>5, <2>7, <3>1, <3>2 DEF AfterGas
  <2> QED BY <2>6, <2>7
<1> QED BY <1>1, <1>2

\* All functions of a commit.
LEMMA RunFollows ==
  ASSUME NEW m \in Modules, PoolsSound(m), NEW n, NEW gap, Ahead(m, n, gap), NEW c \in Commits,
         PoolsDiffer(c), NEW e
  PROVE  \A k \in 0..Len(c.data) : Follows(Run(m, c, e)[k], Run(n, c, e)[k], gap)
<1> DEFINE l == Len(c.data)
           R == CommitRun(m, c, e)
           S == CommitRun(n, c, e)
           Good(k) == RanOn(m, c, R[k].m) /\ Follows(R[k], S[k], gap)
           Bad == {k \in 0..l : ~Good(k)}
<1>1. l \in Nat /\ c.gas \in Nat /\ \A k \in 1..l : c.data[k] \in SwapFunctions
  BY CommitsAssumption
<1>2. /\ R[0] = Ok(m) /\ \A k \in 1..l : R[k] = RunFunction(R[k - 1], c.data[k], c.gas, e)
      /\ S[0] = Ok(n) /\ \A k \in 1..l : S[k] = RunFunction(S[k - 1], c.data[k], c.gas, e)
  BY <1>1, CommitRunUnfolds
<1> HIDE DEF R, S
<1>3. Good(0)  BY <1>2 DEF RanOn, Ok, KeepsRest, KeepsChain, Balanced, Follows
<1>4. Bad = {}
  <2>1. SUFFICES ASSUME Bad # {} PROVE FALSE  OBVIOUS
  <2>2. PICK j \in Bad : \A i \in Bad : j <= i
    <3>1. Bad \subseteq Nat  OBVIOUS
    <3> HIDE DEF Bad
    <3> QED BY <2>1, <3>1, LeastNatural
  <2>3. j # 0 /\ j \in 0..l  BY <1>3, <2>2
  <2>4. j \in 1..l /\ j - 1 \in 0..l /\ j - 1 \notin Bad  BY <1>1, <2>2, <2>3
  <2>5. Good(j - 1)  BY <2>4
  <2>6. Good(j)
    <3> DEFINE r == R[j - 1]
               s == S[j - 1]
    <3>1. RanOn(m, c, r.m) /\ Follows(r, s, gap)  BY <2>5
    <3>2. R[j] = RunFunction(r, c.data[j], c.gas, e) /\ S[j] = RunFunction(s, c.data[j], c.gas, e)
      BY <1>2, <2>4
    <3> HIDE DEF r, s, Bad
    <3>3. RanOn(m, c, RunFunction(r, c.data[j], c.gas, e).m)  BY <2>4, <3>1, RanStep
    <3>4. r.m \in Modules /\ PoolsSound(r.m)  BY <3>1 DEF RanOn
    <3>5. Follows(RunFunction(r, c.data[j], c.gas, e), RunFunction(s, c.data[j], c.gas, e), gap)
      BY <1>1, <2>4, <3>1, <3>4, RunFunctionFollows
    <3> QED BY <3>2, <3>3, <3>5
  <2> QED BY <2>2, <2>6
<1>5. \A k \in 0..l : Follows(R[k], S[k], gap)  BY <1>4
<1> QED BY <1>5, RunIsRun DEF R, S

\* A commit that is rehearsed, after others.
LEMMA CheckFollows ==
  ASSUME NEW r, NEW s, NEW gap, Follows(r, s, gap), r.m \in Modules, PoolsSound(r.m),
         NEW c \in Commits, PoolsDiffer(c), NEW ticks
  PROVE  LET r1 == ProcessCommitCheck(r, c, ticks)  s1 == ProcessCommitCheck(s, c, ticks)
         IN  Follows(r1, s1, gap) /\ r1.m \in Modules /\ PoolsSound(r1.m)
<1> DEFINE e == [enabled |-> FALSE, known |-> ticks]
           m == r.m
           n == s.m
           v == ProcessCommitVerify(m, c, e)
           w == ProcessCommitVerify(n, c, e)
           ids == v.m.ids \cup {c.id}
           chain == v.m.chain \cup {c.parent}
           inv == v.m.invalid \ {c.id}
           o == [v.m EXCEPT !.ids = ids, !.chain = chain, !.invalid = inv]
<1>1. CASE r.st # "ok"  BY <1>1 DEF ProcessCommitCheck, Follows
<1>2. CASE r.st = "ok"
  <2>1. s.st = "ok" /\ Ahead(m, n, gap)  BY <1>2 DEF Follows
  <2>2. ProcessCommitCheck(r, c, ticks) = Chained(v, c) /\ ProcessCommitCheck(s, c, ticks) = Chained(w, c)
    BY <1>2, <2>1 DEF ProcessCommitCheck
  <2> HIDE DEF e
  <2>4. RanOn(m, c, v.m)
    <3>1. v = Run(m, c, e)[Len(c.data)] \/ v = Err(m)  BY DEF ProcessCommitVerify
    <3>2. CASE v = Run(m, c, e)[Len(c.data)]  BY <3>2, CommitRan
    <3>3. CASE v = Err(m)
      <4>1. v.m = m  BY <3>3 DEF Err
      <4> QED BY <4>1 DEF RanOn, KeepsRest, KeepsChain, Balanced
    <3> QED BY <3>1, <3>2, <3>3
  <2>5. Follows(v, w, gap)
    <3>1. ParentOk(n, c) = ParentOk(m, c)  BY <2>1 DEF ParentOk, Ahead
    <3>2. Follows(Run(m, c, e)[Len(c.data)], Run(n, c, e)[Len(c.data)], gap)
      BY <2>1, RunFollows, CommitsAssumption
    <3> QED BY <3>1, <3>2 DEF ProcessCommitVerify, Follows, Err
  <2> HIDE DEF v, w
  <2>6. v.m \in Modules /\ PoolsSound(v.m)  BY <2>4 DEF RanOn
  <2>7. o \in Modules /\ PoolsSound(o)
    <3>1. /\ ids \in SUBSET CommitIds /\ inv \in SUBSET CommitIds
          /\ chain \in SUBSET {d.parent : d \in Commits}
      BY <2>6 DEF Modules, CommitIds
    <3> DEFINE y == v.m
    <3> HIDE DEF ids, inv, chain
    <3>2. o = [y EXCEPT !.ids = ids, !.chain = chain, !.invalid = inv]  OBVIOUS
    <3>3. y \in Modules /\ PoolsSound(y)  BY <2>6
    <3> HIDE DEF y, o
    <3> QED BY <3>1, <3>2, <3>3, ChainChanged
  <2>8. CASE v.st # "ok"
    <3>1. Chained(v, c) = v  BY <2>8 DEF Chained
    <3> QED BY <2>2, <2>6, <2>8, <3>1 DEF Follows
  <2>9. CASE v.st = "ok"
    <3> DEFINE winv == w.m.invalid \ {c.id}
               q == [w.m EXCEPT !.ids = ids, !.chain = chain, !.invalid = winv]
    <3>1. w.st = "ok" /\ Ahead(v.m, w.m, gap)  BY <2>5, <2>9 DEF Follows
    <3>2. Chained(v, c) = Ok(o)  BY <2>9 DEF Chained
    <3>3. Chained(w, c) = Ok(q)  BY <3>1 DEF Chained, Ahead
    <3> DEFINE y == v.m
               z == w.m
    <3>4. o = [y EXCEPT !.ids = ids, !.chain = chain, !.invalid = inv]  OBVIOUS
    <3>5. q = [z EXCEPT !.ids = ids, !.chain = chain, !.invalid = winv]  OBVIOUS
    <3>6. Ahead(y, z, gap)  BY <3>1
    <3> HIDE DEF ids, chain, inv, winv, o, q, y, z
    <3>7. HasFields(o) /\ HasFields(q) /\ o.swap = y.swap /\ q.swap = z.swap
      BY <3>4, <3>5, <3>6 DEF Ahead, HasFields
    <3>8. KeepsPools(o, q) /\ q.ids = o.ids /\ q.chain = o.chain
      BY <3>4, <3>5, <3>6 DEF Ahead, HasFields, KeepsPools
    <3>9. Ahead(o, q, gap)  BY <3>6, <3>7, <3>8 DEF Ahead
    <3> QED BY <2>2, <2>7, <3>2, <3>3, <3>9 DEF Follows, Ok
  <2> QED BY <2>8, <2>9
<1> QED BY <1>1, <1>2

\* Rehearsed is the last value of such a function.
LEMMA RehearsedIsRun ==
  ASSUME NEW m, NEW bodies, NEW ticks
  PROVE  Rehearsed(m, bodies, ticks) = Rehearsal(m, bodies, ticks)[MaxIns]
BY DEF Rehearsed, Rehearsal, Rehearses, RehearsalStep

\* The function exists and unfolds.
LEMMA RehearsalUnfolds ==
  ASSUME NEW m, NEW bodies, NEW ticks
  PROVE  \A k \in 0..MaxIns :
           Rehearsal(m, bodies, ticks)[k] = RehearsalStep(m, bodies, ticks, k, Rehearsal(m, bodies, ticks)[k - 1])
<1> DEFINE Bad == {j \in 0..MaxIns : ~\E g : Rehearses(g, m, bodies, ticks, j)}
<1>1. Bad = {}
  <2>1. SUFFICES ASSUME Bad # {} PROVE FALSE  OBVIOUS
  <2>2. PICK j \in Bad : \A i \in Bad : j <= i
    <3>1. Bad \subseteq Nat  OBVIOUS
    <3> HIDE DEF Bad
    <3> QED BY <2>1, <3>1, LeastNatural
  <2>3. \A a, b : RehearsalStep(m, bodies, ticks, 0, a) = RehearsalStep(m, bodies, ticks, 0, b)
    BY DEF RehearsalStep
  <2>4. CASE j = 0
    <3> DEFINE g == [k \in 0..0 |-> RehearsalStep(m, bodies, ticks, 0, 0)]
    <3>1. \A k \in 0..0 : g[k] = RehearsalStep(m, bodies, ticks, k, g[k - 1])  BY <2>3
    <3>2. Rehearses(g, m, bodies, ticks, 0)  BY <3>1 DEF Rehearses
    <3> QED BY <2>2, <2>4, <3>2
  <2>5. CASE j # 0
    <3>1. j - 1 \in 0..MaxIns /\ j - 1 \notin Bad  BY <2>2, <2>5, BoundsAssumption
    <3>2. PICK g : Rehearses(g, m, bodies, ticks, j - 1)  BY <3>1
    <3> DEFINE f == [k \in 0..j |-> IF k = j THEN RehearsalStep(m, bodies, ticks, j, g[j - 1]) ELSE g[k]]
    <3>3. \A k \in 0..(j - 1) : g[k] = RehearsalStep(m, bodies, ticks, k, g[k - 1])
      BY <3>2 DEF Rehearses
    <3>4. \A k \in 1..j : f[k - 1] = g[k - 1]  BY <2>2
    <3>5. \A k \in 0..j : f[k] = RehearsalStep(m, bodies, ticks, k, f[k - 1])
      <4> TAKE k \in 0..j
      <4>1. CASE k = j  BY <2>2, <2>5, <3>4, <4>1
      <4>2. CASE k # j
        <5>1. k \in 0..(j - 1) /\ f[k] = g[k]  BY <2>2, <4>2
        <5>2. f[k] = RehearsalStep(m, bodies, ticks, k, g[k - 1])  BY <3>3, <5>1
        <5>3. CASE k = 0  BY <2>3, <5>2, <5>3
        <5>4. CASE k # 0
          <6>1. k \in 1..j  BY <5>4
          <6> QED BY <3>4, <5>2, <6>1
        <5> QED BY <5>3, <5>4
      <4> QED BY <4>1, <4>2
    <3>6. Rehearses(f, m, bodies, ticks, j)  BY <3>5 DEF Rehearses
    <3> QED BY <2>2, <3>6
  <2> QED BY <2>4, <2>5
<1>2. \E g : Rehearses(g, m, bodies, ticks, MaxIns)  BY <1>1, BoundsAssumption
<1>3. Rehearses(Rehearsal(m, bodies, ticks), m, bodies, ticks, MaxIns)  BY <1>2 DEF Rehearsal
<1> DEFINE G == Rehearsal(m, bodies, ticks)
<1>4. G = [k \in 0..MaxIns |-> RehearsalStep(m, bodies, ticks, k, G[k - 1])]  BY <1>3 DEF Rehearses
<1> HIDE DEF G
<1>5. \A k \in 0..MaxIns : G[k] = RehearsalStep(m, bodies, ticks, k, G[k - 1])  BY <1>4
<1> QED BY <1>5 DEF G

\* A commit that passes its rehearsal passes it on a richer module, while more
\* commits wait.
LEMMA RehearsalFollows ==
  ASSUME NEW m \in Modules, PoolsSound(m), NEW n, NEW gap, Ahead(m, n, gap), NEW bodies, NEW more,
         NEW ticks, bodies \subseteq more,
         \A i \in bodies : CommitOf(i) \in Commits /\ PoolsDiffer(CommitOf(i)),
         NEW c \in Commits
  PROVE  LET r == Rehearsed(m, bodies, ticks)[c]
         IN  /\ Follows(r, Rehearsed(n, more, ticks)[c], gap)
             /\ r.m \in Modules /\ PoolsSound(r.m)
<1> DEFINE R == Rehearsal(m, bodies, ticks)
           S == Rehearsal(n, more, ticks)
           Good(k) == \A d \in Commits : /\ Follows(R[k][d], S[k][d], gap)
                                         /\ R[k][d].m \in Modules /\ PoolsSound(R[k][d].m)
           Bad == {k \in 0..MaxIns : ~Good(k)}
<1>1. /\ \A k \in 0..MaxIns : R[k] = RehearsalStep(m, bodies, ticks, k, R[k - 1])
      /\ \A k \in 0..MaxIns : S[k] = RehearsalStep(n, more, ticks, k, S[k - 1])
  BY RehearsalUnfolds
<1> HIDE DEF R, S
<1>2. ASSUME NEW k \in 0..MaxIns, k # 0 => Good(k - 1), NEW d \in Commits
      PROVE  /\ Follows(R[k][d], S[k][d], gap)
             /\ R[k][d].m \in Modules /\ PoolsSound(R[k][d].m)
  <2> DEFINE r == R[k - 1]
             s == S[k - 1]
             a == CommitOf(d.parent)
             None(o) == [st |-> "missing", m |-> o]
  <2>1. /\ R[k][d] = IF d.parent = NoParent \/ d.parent \in m.ids THEN Ok(m)
                     ELSE IF k = 0 \/ d.parent \notin bodies THEN None(m)
                     ELSE ProcessCommitCheck(r[a], a, ticks)
        /\ S[k][d] = IF d.parent = NoParent \/ d.parent \in m.ids THEN Ok(n)
                     ELSE IF k = 0 \/ d.parent \notin more THEN None(n)
                     ELSE ProcessCommitCheck(s[a], a, ticks)
    <3>1. n.ids = m.ids  BY DEF Ahead
    <3>2. /\ R[k] = RehearsalStep(m, bodies, ticks, k, r)
          /\ S[k] = RehearsalStep(n, more, ticks, k, s)
      BY <1>1
    <3> HIDE DEF r, s
    <3> QED BY <3>1, <3>2 DEF RehearsalStep
  <2>2. CASE d.parent = NoParent \/ d.parent \in m.ids  BY <2>1, <2>2 DEF Follows, Ok
  <2>3. CASE ~(d.parent = NoParent \/ d.parent \in m.ids) /\ (k = 0 \/ d.parent \notin bodies)
    BY <2>1, <2>3 DEF Follows
  <2>4. CASE /\ ~(d.parent = NoParent \/ d.parent \in m.ids)
             /\ ~(k = 0 \/ d.parent \notin bodies)
    <3>1. a \in Commits /\ PoolsDiffer(a) /\ d.parent \in more  BY <2>4
    <3>2. Follows(r[a], s[a], gap) /\ r[a].m \in Modules /\ PoolsSound(r[a].m)  BY <1>2, <2>4, <3>1
    <3> HIDE DEF r, s, a
    <3> QED BY <2>1, <2>4, <3>1, <3>2, CheckFollows
  <2> QED BY <2>2, <2>3, <2>4
<1>3. Bad = {}
  <2>1. SUFFICES ASSUME Bad # {} PROVE FALSE  OBVIOUS
  <2>2. PICK j \in Bad : \A i \in Bad : j <= i
    <3>1. Bad \subseteq Nat  OBVIOUS
    <3> HIDE DEF Bad
    <3> QED BY <2>1, <3>1, LeastNatural
  <2>3. j # 0 => j - 1 \in 0..MaxIns /\ j - 1 \notin Bad  BY <2>2, BoundsAssumption
  <2>4. j \in 0..MaxIns /\ (j # 0 => Good(j - 1))  BY <2>2, <2>3
  <2>5. Good(j)  BY <1>2, <2>4
  <2> QED BY <2>2, <2>5
<1>4. Good(MaxIns)  BY <1>3, BoundsAssumption
<1> QED BY <1>4, RehearsedIsRun DEF R, S

\* What results name is the same, but for the users that have more.
LEMMA MatchFollows ==
  ASSUME NEW m, NEW n, NEW gap, Ahead(m, n, gap), NEW result, NEW ticks,
         ResultMatches(m, result, ticks), DOMAIN result.swap \subseteq Users \X Ticks
  PROVE  ResultMatches(n, result, ticks) <=> \A x \in DOMAIN result.swap : gap[x[1]][x[2]] = 0
<1>1. ASSUME NEW x \in DOMAIN result.swap
      PROVE  n.swap[x[1]][x[2]] = result.swap[x] <=> gap[x[1]][x[2]] = 0
  <2>1. x[1] \in Users /\ x[2] \in Ticks /\ m.swap[x[1]][x[2]] = result.swap[x]
    BY <1>1 DEF ResultMatches
  <2>2. m.swap[x[1]][x[2]] \in Int /\ gap[x[1]][x[2]] \in Nat  BY <2>1 DEF Ahead, Balances
  <2>3. n.swap[x[1]][x[2]] = m.swap[x[1]][x[2]] + gap[x[1]][x[2]]  BY <2>1 DEF Ahead
  <2> QED BY <2>1, <2>2, <2>3
<1>2. n.pools = m.pools /\ n.lpOfPool = m.lpOfPool /\ n.res = m.res /\ n.lp = m.lp
  BY DEF Ahead, KeepsPools
<1> QED BY <1>1, <1>2 DEF ResultMatches

\* The answer to a call that was valid.
LEMMA AnswerFollows ==
  ASSUME NEW m \in Modules, PoolsSound(m), NEW n, NEW gap, Ahead(m, n, gap), NEW c \in Commits,
         PoolsDiffer(c), NEW results, NEW ticks, VerifyResults(m, c, results, ticks) = "valid",
         \A k \in DOMAIN c.data : DOMAIN results[k].swap \subseteq Users \X Ticks
  PROVE  /\ \A k \in DOMAIN c.data : \E o : ResultMatches(o, results[k], ticks)
         /\ VerifyResults(n, c, results, ticks) =
              IF \E k \in DOMAIN c.data : \E x \in DOMAIN results[k].swap : gap[x[1]][x[2]] # 0
              THEN "invalid" ELSE "valid"
<1> DEFINE e == [enabled |-> FALSE, known |-> ticks]
           R == Run(m, c, e)
           S == Run(n, c, e)
           bad == Failed(S, c, results, ticks)
           first == CHOOSE k \in bad : \A j \in bad : k <= j
           Zero0(k) == \A x \in DOMAIN results[k].swap : gap[x[1]][x[2]] = 0
<1>1. DOMAIN c.data = 1..Len(c.data) /\ Len(c.data) \in Nat  BY CommitsAssumption
<1>2. ParentOk(m, c) /\ Failed(R, c, results, ticks) = {}  BY DEF VerifyResults, Answer
<1>3. VerifyResults(n, c, results, ticks) =
        IF ~ParentOk(n, c) THEN "critical" ELSE IF bad = {} THEN "valid" ELSE Answer(S[first].st)
  BY DEF VerifyResults
<1>4. ParentOk(n, c)  BY <1>2 DEF ParentOk, Ahead
<1>5. \A k \in 0..Len(c.data) : Follows(R[k], S[k], gap)  BY RunFollows
<1> HIDE DEF e, R, S
<1>6. ASSUME NEW k \in DOMAIN c.data
      PROVE  /\ ResultMatches(R[k].m, results[k], ticks)
             /\ S[k].st = "ok" /\ (ResultMatches(S[k].m, results[k], ticks) <=> Zero0(k))
  <2>1. R[k].st = "ok" /\ ResultMatches(R[k].m, results[k], ticks)  BY <1>2 DEF Failed, Passes
  <2>2. S[k].st = "ok" /\ Ahead(R[k].m, S[k].m, gap)  BY <1>1, <1>5, <2>1 DEF Follows
  <2> QED BY <2>1, <2>2, MatchFollows
<1>7. bad = {k \in DOMAIN c.data : ~Zero0(k)}  BY <1>6 DEF Failed, Passes
<1>8. ASSUME bad # {} PROVE Answer(S[first].st) = "invalid"
  <2>1. bad \subseteq Nat /\ bad \subseteq DOMAIN c.data  BY <1>1 DEF Failed
  <2> HIDE DEF bad
  <2>2. first \in bad  BY <1>8, <2>1, LeastNatural
  <2>3. S[first].st = "ok"  BY <1>6, <2>1, <2>2
  <2> QED BY <2>3 DEF Answer
<1> QED BY <1>3, <1>4, <1>6, <1>7, <1>8

\* Richer is transitive.
LEMMA RicherTwice ==
  ASSUME NEW m, NEW n, NEW o, Richer(m, n), Richer(n, o)
  PROVE  Richer(m, o)
<1>1. HasFields(m) /\ HasFields(o) /\ KeepsPools(m, o) /\ o.ids = m.ids /\ o.chain = m.chain
  BY DEF Richer, KeepsPools
<1>2. m.swap \in Balances /\ o.swap \in Balances  BY DEF Richer
<1>3. \A u \in Users, t \in Ticks : m.swap[u][t] <= o.swap[u][t]  BY DEF Richer, Balances
<1> QED BY <1>1, <1>2, <1>3 DEF Richer

\* It holds where balances are untouched.
LEMMA SameSwapRicher ==
  ASSUME NEW m \in Modules, NEW n, HasFields(n), KeepsPools(m, n), n.ids = m.ids, n.chain = m.chain,
         n.swap = m.swap
  PROVE  Richer(m, n)
<1>1. m.swap \in Balances /\ HasFields(m)  BY ModuleHasFields DEF Modules
<1>2. \A u \in Users, t \in Ticks : m.swap[u][t] <= m.swap[u][t]  BY <1>1 DEF Balances
<1> QED BY <1>1, <1>2 DEF Richer

\* Matched approvals are credited.
LEMMA BookedRicher ==
  ASSUME ins \in Seq(Inscriptions), NEW m \in Modules, NEW events, Sound(events)
  PROVE  BookEvents(m, events) \in Modules /\ Richer(m, BookEvents(m, events))
<1> DEFINE l == Len(events)
           R == BookRun(m, events)
           T == {k \in 0..l : R[k] \in Modules /\ Richer(m, R[k])}
<1>1. l \in Nat  BY DEF Sound
<1>2. R[0] = m /\ \A k \in 1..l : R[k] = BookEvent(R[k - 1], events[k])  BY <1>1, BookRunUnfolds
<1> HIDE DEF R
<1>3. R[0] \in Modules /\ Richer(m, R[0])
  <2>1. HasFields(m) /\ KeepsPools(m, m)  BY ModuleHasFields DEF KeepsPools
  <2> QED BY <1>2, <2>1, SameSwapRicher
<1>4. ASSUME NEW o \in Modules, NEW e \in Events, e.i \in DOMAIN ins
      PROVE  BookEvent(o, e) \in Modules /\ Richer(o, BookEvent(o, e))
  <2> DEFINE n == BookEvent(o, e)
  <2>1. ins[e.i] \in Inscriptions /\ e.amt \in Nat  BY <1>4 DEF Events
  <2>2. /\ n \in Modules /\ KeepsPools(o, n) /\ KeepsChain(o, n)
        /\ \A u \in Users, t \in Ticks :
             n.swap[u][t] = o.swap[u][t] + (IF u = e.to /\ t = ins[e.i].tick THEN e.amt ELSE 0)
    BY <2>1, BookEventFields
  <2> HIDE DEF n
  <2>3. HasFields(o) /\ HasFields(n) /\ o.swap \in Balances /\ n.swap \in Balances
    BY <2>2, ModuleHasFields DEF Modules
  <2>4. \A u \in Users, t \in Ticks : o.swap[u][t] <= n.swap[u][t]  BY <2>1, <2>2, <2>3 DEF Balances
  <2>5. Richer(o, n)  BY <2>2, <2>3, <2>4 DEF Richer, KeepsChain
  <2> QED BY <2>2, <2>5 DEF n
<1>5. ASSUME NEW j \in 1..l, R[j - 1] \in Modules, Richer(m, R[j - 1])
      PROVE  R[j] \in Modules /\ Richer(m, R[j])
  <2>1. events[j] \in Events /\ events[j].i \in DOMAIN ins  BY DEF Sound
  <2>2. R[j] \in Modules /\ Richer(R[j - 1], R[j])  BY <1>2, <1>4, <1>5, <2>1
  <2> QED BY <1>5, <2>2, RicherTwice
<1>6. l \in T
  <2>1. l \in Nat /\ 0 \in T /\ \A j \in 1..l : j - 1 \in T => j \in T  BY <1>1, <1>3, <1>5
  <2> HIDE DEF l, T
  <2> QED BY <2>1, UpTo
<1> QED BY <1>6, BookEventsIsRun DEF R

\* A deposit, or an approval that reaches its receiver.
LEMMA CreditRicher ==
  ASSUME NEW m \in Modules, NEW n \in Modules, KeepsPools(m, n), KeepsChain(m, n),
         NEW u \in Users, NEW t \in Ticks, NEW a \in Nat, n.swap = [m.swap EXCEPT ![u][t] = @ + a]
  PROVE  Richer(m, n)
<1>1. HasFields(m) /\ HasFields(n) /\ m.swap \in Balances /\ n.swap \in Balances
  BY ModuleHasFields DEF Modules
<1>2. \A v \in Users, s \in Ticks : m.swap[v][s] <= n.swap[v][s]  BY <1>1 DEF Balances
<1> QED BY <1>1, <1>2 DEF Richer, KeepsChain

\* A transfer that moves makes the module richer.
LEMMA MoveTransferRicher ==
  ASSUME LedgerInv, NEW i \in DOMAIN ins, NEW to \in Dests, MoveTransfer(i, to), mod' \in Modules
  PROVE  Richer(mod, mod')
<1> DEFINE x == ins[i]
           events == Settled(i, to)
           paid == BookEvents(mod, events)
           o == x.owner
           t == x.tick
           a == x.amt
<1>1. Typed /\ TxSound  BY InvNow
<1>2. Inscribed(ins) /\ ins \in Seq(Inscriptions) /\ mod \in Modules /\ to \in Users
  BY <1>1, ScriptsAssumption DEF Typed, Inscribed
<1>3. x \in Inscriptions  BY <1>2, PendingFacts
<1>4. o \in Users /\ t \in Ticks /\ a \in Nat  BY <1>3 DEF Inscriptions
<1>5. ASSUME mod' = mod PROVE Richer(mod, mod')
  <2>1. KeepsPools(mod, mod)  BY DEF KeepsPools
  <2> QED BY <1>2, <1>5, <2>1, ModuleHasFields, SameSwapRicher
<1>6. CASE ~x.valid  BY <1>5, <1>6 DEF MoveTransfer
<1>7. CASE x.valid
  <2>1. mod' = IF Deposits(i, to) THEN [paid EXCEPT !.swap[o][t] = @ + a, !.dep[t] = @ + a]
               ELSE paid
    BY <1>7, TransferBooks
  <2>2. Sound(events)  BY <1>1, <1>2, TransferSettles
  <2> HIDE DEF events
  <2>3. paid \in Modules /\ Richer(mod, paid)  BY <1>2, <2>2, BookedRicher
  <2> HIDE DEF paid
  <2>4. CASE Deposits(i, to)
    <3> DEFINE swap == [paid.swap EXCEPT ![o][t] = @ + a]
               dep == [paid.dep EXCEPT ![t] = @ + a]
    <3>1. mod' = [paid EXCEPT !.swap = swap, !.dep = dep]  BY <2>1, <2>4
    <3> HIDE DEF o, t, a, swap, dep
    <3>2. mod'.swap = swap /\ KeepsPools(paid, mod') /\ KeepsChain(paid, mod')
      BY <2>3, <3>1 DEF KeepsPools, KeepsChain, Modules
    <3>3. Richer(paid, mod')  BY <1>4, <2>3, <3>2, CreditRicher DEF swap
    <3> QED BY <2>3, <3>3, RicherTwice
  <2>5. CASE ~Deposits(i, to)  BY <2>1, <2>3, <2>5
  <2> QED BY <2>4, <2>5
<1> QED BY <1>6, <1>7

\* A conditional approval that moves does.
LEMMA MoveConditionalRicher ==
  ASSUME LedgerInv, NEW i \in DOMAIN ins, NEW to \in Dests, MoveConditionalApprove(i, to)
  PROVE  Richer(mod, mod')
<1> DEFINE x == ins[i]
           events == Charged(i, to)
<1>1. Typed /\ TxSound /\ MatchSound /\ ValidIsPending  BY InvNow
<1>2. Inscribed(ins) /\ ins \in Seq(Inscriptions) /\ mod \in Modules  BY <1>1 DEF Typed, Inscribed
<1>3. x.kind = "cond" /\ x.valid /\ mod' = BookEvents(mod, events)  BY ConditionalBooks
<1>4. x.pending  BY <1>1, <1>3 DEF ValidIsPending
<1>5. Sound(events)  BY <1>1, <1>2, <1>3, <1>4, ConditionalCharges
<1> HIDE DEF events
<1> QED BY <1>2, <1>3, <1>5, BookedRicher

\* An approval that moves does.
LEMMA MoveApproveRicher ==
  ASSUME LedgerInv, NEW i \in DOMAIN ins, NEW to \in Dests, MoveApprove(i, to), mod' \in Modules
  PROVE  Richer(mod, mod')
<1> DEFINE x == ins[i]
           o == x.owner
           t == x.tick
           a == x.amt
           swap == [mod.swap EXCEPT ![to][t] = @ + a]
           appr == [mod.appr EXCEPT ![o][t] = @ - a]
<1>1. Inscribed(ins) /\ mod \in Modules /\ to \in Users
  BY InvNow, ScriptsAssumption DEF Typed, Inscribed
<1>2. x \in Inscriptions  BY <1>1, PendingFacts
<1>3. t \in Ticks /\ a \in Nat  BY <1>2 DEF Inscriptions
<1>4. mod' = mod \/ mod' = [mod EXCEPT !.appr = appr, !.swap = swap]  BY DEF MoveApprove
<1> HIDE DEF o, t, a, appr, swap
<1>5. CASE mod' = mod
  <2>1. KeepsPools(mod, mod)  BY DEF KeepsPools
  <2> QED BY <1>1, <1>5, <2>1, ModuleHasFields, SameSwapRicher
<1>6. CASE mod' = [mod EXCEPT !.appr = appr, !.swap = swap]
  <2>1. mod'.swap = swap /\ KeepsPools(mod, mod') /\ KeepsChain(mod, mod')
    BY <1>1, <1>6 DEF KeepsPools, KeepsChain, Modules
  <2> QED BY <1>1, <1>3, <2>1, CreditRicher DEF swap
<1> QED BY <1>4, <1>5, <1>6

\* Inscriptions leave the balances of the module alone.
LEMMA InscribeRicher ==
  ASSUME LedgerInv, NEW u, NEW t, NEW amt,
         \/ InscribeTransfer(u, t, amt) \/ InscribeApprove(u, t, amt)
         \/ InscribeConditionalApprove(u, t, amt) \/ InscribeWithdraw(u, t, amt)
         \/ \E c \in Commits : InscribeCommit(c, u),
         mod' \in Modules
  PROVE  Richer(mod, mod')
<1>1. mod \in Modules  BY DEF LedgerInv, Typed
<1>2. \/ mod' = mod
      \/ \E a, b, c : mod' = [mod EXCEPT !.avail = a, !.appr = b]
                      \/ mod' = [mod EXCEPT !.avail = a, !.cond = b, !.newAppr = c]
                      \/ mod' = [mod EXCEPT !.ready = a]
                      \/ mod' = [mod EXCEPT !.invalid = a]
  <2>1. CASE InscribeTransfer(u, t, amt)  BY <2>1 DEF InscribeTransfer
  <2>2. CASE InscribeApprove(u, t, amt)  BY <2>2 DEF InscribeApprove, ApprovedFrom
  <2>3. CASE InscribeConditionalApprove(u, t, amt)  BY <2>3 DEF InscribeConditionalApprove
  <2>4. CASE InscribeWithdraw(u, t, amt)  BY <2>4 DEF InscribeWithdraw
  <2>5. CASE \E c \in Commits : InscribeCommit(c, u)  BY <2>5 DEF InscribeCommit
  <2> QED BY <2>1, <2>2, <2>3, <2>4, <2>5
<1>3. mod'.swap = mod.swap /\ KeepsPools(mod, mod') /\ mod'.ids = mod.ids /\ mod'.chain = mod.chain
  BY <1>1, <1>2 DEF KeepsPools, Modules
<1> QED BY <1>1, <1>3, ModuleHasFields, SameSwapRicher

\* The commits that wait still wait when no commit moves.
LEMMA WaitingStay ==
  ASSUME DOMAIN ins \subseteq DOMAIN ins',
         \A j \in DOMAIN ins : /\ ins'[j].kind = ins[j].kind /\ ins'[j].valid = ins[j].valid
                               /\ ins'[j].c = ins[j].c
                               /\ ins[j].kind = "commit" => ins'[j].moves = ins[j].moves
  PROVE  WaitingIds \subseteq WaitingIds'
<1> SUFFICES ASSUME NEW i \in DOMAIN ins, ins[i].kind = "commit", ins[i].valid, ins[i].moves = 0
             PROVE  ins[i].c \in WaitingIds'
  BY DEF WaitingIds
<1>1. i \in DOMAIN ins' /\ ins'[i].kind = "commit" /\ ins'[i].valid /\ ins'[i].moves = 0
  OBVIOUS
<1>2. ins'[i].c = ins[i].c  OBVIOUS
<1> QED BY <1>1, <1>2 DEF WaitingIds

\* Every step enriches the copy unless it moves a commit.
LEMMA StepEnriches ==
  ASSUME LedgerInv, [Next]_vars
  PROVE  Enriched \/ \E i \in DOMAIN ins, to \in Dests : MoveCommit(i, to)
<1>1. Inscribed(ins) /\ ins \in Seq(Inscriptions) /\ mod \in Modules
  BY DEF LedgerInv, Typed, Inscribed
<1>2. mod' \in Modules  BY NextKeepsInv DEF LedgerInv, Typed
<1>3. ASSUME Quiet PROVE WaitingIds \subseteq WaitingIds'
  BY <1>3, WaitingStay DEF Quiet, CommitsStay
<1>4. ASSUME UNCHANGED <<ins, mod>>, deployed \subseteq deployed', created => created'
      PROVE  Enriched
  <2>1. KeepsPools(mod, mod)  BY DEF KeepsPools
  <2>2. Richer(mod, mod')  BY <1>1, <1>4, <2>1, ModuleHasFields, SameSwapRicher
  <2>3. WaitingIds \subseteq WaitingIds'  BY <1>3, <1>4, NothingQuiet
  <2> QED BY <1>4, <2>2, <2>3 DEF Enriched
<1>5. ASSUME NEW t \in Ticks, NEW u \in Inscribers, Deploy(t, u)
      PROVE  Enriched
  BY <1>4, <1>5 DEF Deploy
<1>6. ASSUME NEW t \in Ticks, NEW u \in Inscribers, NEW a \in Amounts, Mint(t, u, a)
      PROVE  Enriched
  BY <1>4, <1>6 DEF Mint
<1>7. CASE CreateModule  BY <1>4, <1>7 DEF CreateModule, tick
<1>8. ASSUME NEW i \in DOMAIN ins, MoveWithdraw(i)
      PROVE  Enriched
  BY <1>4, <1>8 DEF MoveWithdraw, tick
<1>9. CASE NextTx  BY <1>4, <1>9 DEF NextTx, tick
<1>10. CASE EndBlock  BY <1>4, <1>10 DEF EndBlock, tick
<1>11. CASE UNCHANGED vars  BY <1>4, <1>11 DEF vars, tick
<1>12. ASSUME NEW t \in Ticks, NEW u \in Inscribers, NEW a \in Amounts,
              \/ InscribeTransfer(u, t, a) \/ InscribeApprove(u, t, a)
              \/ InscribeConditionalApprove(u, t, a) \/ InscribeWithdraw(u, t, a)
       PROVE  Enriched
  <2>1. deployed' = deployed /\ created' = created
    BY <1>12 DEF InscribeTransfer, InscribeApprove, InscribeConditionalApprove, InscribeWithdraw, tick
  <2>2. WaitingIds \subseteq WaitingIds'  BY <1>1, <1>3, <1>12, InscribeQuiet
  <2>3. Richer(mod, mod')  BY <1>2, <1>12, InscribeRicher
  <2> QED BY <2>1, <2>2, <2>3 DEF Enriched
<1>13. ASSUME NEW i \in DOMAIN ins, NEW to \in Dests,
              MoveTransfer(i, to) \/ MoveApprove(i, to) \/ MoveConditionalApprove(i, to)
       PROVE  Enriched
  <2>1. deployed' = deployed /\ created' = created
    BY <1>13 DEF MoveTransfer, MoveApprove, MoveConditionalApprove, tick
  <2>2. WaitingIds \subseteq WaitingIds'
    BY <1>1, <1>3, <1>13, MoveTransferQuiet, MoveApproveQuiet, MoveConditionalQuiet
  <2>3. Richer(mod, mod')
    BY <1>2, <1>13, MoveTransferRicher, MoveApproveRicher, MoveConditionalRicher
  <2> QED BY <2>1, <2>2, <2>3 DEF Enriched
<1>14. ASSUME NEW c \in Commits, NEW u \in Inscribers, InscribeCommit(c, u)
       PROVE  Enriched
  <2>1. deployed' = deployed /\ created' = created /\ \E z : ins' = Append(ins, z)
    BY <1>14 DEF InscribeCommit, tick
  <2>2. DOMAIN ins \subseteq DOMAIN ins' /\ \A j \in DOMAIN ins : ins'[j] = ins[j]  BY <1>1, <2>1
  <2>3. WaitingIds \subseteq WaitingIds'  BY <2>2, WaitingStay
  <2>4. Richer(mod, mod')  BY <1>2, <1>14, InscribeRicher
  <2> QED BY <2>1, <2>3, <2>4 DEF Enriched
<1> QED  BY <1>5, <1>6, <1>7, <1>8, <1>9, <1>10, <1>11, <1>12, <1>13, <1>14 DEF Next

\* The move of a commit is counted.
LEMMA CommitMoves ==
  ASSUME LedgerInv, NEW i \in DOMAIN ins, NEW to \in Dests, MoveCommit(i, to)
  PROVE  ins[i].kind = "commit" /\ ins'[i].moves # ins[i].moves
<1>1. ins \in Seq(Inscriptions) /\ ins[i] \in Inscriptions  BY DEF LedgerInv, Typed
<1>2. ins[i].kind = "commit" /\ ins[i].moves = 0 /\ ins' = [ins EXCEPT ![i].moves = 1]
  BY DEF MoveCommit, Moves
<1>3. ins'[i].moves = 1  BY <1>1, <1>2 DEF Inscriptions
<1> QED BY <1>2, <1>3

\* A call that the service answered with valid, from a copy that lost nothing.
LEMMA VerifiedAgain ==
  ASSUME LedgerInv, Enriched, NEW c \in Commits, NEW given \in SUBSET Bodies, NEW results,
         DOMAIN results = DOMAIN c.data,
         \A k \in DOMAIN c.data : DOMAIN results[k].swap \subseteq Users \X Ticks,
         VerifySwapCommitContent(Copy, c, given, results) = "valid"
  PROVE  VerifySwapCommitContent(Copy', c, given, results) =
           IF \E k \in DOMAIN c.data : \E x \in DOMAIN results[k].swap :
                mod'.swap[x[1]][x[2]] # mod.swap[x[1]][x[2]]
           THEN "invalid" ELSE "valid"
<1> DEFINE g == Copy
           h == Copy'
           n == mod'
           w == WaitingIds \cup given
           v == WaitingIds' \cup given
           gap == [u \in Users |-> [t \in Ticks |-> n.swap[u][t] - mod.swap[u][t]]]
           ticks == PickedFor(g, results)
           r == Rehearsed(mod, w, ticks)[c]
           s == Rehearsed(n, v, ticks)[c]
<1>1. /\ g.ticks = deployed /\ g.created = created /\ g.mod = mod /\ g.waiting = WaitingIds
      /\ h.ticks = deployed' /\ h.created = created' /\ h.mod = n /\ h.waiting = WaitingIds'
  BY DEF Copy
<1> HIDE DEF g, h
<1>2. VerifySwapCommitContent(g, c, given, results) = "valid"  BY DEF g
<1>3. /\ Len(results) = Len(c.data) /\ created /\ PreVerified(c, FALSE, ticks)
      /\ r.st = "ok" /\ VerifyResults(r.m, c, results, ticks) = "valid"
  BY <1>1, <1>2 DEF VerifySwapCommitContent, Answer
<1>4. PoolsDiffer(c)
  <2>1. DOMAIN c.data = 1..Len(c.data)  BY CommitsAssumption
  <2> QED BY <1>3, <2>1 DEF PreVerified, PreVerifiedFunction, PoolsDiffer
<1>5. ASSUME NEW i \in w
      PROVE  CommitOf(i) \in Commits /\ PoolsDiffer(CommitOf(i))
  <2>1. CASE i \in given
    <3>1. PICK d \in Commits : d.id = i /\ PoolsDiffer(d)  BY <2>1 DEF Bodies
    <3> QED BY <3>1, CommitFound
  <2>2. CASE i \in WaitingIds
    <3>1. PICK j \in DOMAIN ins : ins[j].kind = "commit" /\ ins[j].valid /\ ins[j].c = i
      BY <2>2 DEF WaitingIds
    <3>2. i \in CommitIds /\ PoolsDiffer(CommitOf(i))  BY <3>1 DEF LedgerInv, ValidCommits
    <3>3. PICK d \in Commits : d.id = i  BY <3>2 DEF CommitIds
    <3> QED BY <3>2, <3>3, CommitFound
  <2> QED BY <2>1, <2>2
<1>6. w \subseteq v /\ deployed \subseteq deployed' /\ created'  BY <1>3 DEF Enriched
<1>7. Ahead(mod, n, gap)
  <2>1. Richer(mod, n)  BY DEF Enriched
  <2> HIDE DEF n
  <2>2. gap \in [Users -> [Ticks -> Nat]]  BY <2>1 DEF Richer, Balances
  <2>3. \A u \in Users, t \in Ticks : n.swap[u][t] = mod.swap[u][t] + gap[u][t]
    BY <2>1 DEF Richer, Balances
  <2> QED BY <2>1, <2>2, <2>3 DEF Richer, Ahead
<1>8. mod \in Modules /\ PoolsSound(mod)  BY DEF LedgerInv, Typed
<1> HIDE DEF w, v, ticks
<1>9. Follows(r, s, gap) /\ r.m \in Modules /\ PoolsSound(r.m)
  <2> HIDE DEF n, gap
  <2> QED BY <1>5, <1>6, <1>7, <1>8, RehearsalFollows
<1> HIDE DEF r, s, gap
<1>10. s.st = "ok" /\ Ahead(r.m, s.m, gap)  BY <1>3, <1>9 DEF Follows
<1>11. /\ \A k \in DOMAIN c.data : \E o : ResultMatches(o, results[k], ticks)
       /\ VerifyResults(s.m, c, results, ticks) =
            IF \E k \in DOMAIN c.data : \E x \in DOMAIN results[k].swap : gap[x[1]][x[2]] # 0
            THEN "invalid" ELSE "valid"
  BY <1>3, <1>4, <1>9, <1>10, AnswerFollows
<1>12. PickedFor(h, results) = ticks
  <2>1. GasTick \in deployed  BY <1>1, <1>3 DEF PreVerified, PickedFor, ticks
  <2>2. NamedTicks(results) \subseteq ticks
    <3>1. ASSUME NEW k \in DOMAIN results
          PROVE  /\ \A x \in DOMAIN results[k].swap : x[2] \in ticks
                 /\ \A p \in DOMAIN results[k].pools : p \subseteq ticks
      BY <1>11, <3>1 DEF ResultMatches
    <3> QED BY <3>1 DEF NamedTicks
  <2>3. ticks \subseteq deployed  BY <1>1 DEF PickedFor, ticks
  <2> QED BY <1>1, <1>6, <2>1, <2>2, <2>3 DEF PickedFor, ticks
<1>13. VerifySwapCommitContent(h, c, given, results) = VerifyResults(s.m, c, results, ticks)
  <2>1. s = Rehearsed(h.mod, h.waiting \cup given, ticks)[c]  BY <1>1 DEF s, v
  <2> QED BY <1>1, <1>3, <1>6, <1>10, <1>12, <2>1 DEF VerifySwapCommitContent
<1>14. ASSUME NEW k \in DOMAIN c.data, NEW x \in DOMAIN results[k].swap
       PROVE  gap[x[1]][x[2]] # 0 <=> n.swap[x[1]][x[2]] # mod.swap[x[1]][x[2]]
  <2>1. x[1] \in Users /\ x[2] \in Ticks  BY <1>14
  <2> HIDE DEF n
  <2>2. mod.swap[x[1]][x[2]] \in Int /\ gap[x[1]][x[2]] \in Nat  BY <1>7, <2>1 DEF Ahead, Balances
  <2>3. n.swap[x[1]][x[2]] = mod.swap[x[1]][x[2]] + gap[x[1]][x[2]]  BY <1>7, <2>1 DEF Ahead
  <2> QED BY <2>2, <2>3
<1> QED BY <1>11, <1>13, <1>14 DEF h

\* While no commit moves, a call that was answered with valid never becomes
\* critical, and becomes invalid exactly when a swap balance that it names was
\* credited: the module a commit is rehearsed on only gets richer, by what a run
\* of the commit keeps, and the ancestors it needs still wait.
THEOREM SpecVerifiedStaysGood == Spec => VerifiedStaysGood
<1> DEFINE Call(c, given, n) ==
             LET results == ResultsOn(Copy, c, given, n) IN
             VerifySwapCommitContent(Copy, c, given, results) = "valid" =>
               VerifySwapCommitContent(Copy', c, given, results)
                 = IF Credited(c, n) THEN "invalid" ELSE "valid"
           A == Copy' # Copy /\ (\A i \in DOMAIN ins :
                                   ins[i].kind = "commit" => ins'[i].moves = ins[i].moves) =>
                  \A c \in Commits, given \in SUBSET Bodies, n \in Names : Call(c, given, n)
<1>1. LedgerInv /\ [Next]_vars => [A]_vars
  <2> SUFFICES ASSUME LedgerInv, [Next]_vars,
                      \A i \in DOMAIN ins : ins[i].kind = "commit" => ins'[i].moves = ins[i].moves,
                      NEW c \in Commits, NEW given \in SUBSET Bodies, NEW n \in Names
               PROVE  Call(c, given, n)
    OBVIOUS
  <2> DEFINE results == ResultsOn(Copy, c, given, n)
  <2>1. Enriched  BY StepEnriches, CommitMoves
  <2>2. /\ DOMAIN results = DOMAIN c.data
        /\ \A k \in DOMAIN c.data : DOMAIN results[k].swap = n[k].users
    BY DEF ResultsOn, Read
  <2> HIDE DEF results
  <2>3. \A k \in DOMAIN c.data : DOMAIN results[k].swap \subseteq Users \X Ticks
    BY <2>2, NamesAssumption
  <2>4. VerifySwapCommitContent(Copy, c, given, results) = "valid" =>
          VerifySwapCommitContent(Copy', c, given, results)
            = IF Credited(c, n) THEN "invalid" ELSE "valid"
    <3> DEFINE More == \E k \in DOMAIN c.data : \E x \in DOMAIN results[k].swap :
                         mod'.swap[x[1]][x[2]] # mod.swap[x[1]][x[2]]
    <3>1. HAVE VerifySwapCommitContent(Copy, c, given, results) = "valid"
    <3>2. VerifySwapCommitContent(Copy', c, given, results) = IF More THEN "invalid" ELSE "valid"
      BY <2>1, <2>2, <2>3, <3>1, VerifiedAgain
    <3>3. More <=> Credited(c, n)  BY <2>2 DEF Credited
    <3> QED BY <3>2, <3>3
  <2> QED BY <2>4 DEF results
<1>2. VerifiedStaysGood <=> [][A]_vars  BY PTL DEF VerifiedStaysGood
<1> QED BY <1>1, <1>2, SpecLedgerInv, PTL DEF Spec

-----------------------------------------------------------------------------
\* The LP of the pools.

\* What is held is a number.
LEMMA HeldLpInt ==
  ASSUME NEW m, LpMaps(m), NEW p \in Pairs
  PROVE  HeldLp(m, p) \in Int
<1> DEFINE f == [u \in Users |-> m.lpOfPool[p][u]]
<1>1. \A u \in Users : f[u] \in Int  BY DEF LpMaps
<1>2. IsFiniteSet(Users)  BY ScriptsAssumption
<1> HIDE DEF f
<1>3. SumFunctionOnSet(f, Users) \in Int  BY <1>1, <1>2, SumInt
<1> QED BY <1>3 DEF HeldLp, f

\* Nothing is missing.
LEMMA LpButNothing ==
  ASSUME NEW m, NEW p \in Pairs
  PROVE  LpSound(m) <=> LpBut(m, p, 0)
<1>1. LpMaps(m) => \A q \in Pairs : HeldLp(m, q) + (IF q = p THEN 0 ELSE 0) = HeldLp(m, q)
  BY HeldLpInt
<1> QED BY <1>1 DEF LpSound, LpBut

\* A change of anything else.
LEMMA LpButStays ==
  ASSUME NEW m, NEW n, KeepsLp(m, n), NEW p, NEW d, LpBut(m, p, d)
  PROVE  LpBut(n, p, d)
<1>1. \A q \in Pairs : HeldLp(n, q) = HeldLp(m, q)  BY DEF HeldLp, KeepsLp
<1> QED BY <1>1 DEF LpBut, LpMaps, KeepsLp

\* The same, when nothing is missing.
LEMMA LpStays ==
  ASSUME NEW m, NEW n, KeepsLp(m, n), LpSound(m)
  PROVE  LpSound(n)
<1>1. \A q \in Pairs : HeldLp(n, q) = HeldLp(m, q)  BY DEF HeldLp, KeepsLp
<1> QED BY <1>1 DEF LpSound, LpMaps, KeepsLp

\* LP is added to the pool, and missing.
LEMMA AddLpIssues ==
  ASSUME NEW m, NEW p \in Pairs, NEW d \in Int, LpBut(m, p, d), NEW x \in Int
  PROVE  LpBut([m EXCEPT !.lp[p] = @ + x], p, d + x)
<1> DEFINE lp == [m.lp EXCEPT ![p] = @ + x]
           n == [m EXCEPT !.lp = lp]
<1>1. m.lp \in [Pairs -> Int] /\ HasFields(m) /\ LpMaps(m)  BY DEF LpBut, LpMaps
<1>2. lp \in [Pairs -> Int] /\ \A q \in Pairs : lp[q] = m.lp[q] + (IF q = p THEN x ELSE 0)  BY <1>1
<1> HIDE DEF lp
<1>3. HasFields(n) /\ n.lp = lp /\ n.lpOfPool = m.lpOfPool /\ n.lpOfUser = m.lpOfUser
  BY <1>1 DEF HasFields
<1> HIDE DEF n
<1>4. LpMaps(n)  BY <1>1, <1>2, <1>3 DEF LpMaps
<1>5. ASSUME NEW q \in Pairs
      PROVE  n.lp[q] = HeldLp(n, q) + (IF q = p THEN d + x ELSE 0)
  <2>1. HeldLp(n, q) = HeldLp(m, q) /\ HeldLp(m, q) \in Int  BY <1>1, <1>3, HeldLpInt DEF HeldLp
  <2>2. m.lp[q] = HeldLp(m, q) + (IF q = p THEN d ELSE 0)  BY DEF LpBut
  <2>3. n.lp[q] = m.lp[q] + (IF q = p THEN x ELSE 0)  BY <1>2, <1>3
  <2> QED BY <2>1, <2>2, <2>3
<1>6. LpBut(n, p, d + x)  BY <1>4, <1>5 DEF LpBut
<1> QED BY <1>6 DEF n, lp

\* A holder's balance changes by x in both maps.
LEMMA HolderChanges ==
  ASSUME NEW m, NEW n, NEW p \in Pairs, NEW u \in Users, NEW d \in Int, LpBut(m, p, d),
         NEW b \in Nat, NEW x \in Int, b = m.lpOfPool[p][u] + x,
         HasFields(n), n.lp = m.lp, n.lpOfPool = [m.lpOfPool EXCEPT ![p][u] = b],
         n.lpOfUser = [m.lpOfUser EXCEPT ![u][p] = b]
  PROVE  LpBut(n, p, d - x)
<1>1. /\ m.lp \in [Pairs -> Int] /\ m.lpOfPool \in [Pairs -> [Users -> Nat]]
      /\ m.lpOfUser \in [Users -> [Pairs -> Nat]]
      /\ \A q \in Pairs, v \in Users : m.lpOfPool[q][v] = m.lpOfUser[v][q]
      /\ LpMaps(m)
  BY DEF LpBut, LpMaps
<1>2. n.lpOfPool \in [Pairs -> [Users -> Nat]] /\ n.lpOfUser \in [Users -> [Pairs -> Nat]]  BY <1>1
<1>3. ASSUME NEW q \in Pairs, NEW v \in Users
      PROVE  /\ n.lpOfPool[q][v] = IF q = p /\ v = u THEN b ELSE m.lpOfPool[q][v]
             /\ n.lpOfUser[v][q] = IF q = p /\ v = u THEN b ELSE m.lpOfUser[v][q]
  BY <1>1
<1>4. LpMaps(n)  BY <1>1, <1>2, <1>3 DEF LpMaps
<1>5. ASSUME NEW q \in Pairs
      PROVE  n.lp[q] = HeldLp(n, q) + (IF q = p THEN d - x ELSE 0)
  <2> DEFINE f == [v \in Users |-> m.lpOfPool[q][v]]
             g == [v \in Users |-> n.lpOfPool[q][v]]
             y == IF q = p THEN x ELSE 0
  <2>1. y \in Int /\ IsFiniteSet(Users)  BY ScriptsAssumption
  <2>2. \A v \in Users : f[v] \in Int /\ g[v] = f[v] + (IF v = u THEN y ELSE 0)  BY <1>1, <1>3
  <2>3. m.lp[q] = HeldLp(m, q) + (IF q = p THEN d ELSE 0)  BY DEF LpBut
  <2>4. HeldLp(m, q) = SumFunctionOnSet(f, Users) /\ HeldLp(n, q) = SumFunctionOnSet(g, Users)
    BY DEF HeldLp
  <2> HIDE DEF f, g
  <2>5. SumFunctionOnSet(f, Users) \in Int /\ SumFunctionOnSet(g, Users) = SumFunctionOnSet(f, Users) + y
    <3>1. Adds(Users, f, g, u, y)  BY <2>1, <2>2 DEF Adds
    <3> QED BY <3>1, SumAdds
  <2> QED BY <2>3, <2>4, <2>5
<1> QED BY <1>4, <1>5 DEF LpBut

\* LP is credited, and no longer missing.
LEMMA CreditLpHeld ==
  ASSUME NEW m, NEW p \in Pairs, NEW u \in Users, NEW d \in Int, LpBut(m, p, d),
         NEW x \in Int, m.lpOfPool[p][u] + x >= 0
  PROVE  LpBut(CreditLp(m, p, u, x), p, d - x)
<1> DEFINE b == m.lpOfPool[p][u] + x
           ofPool == [m.lpOfPool EXCEPT ![p][u] = b]
           ofUser == [m.lpOfUser EXCEPT ![u][p] = b]
           us == m.lpUsers \cup {u}
           n == CreditLp(m, p, u, x)
<1>1. n = [m EXCEPT !.lpOfPool = ofPool, !.lpOfUser = ofUser, !.lpUsers = us]  BY DEF CreditLp
<1>2. b \in Nat /\ HasFields(m)  BY DEF LpBut, LpMaps
<1> HIDE DEF ofPool, ofUser, us, n
<1>3. HasFields(n) /\ n.lp = m.lp /\ n.lpOfPool = ofPool /\ n.lpOfUser = ofUser
  BY <1>1, <1>2 DEF HasFields
<1> HIDE DEF b
<1>4. /\ n.lpOfPool = [m.lpOfPool EXCEPT ![p][u] = b] /\ n.lpOfUser = [m.lpOfUser EXCEPT ![u][p] = b]
      /\ b = m.lpOfPool[p][u] + x
  BY <1>3 DEF ofPool, ofUser, b
<1>5. LpBut(n, p, d - x)  BY <1>2, <1>3, <1>4, HolderChanges
<1> QED BY <1>5 DEF n

\* Trades, transfers, pools and marks leave LP alone.
LEMMA TradeKeepsLp ==
  ASSUME NEW m, HasFields(m), NEW u, NEW p, NEW t0, NEW x0, NEW t1, NEW x1, NEW s0
  PROVE  KeepsLp(m, Trade(m, u, p, t0, x0, t1, x1, s0))
<1> DEFINE a == [m.swap EXCEPT ![u][t0] = @ - x0, ![u][t1] = @ - x1]
           r == [m.res EXCEPT ![p][s0] = @ + x0, ![p][Other(p, s0)] = @ + x1]
           n == Trade(m, u, p, t0, x0, t1, x1, s0)
<1>1. n = [m EXCEPT !.swap = a, !.res = r]  BY DEF Trade
<1> HIDE DEF a, r, n
<1>2. KeepsLp(m, n)  BY <1>1 DEF KeepsLp, HasFields
<1> QED BY <1>2 DEF n

\* A transfer within the module.
LEMMA MoveSwapKeepsLp ==
  ASSUME NEW m, HasFields(m), NEW from, NEW to, NEW t, NEW x
  PROVE  KeepsLp(m, MoveSwap(m, from, to, t, x))
<1> DEFINE a == [m.swap EXCEPT ![from][t] = @ - x]
           b == [a EXCEPT ![to][t] = @ + x]
           n == MoveSwap(m, from, to, t, x)
<1>1. n = [m EXCEPT !.swap = b]  BY DEF MoveSwap
<1> HIDE DEF a, b, n
<1>2. KeepsLp(m, n)  BY <1>1 DEF KeepsLp, HasFields
<1> QED BY <1>2 DEF n

\* The mark of the service fee.
LEMMA SetLastKKeepsLp ==
  ASSUME NEW m, HasFields(m), NEW p
  PROVE  KeepsLp(m, SetLastK(m, p))
<1> DEFINE k == [m.lastK EXCEPT ![p] = RootK(m, p)]
           n == SetLastK(m, p)
<1>1. n = [m EXCEPT !.lastK = k]  BY DEF SetLastK
<1> HIDE DEF k, n
<1>2. KeepsLp(m, n)  BY <1>1 DEF KeepsLp, HasFields
<1> QED BY <1>2 DEF n

\* Functions that only trade, transfer or deploy.
LEMMA OthersKeepLp ==
  ASSUME NEW m, HasFields(m), NEW f, NEW e, NEW price
  PROVE  /\ KeepsLp(m, DeployPool(m, f).m) /\ KeepsLp(m, Swap(m, f, e).m)
         /\ KeepsLp(m, DecreaseApproval(m, f, e).m) /\ KeepsLp(m, Send(m, f, e).m)
         /\ KeepsLp(m, GasFee(m, f, price, e).m)
<1>0. KeepsLp(m, m)  BY DEF KeepsLp
<1>1. KeepsLp(m, DeployPool(m, f).m)
  <2> DEFINE a == m.pools \cup {Pair(f)}
             b == [m.tick0 EXCEPT ![Pair(f)] = f.t0]
             n == [m EXCEPT !.pools = a, !.tick0 = b]
  <2>1. DeployPool(m, f).m = m \/ DeployPool(m, f).m = n  BY DEF DeployPool, Ok, Err
  <2> HIDE DEF a, b
  <2>2. KeepsLp(m, n)  BY DEF KeepsLp, HasFields
  <2> HIDE DEF n
  <2> QED BY <1>0, <2>1, <2>2
<1>2. KeepsLp(m, Swap(m, f, e).m)
  <2> DEFINE r == Swap(m, f, e).m
  <2>1. r = m \/ \E u, p, t0, x0, t1, x1, s0 : r = Trade(m, u, p, t0, x0, t1, x1, s0)
    <3> HIDE DEF r
    <3>1. r = m \/ \E in, out, tin, tout : r = Trade(m, f.by, Pair(f), tin, in, tout, -out, tin)
      BY DEF r, Swap, Ok, Err, Panic
    <3> QED BY <3>1
  <2> HIDE DEF r
  <2>2. KeepsLp(m, r)  BY <1>0, <2>1, TradeKeepsLp
  <2> QED BY <2>2 DEF r
<1>3. KeepsLp(m, DecreaseApproval(m, f, e).m)
  <2> DEFINE amt == CheckTickVerify(e, f.t0, f.amt)
             a == [m.swap EXCEPT ![f.by][f.t0] = @ - amt]
             b == [m.avail EXCEPT ![f.by][f.t0] = @ + amt]
             n == [m EXCEPT !.swap = a, !.avail = b]
  <2>1. DecreaseApproval(m, f, e).m = m \/ DecreaseApproval(m, f, e).m = n
    BY DEF DecreaseApproval, Ok, Err
  <2> HIDE DEF a, b
  <2>2. KeepsLp(m, n)  BY DEF KeepsLp, HasFields
  <2> HIDE DEF n
  <2> QED BY <1>0, <2>1, <2>2
<1>4. KeepsLp(m, Send(m, f, e).m)
  <2> DEFINE n == MoveSwap(m, f.by, f.to, f.t0, CheckTickVerify(e, f.t0, f.amt))
  <2>1. Send(m, f, e).m = m \/ Send(m, f, e).m = n  BY DEF Send, Ok, Err
  <2>2. KeepsLp(m, n)  BY MoveSwapKeepsLp
  <2> HIDE DEF n
  <2> QED BY <1>0, <2>1, <2>2
<1>5. KeepsLp(m, GasFee(m, f, price, e).m)
  <2> DEFINE n == MoveSwap(m, f.by, GasTo, GasTick, price * (IF e.enabled THEN 1 ELSE f.size))
  <2>1. GasFee(m, f, price, e).m = m \/ GasFee(m, f, price, e).m = n  BY DEF GasFee, Ok, Err
  <2>2. KeepsLp(m, n)  BY MoveSwapKeepsLp
  <2> HIDE DEF n
  <2> QED BY <1>0, <2>1, <2>2
<1> QED BY <1>1, <1>2, <1>3, <1>4, <1>5

\* The service fee is LP that LpFeeTo holds.
LEMMA IssueFeeLp ==
  ASSUME NEW m \in Modules, PoolsSound(m), LpSound(m), NEW p \in Pairs, ~FeePanics(m, p)
  PROVE  LpSound(IssueFee(m, p))
<1> DEFINE x == FeeLp(m, p)
           n == [m EXCEPT !.lp[p] = @ + x]
           o == CreditLp(n, p, LpFeeTo, x)
<1>1. x \in Int /\ LpFeeTo \in Users  BY FeeLpInt, AddressesAssumption
<1>2. IssueFee(m, p) = IF x <= 0 THEN m ELSE o  BY DEF IssueFee, IssueLp
<1>3. LpBut(m, p, 0)  BY LpButNothing
<1> HIDE DEF x
<1>4. LpBut(n, p, 0 + x)  BY <1>1, <1>3, AddLpIssues
<1> HIDE DEF n
<1>5. ASSUME ~(x <= 0) PROVE LpSound(o)
  <2>1. n.lpOfPool[p][LpFeeTo] \in Nat  BY <1>1, <1>4 DEF LpBut, LpMaps
  <2>2. n.lpOfPool[p][LpFeeTo] + x >= 0  BY <1>1, <1>5, <2>1
  <2>3. LpBut(n, p, x)  BY <1>1, <1>4
  <2>4. LpBut(o, p, x - x)  BY <1>1, <2>2, <2>3, CreditLpHeld
  <2>5. x - x = 0  BY <1>1
  <2> HIDE DEF o
  <2> QED BY <2>4, <2>5, LpButNothing
<1> HIDE DEF o
<1> QED BY <1>2, <1>5

\* The LP of liquidity that is taken goes to the user, but for what is locked.
LEMMA TakeLiqLp ==
  ASSUME NEW m, LpSound(m), NEW f \in SwapFunctions, Pair(f) \in Pairs,
         NEW liq, liq.lp \in Nat, NEW locked \in Nat
  PROVE  LpSound(TakeLiq(m, f, liq, locked).m)
<1> DEFINE p == Pair(f)
           x == liq.lp
           m1 == Trade(m, f.by, p, f.t0, liq.a0, f.t1, liq.a1, Side0(m, f))
           m2 == [m1 EXCEPT !.lp[p] = @ + x]
           m3 == CreditLp(m2, p, f.by, x - locked)
           m4 == IF locked > 0 THEN CreditLp(m3, p, Zero, locked) ELSE m3
           m5 == SetLastK(m4, p)
           r == TakeLiq(m, f, liq, locked).m
<1>1. r = m \/ (r = m5 /\ ~(x < locked))  BY DEF TakeLiq, Ok, Err
<1>2. CASE r = m  BY <1>2
<1>3. CASE r = m5 /\ ~(x < locked)
  <2>1. f.by \in Users /\ Zero \in Users /\ p \in Pairs /\ x \in Nat
    BY AddressesAssumption DEF SwapFunctions
  <2>2. LpBut(m, p, 0) /\ HasFields(m)  BY LpButNothing DEF LpSound, LpMaps
  <2> HIDE DEF p, x, r
  <2>3. LpBut(m1, p, 0)  BY <2>2, TradeKeepsLp, LpButStays
  <2> HIDE DEF m1
  <2>4. LpBut(m2, p, x)
    <3>1. LpBut(m2, p, 0 + x)  BY <2>1, <2>3, AddLpIssues
    <3>2. 0 + x = x  BY <2>1
    <3> QED BY <3>1, <3>2
  <2> HIDE DEF m2
  <2>5. LpBut(m3, p, locked)
    <3>1. m2.lpOfPool[p][f.by] \in Nat  BY <2>1, <2>4 DEF LpBut, LpMaps
    <3>2. m2.lpOfPool[p][f.by] + (x - locked) >= 0 /\ x - locked \in Int /\ x - (x - locked) = locked
      BY <1>3, <2>1, <3>1
    <3>3. LpBut(m3, p, x - (x - locked))  BY <2>1, <2>4, <3>2, CreditLpHeld
    <3> QED BY <3>2, <3>3
  <2> HIDE DEF m3
  <2>6. LpBut(m4, p, 0)
    <3>1. CASE locked > 0
      <4>1. m3.lpOfPool[p][Zero] \in Nat  BY <2>1, <2>5 DEF LpBut, LpMaps
      <4>2. m3.lpOfPool[p][Zero] + locked >= 0 /\ locked \in Int /\ locked - locked = 0  BY <4>1
      <4>3. LpBut(CreditLp(m3, p, Zero, locked), p, locked - locked)
        BY <2>1, <2>5, <4>2, CreditLpHeld
      <4> QED BY <3>1, <4>2, <4>3
    <3>2. CASE ~(locked > 0)
      <4>1. locked = 0  BY <3>2
      <4> QED BY <2>5, <3>2, <4>1
    <3> QED BY <3>1, <3>2
  <2> HIDE DEF m4
  <2>7. LpBut(m5, p, 0)
    <3>1. HasFields(m4)  BY <2>6 DEF LpBut, LpMaps
    <3> QED BY <2>6, <3>1, SetLastKKeepsLp, LpButStays
  <2> HIDE DEF m5
  <2>8. LpSound(r)  BY <1>3, <2>1, <2>7, LpButNothing
  <2> QED BY <2>8 DEF r
<1> QED BY <1>1, <1>2, <1>3

\* Liquidity that is added, first or later.
LEMMA AddLiquidityLp ==
  ASSUME NEW m \in Modules, PoolsSound(m), LpSound(m), NEW f \in SwapFunctions, NEW e, e.known = Ticks
  PROVE  LpSound(AddLiquidity(m, f, e).m)
<1> DEFINE p == Pair(f)
           r == AddLiquidity(m, f, e).m
           first == FirstLiq(f.a0, f.a1)
           n == IssueFee(m, p)
           liq == NextLiq(n, f, f.a0, f.a1)
<1>1. f.a0 \in Nat /\ f.a1 \in Nat /\ f.t0 \in Ticks /\ f.t1 \in Ticks  BY DEF SwapFunctions
<1>2. \/ r = m
      \/ p \in m.pools /\ r = TakeLiq(m, f, first, MinLp).m
      \/ p \in m.pools /\ ~AddLiqPanics(m, f) /\ r = TakeLiq(n, f, liq, 0).m
  BY <1>1 DEF AddLiquidity, CheckTickVerify, PoolFound, TakeNextLiq, Ok, Err, Panic
<1>3. p \in m.pools => p \in Pairs  BY DEF Modules
<1>4. CASE r = m  BY <1>4
<1>5. CASE p \in m.pools /\ r = TakeLiq(m, f, first, MinLp).m
  <2>1. first.lp \in Nat /\ MinLp \in Nat /\ p \in Pairs
    BY <1>1, <1>3, <1>5, FirstLiqFacts, MinLpAssumption
  <2> HIDE DEF first
  <2>2. LpSound(TakeLiq(m, f, first, MinLp).m)  BY <2>1, TakeLiqLp
  <2> QED BY <1>5, <2>2
<1>6. CASE p \in m.pools /\ ~AddLiqPanics(m, f) /\ r = TakeLiq(n, f, liq, 0).m
  <2>1. p \in Pairs  BY <1>3, <1>6
  <2>2. /\ ~FeePanics(m, p) /\ m.res[p][Side0(m, f)] # 0
        /\ m.lp[p] > 0 => m.res[p][Other(p, Side0(m, f))] # 0
    BY <1>6 DEF AddLiqPanics
  <2>3. /\ n \in Modules /\ KeepsButLp(m, n) /\ PoolsSound(n) /\ (m.lp[p] = 0 <=> n.lp[p] = 0)
    BY <2>1, <2>2, IssueFeeFacts
  <2>4. LpSound(n)  BY <2>1, <2>2, IssueFeeLp
  <2> HIDE DEF n
  <2>5. Side0(n, f) = Side0(m, f) /\ n.res = m.res /\ n.lp[p] \in Nat /\ m.lp[p] \in Nat
    BY <2>1, <2>3 DEF Side0, KeepsButLp, Modules
  <2>6. n.res[p][Side0(n, f)] # 0 /\ (n.lp[p] > 0 => n.res[p][Other(p, Side0(n, f))] # 0)
    BY <2>2, <2>3, <2>5
  <2>7. liq.lp \in Nat /\ 0 \in Nat  BY <1>1, <2>1, <2>3, <2>6, NextLiqFacts
  <2> HIDE DEF liq
  <2>8. LpSound(TakeLiq(n, f, liq, 0).m)  BY <2>1, <2>4, <2>7, TakeLiqLp
  <2> QED BY <1>6, <2>8
<1> QED BY <1>2, <1>4, <1>5, <1>6

\* The LP of liquidity that is returned is taken from both maps and the pool.
LEMMA ReturnLiqLp ==
  ASSUME NEW m, LpSound(m), NEW f \in SwapFunctions, Pair(f) \in Pairs, NEW b0, NEW b1, NEW s0
  PROVE  LpSound(ReturnLiq(m, f, b0, b1, s0).m)
<1> DEFINE p == Pair(f)
           s1 == Other(p, s0)
           x0 == IF m.lp[p] = 0 THEN 0 ELSE (m.res[p][s0] * f.lp) \div m.lp[p]
           x1 == IF m.lp[p] = 0 THEN 0 ELSE (m.res[p][s1] * f.lp) \div m.lp[p]
           paid == Trade(m, f.by, p, f.t0, -x0, f.t1, -x1, s0)
           less == [paid EXCEPT !.lpOfPool[p][f.by] = @ - f.lp,
                                !.lpOfUser[f.by][p] = @ - f.lp, !.lp[p] = @ - f.lp]
           n == SetLastK(less, p)
           r == ReturnLiq(m, f, b0, b1, s0).m
<1>1. r = m \/ (r = n /\ ~(m.lpOfPool[p][f.by] < f.lp))  BY DEF ReturnLiq, Ok, Err
<1>2. CASE r = m  BY <1>2
<1>3. CASE r = n /\ ~(m.lpOfPool[p][f.by] < f.lp)
  <2>1. f.by \in Users /\ f.lp \in Nat /\ -f.lp \in Int /\ p \in Pairs  BY DEF SwapFunctions
  <2>2. LpBut(m, p, 0) /\ HasFields(m)  BY LpButNothing DEF LpSound, LpMaps
  <2> HIDE DEF p, r
  <2>3. KeepsLp(m, paid)  BY <2>2, TradeKeepsLp
  <2> HIDE DEF paid
  <2>4. LpBut(paid, p, 0)  BY <2>2, <2>3, LpButStays
  <2> DEFINE b == paid.lpOfPool[p][f.by] - f.lp
             ofPool == [paid.lpOfPool EXCEPT ![p][f.by] = b]
             ofUser == [paid.lpOfUser EXCEPT ![f.by][p] = b]
             o == [paid EXCEPT !.lpOfPool = ofPool, !.lpOfUser = ofUser]
  <2>5. paid.lpOfPool[p][f.by] \in Nat /\ HasFields(paid)
        /\ paid.lpOfUser[f.by][p] = paid.lpOfPool[p][f.by] /\ LpMaps(paid)
    BY <2>1, <2>4 DEF LpBut, LpMaps
  <2>6. b \in Nat /\ b = paid.lpOfPool[p][f.by] + (-f.lp)  BY <1>3, <2>1, <2>3, <2>5 DEF KeepsLp
  <2>7. less = [o EXCEPT !.lp[p] = @ + (-f.lp)]
    <3> DEFINE lp == [paid.lp EXCEPT ![p] = @ - f.lp]
    <3>1. less = [paid EXCEPT !.lpOfPool = ofPool, !.lpOfUser = ofUser, !.lp = lp]  BY <2>5
    <3>2. paid.lp[p] \in Int  BY <2>1, <2>5 DEF LpMaps
    <3>3. lp = [paid.lp EXCEPT ![p] = @ + (-f.lp)]  BY <2>1, <3>2
    <3>4. o.lp = paid.lp  BY <2>5 DEF HasFields
    <3> HIDE DEF ofPool, ofUser, less
    <3>5. [o EXCEPT !.lp[p] = @ + (-f.lp)] = [o EXCEPT !.lp = lp]  BY <3>3, <3>4
    <3> HIDE DEF lp
    <3> QED BY <2>5, <3>1, <3>5 DEF HasFields
  <2> HIDE DEF less
  <2>8. LpBut(o, p, 0 - (-f.lp))
    <3> HIDE DEF ofPool, ofUser
    <3>1. HasFields(o) /\ o.lp = paid.lp /\ o.lpOfPool = ofPool /\ o.lpOfUser = ofUser
      BY <2>5 DEF HasFields
    <3> HIDE DEF o
    <3>2. /\ o.lpOfPool = [paid.lpOfPool EXCEPT ![p][f.by] = b]
          /\ o.lpOfUser = [paid.lpOfUser EXCEPT ![f.by][p] = b]
      BY <3>1 DEF ofPool, ofUser
    <3> HIDE DEF b
    <3> DEFINE z == 0
               x == -f.lp
    <3>3. z \in Int /\ x \in Int /\ LpBut(paid, p, z) /\ b = paid.lpOfPool[p][f.by] + x
      BY <2>1, <2>4, <2>6
    <3> HIDE DEF z, x
    <3>4. LpBut(o, p, z - x)  BY <2>1, <2>6, <3>1, <3>2, <3>3, HolderChanges
    <3> QED BY <3>4 DEF z, x
  <2> HIDE DEF o
  <2>9. LpBut(less, p, 0)
    <3>1. 0 - (-f.lp) \in Int /\ (0 - (-f.lp)) + (-f.lp) = 0  BY <2>1
    <3>2. LpBut(less, p, (0 - (-f.lp)) + (-f.lp))  BY <2>1, <2>7, <2>8, <3>1, AddLpIssues
    <3> QED BY <3>1, <3>2
  <2>10. LpBut(n, p, 0)
    <3>1. HasFields(less)  BY <2>9 DEF LpBut, LpMaps
    <3> QED BY <2>9, <3>1, SetLastKKeepsLp, LpButStays
  <2> HIDE DEF n
  <2>11. LpSound(r)  BY <1>3, <2>1, <2>10, LpButNothing
  <2> QED BY <2>11 DEF r
<1> QED BY <1>1, <1>2, <1>3

\* Liquidity that is removed.
LEMMA RemoveLiquidityLp ==
  ASSUME NEW m \in Modules, PoolsSound(m), LpSound(m), NEW f \in SwapFunctions, NEW e
  PROVE  LpSound(RemoveLiquidity(m, f, e).m)
<1> DEFINE p == Pair(f)
           n == IssueFee(m, p)
           b0 == CheckTickVerify(e, f.t0, f.a0)
           b1 == CheckTickVerify(e, f.t1, f.a1)
           s0 == Side0(m, f)
           o == ReturnLiq(n, f, b0, b1, s0)
           r == RemoveLiquidity(m, f, e)
<1>1. \/ r.m = m
      \/ p \in m.pools /\ ~FeePanics(m, p) /\ r = o
  BY DEF RemoveLiquidity, PoolFound, Ok, Err, Panic
<1>2. CASE r.m = m  BY <1>2
<1>3. CASE p \in m.pools /\ ~FeePanics(m, p) /\ r = o
  <2>1. p \in Pairs  BY <1>3 DEF Modules
  <2>2. LpSound(n)  BY <1>3, <2>1, IssueFeeLp
  <2> HIDE DEF n, b0, b1, s0
  <2>3. LpSound(o.m)  BY <2>1, <2>2, ReturnLiqLp
  <2> QED BY <1>3, <2>3
<1> QED BY <1>1, <1>2, <1>3

\* LP that one user sends to another, who may be the same.
LEMMA SendLpLp ==
  ASSUME NEW m \in Modules, LpSound(m), NEW f \in SwapFunctions
  PROVE  LpSound(SendLp(m, f).m)
<1> DEFINE p == Pair(f)
           n == CreditLp(m, p, f.by, -f.amt)
           o == CreditLp(n, p, f.to, f.amt)
           r == SendLp(m, f).m
<1>1. r = m \/ (r = o /\ p \in m.pools /\ ~(m.lpOfPool[p][f.by] < f.amt))  BY DEF SendLp, Ok, Err
<1>2. CASE r = m  BY <1>2
<1>3. CASE r = o /\ p \in m.pools /\ ~(m.lpOfPool[p][f.by] < f.amt)
  <2>1. f.by \in Users /\ f.to \in Users /\ f.amt \in Nat /\ -f.amt \in Int /\ p \in Pairs
    BY <1>3 DEF SwapFunctions, Modules
  <2>2. LpBut(m, p, 0)  BY <2>1, LpButNothing
  <2>3. m.lpOfPool[p][f.by] \in Nat  BY <2>1, <2>2 DEF LpBut, LpMaps
  <2> HIDE DEF p, r
  <2>4. LpBut(n, p, f.amt)
    <3>1. m.lpOfPool[p][f.by] + (-f.amt) >= 0 /\ 0 - (-f.amt) = f.amt /\ 0 \in Int
      BY <1>3, <2>1, <2>3
    <3>2. LpBut(n, p, 0 - (-f.amt))  BY <2>1, <2>2, <3>1, CreditLpHeld
    <3> QED BY <3>1, <3>2
  <2> HIDE DEF n
  <2>5. LpBut(o, p, 0)
    <3>1. n.lpOfPool[p][f.to] \in Nat  BY <2>1, <2>4 DEF LpBut, LpMaps
    <3>2. n.lpOfPool[p][f.to] + f.amt >= 0 /\ f.amt \in Int /\ f.amt - f.amt = 0  BY <2>1, <3>1
    <3>3. LpBut(o, p, f.amt - f.amt)  BY <2>1, <2>4, <3>2, CreditLpHeld
    <3> QED BY <3>2, <3>3
  <2> HIDE DEF o
  <2>6. LpSound(r)  BY <1>3, <2>1, <2>5, LpButNothing
  <2> QED BY <2>6 DEF r
<1> QED BY <1>1, <1>2, <1>3

\* Any function of a commit, whether it succeeds or not.
LEMMA FunctionLp ==
  ASSUME NEW m \in Modules, PoolsSound(m), LpSound(m), NEW f \in SwapFunctions, NEW e, e.known = Ticks
  PROVE  LpSound(ProcessFunction(m, f, e).m)
<1>1. f.fn \in {"deployPool", "addLiq", "removeLiq", "swap", "decreaseApproval", "send", "sendLp"}
  BY DEF SwapFunctions
<1>2. /\ KeepsLp(m, DeployPool(m, f).m) /\ KeepsLp(m, Swap(m, f, e).m)
      /\ KeepsLp(m, DecreaseApproval(m, f, e).m) /\ KeepsLp(m, Send(m, f, e).m)
  BY ModuleHasFields, OthersKeepLp
<1>3. CASE f.fn = "deployPool"
  <2>1. ProcessFunction(m, f, e) = DeployPool(m, f)  BY <1>3 DEF ProcessFunction
  <2> QED BY <1>2, <2>1, LpStays
<1>4. CASE f.fn = "addLiq"
  <2>1. ProcessFunction(m, f, e) = AddLiquidity(m, f, e)  BY <1>4 DEF ProcessFunction
  <2> QED BY <2>1, AddLiquidityLp
<1>5. CASE f.fn = "removeLiq"
  <2>1. ProcessFunction(m, f, e) = RemoveLiquidity(m, f, e)  BY <1>5 DEF ProcessFunction
  <2> QED BY <2>1, RemoveLiquidityLp
<1>6. CASE f.fn = "swap"
  <2>1. ProcessFunction(m, f, e) = Swap(m, f, e)  BY <1>6 DEF ProcessFunction
  <2> QED BY <1>2, <2>1, LpStays
<1>7. CASE f.fn = "decreaseApproval"
  <2>1. ProcessFunction(m, f, e) = DecreaseApproval(m, f, e)  BY <1>7 DEF ProcessFunction
  <2> QED BY <1>2, <2>1, LpStays
<1>8. CASE f.fn = "send"
  <2>1. ProcessFunction(m, f, e) = Send(m, f, e)  BY <1>8 DEF ProcessFunction
  <2> QED BY <1>2, <2>1, LpStays
<1>9. CASE f.fn = "sendLp"
  <2>1. ProcessFunction(m, f, e) = SendLp(m, f)  BY <1>9 DEF ProcessFunction
  <2> QED BY <2>1, SendLpLp
<1> QED BY <1>1, <1>3, <1>4, <1>5, <1>6, <1>7, <1>8, <1>9

\* One function more, with its gas.
LEMMA RanStepLp ==
  ASSUME NEW m, NEW c \in Commits, NEW e, e.known = Ticks, NEW r,
         RanOn(m, c, r.m), LpSound(r.m), NEW k \in 1..Len(c.data)
  PROVE  LpSound(RunFunction(r, c.data[k], c.gas, e).m)
<1> DEFINE f == c.data[k]
           n == r.m
           g == GasFee(n, f, c.gas, e)
           s == RunFunction(r, f, c.gas, e)
<1>1. n \in Modules /\ PoolsSound(n) /\ LpSound(n)  BY DEF RanOn
<1>2. c.gas \in Nat /\ f \in SwapFunctions  BY CommitsAssumption
<1>3. s = r \/ s = g \/ s = ProcessFunction(g.m, f, e)  BY DEF RunFunction, AfterGas
<1> HIDE DEF f, n
<1>4. g.m \in Modules /\ KeepsPools(n, g.m)  BY <1>1, <1>2, GasFacts
<1>5. LpSound(g.m)  BY <1>1, ModuleHasFields, OthersKeepLp, LpStays
<1> HIDE DEF g
<1>6. PoolsSound(g.m)  BY <1>1, <1>4, PoolsUntouched DEF KeepsPools
<1>7. LpSound(ProcessFunction(g.m, f, e).m)  BY <1>2, <1>4, <1>5, <1>6, FunctionLp
<1> QED BY <1>1, <1>3, <1>5, <1>7 DEF f, n

\* All functions of a commit.
LEMMA CommitRanLp ==
  ASSUME NEW m \in Modules, PoolsSound(m), LpSound(m), NEW c \in Commits, PoolsDiffer(c),
         NEW e, e.known = Ticks
  PROVE  LpSound(Run(m, c, e)[Len(c.data)].m)
<1> DEFINE n == Len(c.data)
           R == CommitRun(m, c, e)
           T == {k \in 0..n : RanOn(m, c, R[k].m) /\ LpSound(R[k].m)}
<1>1. n \in Nat  BY CommitsAssumption
<1>2. R[0] = Ok(m) /\ \A k \in 1..n : R[k] = RunFunction(R[k - 1], c.data[k], c.gas, e)
  BY <1>1, CommitRunUnfolds
<1> HIDE DEF R
<1>3. RanOn(m, c, R[0].m) /\ LpSound(R[0].m)  BY <1>2 DEF RanOn, Ok, KeepsRest, KeepsChain, Balanced
<1>4. ASSUME NEW j \in 1..n, RanOn(m, c, R[j - 1].m), LpSound(R[j - 1].m)
      PROVE  RanOn(m, c, R[j].m) /\ LpSound(R[j].m)
  <2>1. RanOn(m, c, RunFunction(R[j - 1], c.data[j], c.gas, e).m)  BY <1>4, RanStep
  <2>2. LpSound(RunFunction(R[j - 1], c.data[j], c.gas, e).m)  BY <1>4, RanStepLp
  <2> QED BY <1>2, <2>1, <2>2
<1>5. n \in T
  <2>1. n \in Nat /\ 0 \in T /\ \A j \in 1..n : j - 1 \in T => j \in T  BY <1>1, <1>3, <1>4
  <2> HIDE DEF n, T
  <2> QED BY <2>1, UpTo
<1> QED BY <1>5, RunIsRun DEF R

\* A commit that reached the module.
LEMMA CommitProcessedLp ==
  ASSUME NEW m0 \in Modules, PoolsSound(m0), LpSound(m0), NEW c \in Commits, PoolsDiffer(c),
         NEW sender, NEW now
  PROVE  LpSound(ProcessCommit(m0, c, sender, now).m)
<1> DEFINE inv == m0.invalid \cup {c.id}
           m == [m0 EXCEPT !.invalid = inv]
           e == [enabled |-> now, known |-> Ticks]
           v == ProcessCommitVerify(m, c, e)
           n == ProcessCommit(m0, c, sender, now).m
           ids == v.m.ids \cup {c.id}
           chain == v.m.chain \cup {c.parent}
           inv2 == v.m.invalid \ {c.id}
           o == [v.m EXCEPT !.ids = ids, !.chain = chain, !.invalid = inv2]
<1>1. n = m \/ n = v.m \/ n = o  BY DEF ProcessCommit, Chained, Err, Ok
<1>2. m \in Modules /\ PoolsSound(m) /\ LpSound(m)
  <2>1. /\ inv \in SUBSET CommitIds /\ m0.ids \in SUBSET CommitIds
        /\ m0.chain \in SUBSET {d.parent : d \in Commits}
    BY DEF Modules, CommitIds
  <2>2. m = [m0 EXCEPT !.ids = m0.ids, !.chain = m0.chain, !.invalid = inv]  BY DEF Modules
  <2>3. HasFields(m0)  BY ModuleHasFields
  <2> HIDE DEF inv
  <2>4. KeepsLp(m0, m)  BY <2>3 DEF KeepsLp, HasFields
  <2> HIDE DEF m
  <2>5. m \in Modules /\ KeepsApprovals(m0, m) /\ PoolsSound(m) /\ Balanced(m0, m)
    BY Zenon, <2>1, <2>2, ChainChanged
  <2> QED BY <2>4, <2>5, LpStays
<1> HIDE DEF m, n
<1>3. LpSound(v.m)
  <2>1. v = Run(m, c, e)[Len(c.data)] \/ v = Err(m)  BY DEF ProcessCommitVerify
  <2>2. e.known = Ticks  OBVIOUS
  <2> HIDE DEF e
  <2>3. CASE v = Run(m, c, e)[Len(c.data)]  BY <1>2, <2>2, <2>3, CommitRanLp
  <2>4. CASE v = Err(m)  BY <1>2, <2>4 DEF Err
  <2> QED BY <2>1, <2>3, <2>4
<1>4. LpSound(o)
  <2> DEFINE w == v.m
  <2> HIDE DEF ids, inv2, chain
  <2>1. o = [w EXCEPT !.ids = ids, !.chain = chain, !.invalid = inv2]  OBVIOUS
  <2>2. LpSound(w)  BY <1>3
  <2> HIDE DEF w, o
  <2>3. HasFields(w)  BY <2>2 DEF LpSound, LpMaps
  <2>4. KeepsLp(w, o)  BY <2>1, <2>3 DEF KeepsLp, HasFields
  <2> QED BY <2>2, <2>4, LpStays
<1> HIDE DEF v, o
<1>5. LpSound(n)  BY <1>1, <1>2, <1>3, <1>4
<1> QED BY <1>5 DEF n

\* The move of a commit.
LEMMA MoveCommitLp ==
  ASSUME LedgerInv, LpSound(mod), NEW i \in DOMAIN ins, NEW to \in Dests, MoveCommit(i, to)
  PROVE  LpSound(mod')
<1> DEFINE c == CommitOf(ins[i].c)
           n == ProcessCommit(mod, c, ins[i].owner, enabled).m
<1>1. mod \in Modules /\ PoolsSound(mod) /\ ValidCommits  BY DEF LedgerInv, Typed
<1>2. ins[i].kind = "commit" /\ ins[i].valid  BY DEF MoveCommit, Moves
<1>3. mod' = mod \/ mod' = n  BY DEF MoveCommit
<1>4. c \in Commits /\ PoolsDiffer(c)
  <2>1. ins[i].c \in CommitIds /\ PoolsDiffer(c)  BY <1>1, <1>2 DEF ValidCommits
  <2>2. PICK d \in Commits : ins[i].c = d.id  BY <2>1 DEF CommitIds
  <2> QED BY <2>1, <2>2, CommitFound
<1> HIDE DEF c
<1>5. LpSound(n)  BY <1>1, <1>4, CommitProcessedLp
<1> HIDE DEF n
<1> QED BY <1>3, <1>5

\* No step makes LP without a holder.
LEMMA NextKeepsLp ==
  ASSUME LedgerInv, LpSound(mod), [Next]_vars
  PROVE  LpSound(mod')
<1>1. ASSUME NEW i \in DOMAIN ins, NEW to \in Dests, MoveCommit(i, to)
      PROVE  LpSound(mod')
  BY <1>1, MoveCommitLp
<1>2. CASE Enriched
  <2> DEFINE n == mod'
  <2>1. KeepsLp(mod, n)  BY <1>2 DEF Enriched, Richer, KeepsPools, KeepsLp
  <2> HIDE DEF n
  <2>2. LpSound(n)  BY <2>1, LpStays
  <2> QED BY <2>2 DEF n
<1> QED BY <1>1, <1>2, StepEnriches

\* There is no LP at first.
LEMMA InitLp ==
  ASSUME Init
  PROVE  LpSound(mod)
<1>1. PICK st \in Starts : mod = StartModule(st)  BY InitFacts
<1> DEFINE n == NewModule
           x == st.avail
           y == st.swap
           z == [t \in Ticks |-> SumFunctionOnSet([u \in Users |-> st.avail[u][t] + st.swap[u][t]], Users)]
<1>2. /\ n.lp = [p \in Pairs |-> 0] /\ n.lpOfPool = [p \in Pairs |-> [u \in Users |-> 0]]
      /\ n.lpOfUser = [u \in Users |-> [p \in Pairs |-> 0]] /\ HasFields(n)
  BY DEF NewModule, HasFields
<1>3. mod = [n EXCEPT !.avail = x, !.swap = y, !.dep = z]  BY <1>1 DEF StartModule
<1> HIDE DEF n, x, y, z
<1>4. KeepsLp(n, mod)  BY <1>2, <1>3 DEF KeepsLp, HasFields
<1>5. LpMaps(n)  BY <1>2 DEF LpMaps
<1>6. ASSUME NEW p \in Pairs
      PROVE  n.lp[p] = HeldLp(n, p)
  <2> DEFINE f == [u \in Users |-> n.lpOfPool[p][u]]
  <2>1. IsFiniteSet(Users) /\ \A u \in Users : f[u] = 0  BY <1>2, ScriptsAssumption
  <2> HIDE DEF f
  <2>2. SumFunctionOnSet(f, Users) = 0  BY <2>1, SumZeros
  <2> QED BY <1>2, <2>2 DEF f, HeldLp
<1>7. LpSound(n)  BY <1>5, <1>6 DEF LpSound
<1> QED BY <1>4, <1>7, LpStays

\* LP balances: the pool's map and the users' agree, hold no debts and add up
\* to the LP of the pool, whatever adds, removes, sends, fees and failed
\* functions came before (ProcessCommitFunctionAddLiquidity,
\* ProcessCommitFunctionRemoveLiquidity, ProcessCommitFunctionSendLp).
THEOREM SpecLpMapsAgree == Spec => []LpMapsAgree
<1>1. Init => LedgerInv /\ LpSound(mod)  BY InitIsSound, InitLp
<1>2. LedgerInv /\ LpSound(mod) /\ [Next]_vars => LedgerInv' /\ LpSound(mod)'
  <2>1. ASSUME LedgerInv, LpSound(mod), [Next]_vars PROVE LpSound(mod')  BY <2>1, NextKeepsLp
  <2>2. LpSound(mod)' <=> LpSound(mod')  BY DEF LpSound, LpMaps, HeldLp, HasFields
  <2> QED BY <2>1, <2>2, NextKeepsInv
<1>3. LpSound(mod) => LpMapsAgree  BY DEF LpSound, LpMaps, HeldLp, LpMapsAgree, SumOf
<1> QED BY <1>1, <1>2, <1>3, PTL DEF Spec

-----------------------------------------------------------------------------
\* The holders of a tick.

\* A transferable balance is the sum of amounts.
LEMMA TransferableBacked ==
  ASSUME LedgerInv
  PROVE  TransferableIsNat
<1>1. Inscribed(ins) /\ Backed(ins, mod, tran)  BY InvNow DEF Typed, Inscribed
<1>2. \A u, t : TotalAmt(ins, "transfer", u, t) \in Nat  BY <1>1, PendingFacts
<1> QED BY <1>1, <1>2 DEF Backed, TransferableIsNat

\* What the books of a holder need: no more is held, or it is listed.
LEMMA HoldersStay ==
  ASSUME HolderInv, bal' \in Balances, deployed \subseteq deployed',
         \A u \in Users, t \in Ticks :
           /\ bal'[u][t] >= 0
           /\ \/ /\ bal'[u][t] + tran'[u][t] <= bal[u][t] + tran[u][t]
                 /\ <<u, t>> \in listed => <<u, t>> \in listed'
              \/ <<u, t>> \in listed' /\ t \in deployed',
         bal \in Balances, tran \in Balances, tran' \in Balances
  PROVE  HolderInv'
<1> SUFFICES ASSUME NEW u \in Users, NEW t \in Ticks, bal'[u][t] + tran'[u][t] > 0
             PROVE  <<u, t>> \in listed' /\ t \in deployed'
  BY DEF HolderInv
<1>1. CASE /\ bal'[u][t] + tran'[u][t] <= bal[u][t] + tran[u][t]
           /\ <<u, t>> \in listed => <<u, t>> \in listed'
  <2>1. bal[u][t] + tran[u][t] \in Int /\ bal'[u][t] + tran'[u][t] \in Int  BY DEF Balances
  <2>2. bal[u][t] + tran[u][t] > 0  BY <1>1, <2>1
  <2> QED BY <1>1, <2>2 DEF HolderInv
<1>2. CASE <<u, t>> \in listed' /\ t \in deployed'  BY <1>2
<1> QED BY <1>1, <1>2

\* Nothing happens to balances, and nobody is struck off.
LEMMA HoldersSame ==
  ASSUME LedgerInv, LedgerInv', HolderInv, UNCHANGED <<deployed, bal, tran, listed>>
  PROVE  HolderInv'
BY DEF HolderInv

\* A tick is deployed: its list starts anew.
LEMMA DeployHolders ==
  ASSUME LedgerInv, HolderInv, NEW t \in Ticks, NEW u \in Inscribers, Deploy(t, u)
  PROVE  HolderInv'
<1>1. /\ t \notin deployed /\ deployed' = deployed \cup {t} /\ bal' = bal /\ tran' = tran
      /\ listed' = {l \in listed : l[2] # t} \cup {<<u, t>>}
  BY DEF Deploy
<1>2. ASSUME NEW v \in Users, NEW s \in Ticks
      PROVE  /\ bal'[v][s] >= 0
             /\ bal'[v][s] + tran'[v][s] > 0 => <<v, s>> \in listed' /\ s \in deployed'
  <2>1. bal'[v][s] + tran'[v][s] = bal[v][s] + tran[v][s]  BY <1>1
  <2>2. bal[v][s] >= 0 /\ (bal[v][s] + tran[v][s] > 0 => <<v, s>> \in listed /\ s \in deployed)
    BY DEF HolderInv
  <2>3. <<v, s>>[2] = s  OBVIOUS
  <2>4. <<v, s>> \in listed /\ s \in deployed => <<v, s>> \in listed' /\ s \in deployed'
    BY <1>1, <2>3
  <2> QED BY <1>1, <2>1, <2>2, <2>4
<1> QED BY <1>2 DEF HolderInv

\* A mint lists whom it credits.
LEMMA MintHolders ==
  ASSUME LedgerInv, LedgerInv', HolderInv, NEW t \in Ticks, NEW u \in Inscribers, NEW a \in Amounts,
         Mint(t, u, a)
  PROVE  HolderInv'
<1> DEFINE x == MintedAmount(t, a)
<1>1. /\ t \in deployed /\ deployed' = deployed /\ tran' = tran /\ bal' = [bal EXCEPT ![u][t] = @ + x]
      /\ listed' = listed \cup {<<u, t>>} /\ a \in 1..Limit[t]
  BY DEF Mint
<1>2. bal \in Balances /\ tran \in Balances /\ bal' \in Balances /\ tran' \in Balances /\ u \in Users
  BY ScriptsAssumption DEF LedgerInv, Typed
<1>3. x \in Int /\ x >= 0
  <2>1. minted[t] \in Int /\ minted[t] <= MaxSupply[t] /\ MaxSupply[t] \in Nat /\ a \in Nat
    BY SupplyAssumption DEF LedgerInv, Typed, Totals, SupplyIsHeld
  <2> QED BY <2>1 DEF MintedAmount
<1> HIDE DEF x
<1>4. ASSUME NEW v \in Users, NEW s \in Ticks
      PROVE  /\ bal'[v][s] >= 0
             /\ \/ /\ bal'[v][s] + tran'[v][s] <= bal[v][s] + tran[v][s]
                   /\ <<v, s>> \in listed => <<v, s>> \in listed'
                \/ <<v, s>> \in listed' /\ s \in deployed'
  <2>1. bal[v][s] >= 0 /\ bal[v][s] \in Int /\ tran[v][s] \in Int  BY <1>2 DEF HolderInv, Balances
  <2>2. CASE v = u /\ s = t
    <3>1. bal'[v][s] = bal[v][s] + x  BY <1>1, <1>2, <2>2 DEF Balances
    <3>2. bal'[v][s] >= 0  BY <1>3, <2>1, <3>1
    <3> QED BY <1>1, <2>2, <3>2
  <2>3. CASE ~(v = u /\ s = t)
    <3>1. bal'[v][s] = bal[v][s]  BY <1>1, <1>2, <2>3 DEF Balances
    <3>2. bal'[v][s] + tran'[v][s] = bal[v][s] + tran[v][s] /\ bal[v][s] + tran[v][s] \in Int
      BY <1>1, <2>1, <3>1
    <3> QED BY <1>1, <2>1, <3>1, <3>2
  <2> QED BY <2>2, <2>3
<1> QED BY <1>1, <1>2, <1>4, HoldersStay

\* A transfer that is inscribed moves a balance of its owner.
LEMMA InscribeTransferHolders ==
  ASSUME LedgerInv, LedgerInv', HolderInv, NEW t \in Ticks, NEW u \in Inscribers, NEW a \in Amounts,
         InscribeTransfer(u, t, a)
  PROVE  HolderInv'
<1> DEFINE x == IF bal[u][t] >= a THEN a ELSE 0
<1>1. /\ t \in deployed /\ deployed' = deployed /\ listed' = listed \cup {<<u, t>>}
      /\ bal' = [bal EXCEPT ![u][t] = IF bal[u][t] >= a THEN @ - a ELSE @]
  BY DEF InscribeTransfer, tick
<1>2. bal \in Balances /\ tran \in Balances /\ bal' \in Balances /\ tran' \in Balances /\ u \in Users
  BY ScriptsAssumption DEF LedgerInv, Typed
<1>3. tran' = [tran EXCEPT ![u][t] = IF bal[u][t] >= a THEN @ + a ELSE @] /\ a \in Nat
  BY SupplyAssumption DEF InscribeTransfer
<1>4. ASSUME NEW v \in Users, NEW s \in Ticks
      PROVE  /\ bal'[v][s] >= 0
             /\ \/ /\ bal'[v][s] + tran'[v][s] <= bal[v][s] + tran[v][s]
                   /\ <<v, s>> \in listed => <<v, s>> \in listed'
                \/ <<v, s>> \in listed' /\ s \in deployed'
  <2>1. bal[v][s] >= 0 /\ bal[v][s] \in Int /\ tran[v][s] \in Int  BY <1>2 DEF HolderInv, Balances
  <2>2. CASE v = u /\ s = t
    <3>1. bal'[v][s] = IF bal[v][s] >= a THEN bal[v][s] - a ELSE bal[v][s]
      BY <1>1, <1>2, <2>2 DEF Balances
    <3>2. bal'[v][s] >= 0  BY <1>3, <2>1, <3>1
    <3> QED BY <1>1, <2>2, <3>2
  <2>3. CASE ~(v = u /\ s = t)
    <3>1. bal'[v][s] = bal[v][s]  BY <1>1, <1>2, <2>3 DEF Balances
    <3>2. tran'[v][s] = tran[v][s]  BY <1>2, <1>3, <2>3 DEF Balances
    <3>3. bal'[v][s] + tran'[v][s] = bal[v][s] + tran[v][s] /\ bal[v][s] + tran[v][s] \in Int
      BY <2>1, <3>1, <3>2
    <3> QED BY <1>1, <2>1, <3>1, <3>3
  <2> QED BY <2>2, <2>3
<1> QED BY <1>1, <1>2, <1>4, HoldersStay

\* A transfer that moves lists its receiver; its tick is deployed, for its
\* owner held it.
LEMMA MoveTransferHolders ==
  ASSUME LedgerInv, LedgerInv', TransferableIsNat, TransferableIsNat', HolderInv,
         NEW i \in DOMAIN ins, NEW to \in Dests, MoveTransfer(i, to)
  PROVE  HolderInv'
<1>1. CASE ~ins[i].valid
  <2>1. UNCHANGED <<deployed, bal, tran, listed>>  BY <1>1 DEF MoveTransfer
  <2> QED BY <2>1, HoldersSame
<1>2. CASE ins[i].valid
  <2> DEFINE o == ins[i].owner
             t == ins[i].tick
             a == ins[i].amt
  <2>1. ins[i] \in Inscriptions  BY DEF LedgerInv, Typed
  <2>2. o \in Users /\ t \in Ticks /\ a \in Nat /\ to \in Users
    BY <2>1, ScriptsAssumption DEF Inscriptions
  <2>3. /\ tran' = [tran EXCEPT ![o][t] = @ - a] /\ bal' = [bal EXCEPT ![to][t] = @ + a]
        /\ listed' = listed \cup {<<to, t>>} /\ deployed' = deployed
    BY <1>2 DEF MoveTransfer
  <2> HIDE DEF o, t, a
  <2>4. bal \in Balances /\ tran \in Balances /\ bal' \in Balances /\ tran' \in Balances
    BY DEF LedgerInv, Typed
  <2>5. a > 0 => t \in deployed
    <3>1. tran'[o][t] = tran[o][t] - a /\ tran'[o][t] \in Nat /\ tran[o][t] \in Nat
      BY <2>2, <2>3, <2>4 DEF TransferableIsNat, Balances
    <3>2. bal[o][t] \in Int /\ bal[o][t] >= 0  BY <2>2, <2>4 DEF HolderInv, Balances
    <3>3. a > 0 => bal[o][t] + tran[o][t] > 0  BY <2>2, <3>1, <3>2
    <3> QED BY <2>2, <3>3 DEF HolderInv
  <2>6. ASSUME NEW v \in Users, NEW s \in Ticks
        PROVE  /\ bal'[v][s] >= 0
               /\ \/ /\ bal'[v][s] + tran'[v][s] <= bal[v][s] + tran[v][s]
                     /\ <<v, s>> \in listed => <<v, s>> \in listed'
                  \/ <<v, s>> \in listed' /\ s \in deployed'
    <3>1. bal[v][s] >= 0 /\ bal[v][s] \in Int /\ tran[v][s] \in Int  BY <2>4 DEF HolderInv, Balances
    <3>2. bal'[v][s] = bal[v][s] + (IF v = to /\ s = t THEN a ELSE 0)
      BY <2>2, <2>3, <2>4 DEF Balances
    <3>3. tran'[v][s] = tran[v][s] - (IF v = o /\ s = t THEN a ELSE 0)
      BY <2>2, <2>3, <2>4 DEF Balances
    <3>4. bal'[v][s] >= 0  BY <2>2, <3>1, <3>2
    <3>5. CASE v = to /\ s = t /\ a > 0  BY <2>3, <2>5, <3>4, <3>5
    <3>6. CASE ~(v = to /\ s = t /\ a > 0)
      <4>1. bal'[v][s] = bal[v][s]  BY <2>2, <3>1, <3>2, <3>6
      <4>2. tran'[v][s] <= tran[v][s] /\ tran'[v][s] \in Int  BY <2>2, <3>1, <3>3
      <4>3. bal'[v][s] + tran'[v][s] <= bal[v][s] + tran[v][s]  BY <3>1, <4>1, <4>2
      <4> QED BY <2>3, <3>4, <4>3
    <3> QED BY <3>5, <3>6
  <2>7. deployed \subseteq deployed'  BY <2>3
  <2> QED BY <2>4, <2>6, <2>7, HoldersStay
<1> QED BY <1>1, <1>2

\* Only who has nothing is struck off the list after a block.
LEMMA EndBlockHolders ==
  ASSUME LedgerInv, TransferableIsNat, HolderInv, EndBlock
  PROVE  HolderInv'
<1>1. /\ listed' = listed \ Unlisted /\ deployed' = deployed /\ bal' = bal /\ tran' = tran
  BY DEF EndBlock, tick
<1>2. ASSUME NEW v \in Users, NEW s \in Ticks
      PROVE  /\ bal'[v][s] >= 0
             /\ bal'[v][s] + tran'[v][s] > 0 => <<v, s>> \in listed' /\ s \in deployed'
  <2>1. bal'[v][s] + tran'[v][s] = bal[v][s] + tran[v][s]  BY <1>1
  <2>2. bal[v][s] >= 0 /\ (bal[v][s] + tran[v][s] > 0 => <<v, s>> \in listed /\ s \in deployed)
    BY DEF HolderInv
  <2>3. <<v, s>> \in Unlisted => bal[v][s] = 0 /\ tran[v][s] = 0  BY DEF Unlisted
  <2>4. bal[v][s] + tran[v][s] > 0 => <<v, s>> \notin Unlisted  BY <2>3
  <2> QED BY <1>1, <2>1, <2>2, <2>4
<1> QED BY <1>2 DEF HolderInv

\* Any step.
LEMMA NextKeepsHolders ==
  ASSUME LedgerInv, LedgerInv', TransferableIsNat, TransferableIsNat', HolderInv, [Next]_vars
  PROVE  HolderInv'
<1>1. ASSUME NEW t \in Ticks, NEW u \in Inscribers, Deploy(t, u)
      PROVE  HolderInv'
  BY <1>1, DeployHolders
<1>2. ASSUME NEW t \in Ticks, NEW u \in Inscribers, NEW a \in Amounts, Mint(t, u, a)
      PROVE  HolderInv'
  BY <1>2, MintHolders
<1>3. CASE CreateModule \/ NextTx \/ UNCHANGED vars
  BY <1>3, HoldersSame DEF CreateModule, NextTx, vars, tick
<1>4. CASE EndBlock  BY <1>4, EndBlockHolders
<1>5. ASSUME NEW i \in DOMAIN ins, MoveWithdraw(i)
      PROVE  HolderInv'
  BY <1>5, HoldersSame DEF MoveWithdraw, tick
<1>6. ASSUME NEW t \in Ticks, NEW u \in Inscribers, NEW a \in Amounts, InscribeTransfer(u, t, a)
      PROVE  HolderInv'
  BY <1>6, InscribeTransferHolders
<1>7. ASSUME NEW t \in Ticks, NEW u \in Inscribers, NEW a \in Amounts,
             \/ InscribeApprove(u, t, a) \/ InscribeConditionalApprove(u, t, a)
             \/ InscribeWithdraw(u, t, a)
      PROVE  HolderInv'
  BY <1>7, HoldersSame DEF InscribeApprove, InscribeConditionalApprove, InscribeWithdraw, tick
<1>8. ASSUME NEW i \in DOMAIN ins, NEW to \in Dests, MoveTransfer(i, to)
      PROVE  HolderInv'
  BY <1>8, MoveTransferHolders
<1>9. ASSUME NEW i \in DOMAIN ins, NEW to \in Dests,
             MoveApprove(i, to) \/ MoveConditionalApprove(i, to) \/ MoveCommit(i, to)
      PROVE  HolderInv'
  BY <1>9, HoldersSame DEF MoveApprove, MoveConditionalApprove, MoveCommit, tick
<1>10. ASSUME NEW c \in Commits, NEW u \in Inscribers, InscribeCommit(c, u)
       PROVE  HolderInv'
  BY <1>10, HoldersSame DEF InscribeCommit, tick
<1> QED  BY <1>1, <1>2, <1>3, <1>4, <1>5, <1>6, <1>7, <1>8, <1>9, <1>10 DEF Next

\* The lists of a start.
LEMMA InitHolders ==
  ASSUME Init
  PROVE  HolderInv
<1>1. PICK st \in Starts :
         /\ deployed = st.ticks /\ bal = st.bal /\ tran = [u \in Users |-> [t \in Ticks |-> 0]]
         /\ listed = {l \in Users \X Ticks : st.bal[l[1]][l[2]] > 0}
  BY DEF Init
<1>2. /\ bal \in [Users -> [Ticks -> Nat]]
      /\ \A u \in Users, t \in Ticks : bal[u][t] > 0 => t \in deployed
  BY <1>1, StartFacts, StartsAssumption
<1>3. ASSUME NEW u \in Users, NEW t \in Ticks
      PROVE  bal[u][t] >= 0 /\ (bal[u][t] + tran[u][t] > 0 => <<u, t>> \in listed /\ t \in deployed)
  <2>1. bal[u][t] \in Nat /\ tran[u][t] = 0  BY <1>1, <1>2
  <2>2. bal[u][t] + tran[u][t] > 0 => bal[u][t] > 0  BY <2>1
  <2>3. <<u, t>> \in listed <=> bal[u][t] > 0  BY <1>1
  <2> QED BY <1>2, <2>1, <2>2, <2>3
<1> QED BY <1>3 DEF HolderInv

\* Holders: no balance of a tick is negative and whoever has one is in the
\* list of its holders, through deploys, mints, transfers and the pruning
\* after each block (ProcessDeploy, ProcessMint, ProcessInscribeTransfer,
\* ProcessTransfer, ProcessUpdateLatestBRC20Loop).
THEOREM SpecHoldersAreListed == Spec => []HoldersAreListed
<1>1. Init => HolderInv  BY InitHolders
<1>2. LedgerInv => TransferableIsNat  BY TransferableBacked
<1>3. LedgerInv /\ LedgerInv' /\ TransferableIsNat /\ TransferableIsNat' /\ HolderInv /\ [Next]_vars
        => HolderInv'
  BY NextKeepsHolders
<1>4. TransferableIsNat /\ HolderInv => HoldersAreListed
  <2> SUFFICES ASSUME TransferableIsNat, HolderInv, NEW u \in Users, NEW t \in Ticks
               PROVE  /\ bal[u][t] >= 0 /\ tran[u][t] >= 0
                      /\ bal[u][t] + tran[u][t] > 0 => <<u, t>> \in listed
    BY Zenon DEF HoldersAreListed
  <2>1. tran[u][t] >= 0  BY DEF TransferableIsNat
  <2> QED BY Zenon, <2>1 DEF HolderInv
<1> QED BY <1>1, <1>2, <1>3, <1>4, SpecLedgerInv, PTL DEF Spec

=============================================================================
