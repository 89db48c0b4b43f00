----------------------------- MODULE MCSwapPool -----------------------------
(***************************************************************************)
(* SwapPool for TLC: the first MaxCalls functions after the deposits.  The *)
(* balances already make the instance finite; the bound keeps it small.    *)
(***************************************************************************)
EXTENDS SwapPool

CONSTANTS u1, u2,
          MaxCalls      \* bound on the number of contract calls

VARIABLE calls

MCUsers == {u1, u2}
MCTicks == {1, 2}
MCDeposit == [u \in MCUsers |-> IF u = u1 THEN <<38, 36>> ELSE <<5, 0>>]

MCInit == Init /\ calls = 0

MCNext == \/ calls < MaxCalls /\ Next /\ calls' = calls + 1
          \/ calls = MaxCalls /\ UNCHANGED <<contract, calls>>

MCSpec == MCInit /\ [][MCNext]_<<contract, calls>>
=============================================================================
