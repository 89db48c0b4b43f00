------------------------------ MODULE MCMsSmt -------------------------------
(* MsSmt for TLC: four keys that part at the first, second and third bit. *)
EXTENDS MsSmt

MCKeys == {<<0, 0, 0, 0>>, <<0, 0, 1, 0>>, <<0, 1, 0, 1>>, <<1, 1, 0, 0>>}

\* The first key has two leaves to change between, one of them without a sum;
\* the leaves of all keys exceed MaxSum, some three of them reach it.
MCLeaves ==
  [k \in Keys |-> CASE k = <<0, 0, 0, 0>> -> {<<1, 3>>, <<2, 0>>}
                    [] k = <<0, 0, 1, 0>> -> {<<3, 3>>}
                    [] k = <<0, 1, 0, 1>> -> {<<4, 1>>}
                    [] k = <<1, 1, 0, 0>> -> {<<5, 2>>}]
=============================================================================
