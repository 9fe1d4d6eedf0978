----------------------------- MODULE MCHlcClock -----------------------------
(***************************************************************************)
(* Instances of HlcClock for TLC.                                          *)
(***************************************************************************)
EXTENDS HlcClock, TLC

Threads == Permutations(Thread)

TwoReadings == {0, 1}

\* The stamp of a host whose clock is far ahead, and one that the fence admits
\* although it leads every clock at 0, with the largest counter.
MCForeign == { [wall |-> 2, counter |-> 0, node |-> 9],
               [wall |-> 1, counter |-> MaxCounter, node |-> 9] }
NoForeign == {}
MCMinWall == -3
=============================================================================
