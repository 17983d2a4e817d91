------------------------- MODULE MCProcessGuardian -------------------------
(* An instance of ProcessGuardian for TLC: the four cores with two threads  *)
(* each of a Surface Pro 7.                                                 *)
EXTENDS ProcessGuardian, TLC

MCCpu == 0..7
MCCores == {{0, 1}, {2, 3}, {4, 5}, {6, 7}}
MCFirstCore == {0, 1}

(* Any core, a choice with half of the first core in it, one without it.    *)
MCBirthMasks == {MCCpu, {1, 2}, {4, 5}}

=============================================================================
