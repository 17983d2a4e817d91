---------------------------- MODULE MCBurstHold ----------------------------
(* Instances of BurstHold for TLC: one readable foreground process and one  *)
(* that cannot be opened, a few ticks for each of the times of config.hpp.  *)
EXTENDS BurstHold

CONSTANTS reader, guarded

MCReadable   == {reader}
MCUnreadable == {guarded}

=============================================================================
