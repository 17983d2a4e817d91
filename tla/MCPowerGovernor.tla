-------------------------- MODULE MCPowerGovernor --------------------------
(* Instances of PowerGovernor for TLC.  The default configuration values    *)
(* are those of include/core/config.hpp, the factory values those CONTEXT.md *)
(* measured on the machine.                                                 *)
EXTENDS PowerGovernor, TLC

MCPower ==
  [ac_epp_active |-> 0, dc_epp_active |-> 50, ac_epp_idle |-> 60,
   dc_epp_idle |-> 80, battery_saver_epp |-> 100, ac_boost_mode |-> 2,
   dc_boost_mode |-> 0, battery_saver_threshold_percent |-> 20]

(* Mains and battery bursts that ask for the same settings: the only thing  *)
(* that then distinguishes a plan is the half of the scheme it is for.      *)
MCPowerEqualBursts == [MCPower EXCEPT !.dc_epp_active = 0]

Values(epp, boost, min, unpark, aspm) ==
  [epp |-> epp, boost |-> boost, min |-> min, unpark |-> unpark,
   smt |-> 0, aspm |-> aspm]

HighPerformanceScheme ==
  [ac |-> Values(60, 2, 100, 100, 2), dc |-> Values(80, 0, 30, 12, 2)]

BalancedScheme ==
  [ac |-> Values(33, 1, 5, 10, 1), dc |-> Values(50, 1, 5, 10, 2)]

(* Boost mode 4, "efficient aggressive", is a value Windows defines.        *)
EfficientAggressiveScheme ==
  [BalancedScheme EXCEPT !.ac.boost = 4]

MCFactoryOne == {HighPerformanceScheme}
MCFactoryBalanced == {BalancedScheme}
MCFactoryTwo == {HighPerformanceScheme, EfficientAggressiveScheme}

(* The same settings, for some of the power sources. *)
For(lines, settings) == [l \in Lines |-> IF l \in lines THEN settings ELSE {}]

(* The writes of a plan's settings for a power source all succeed or all    *)
(* fail.                                                                    *)
MCMissable == {For(lines, Governed) : lines \in SUBSET Lines}

(* Of the first reads, one of a setting the plans change may fail together  *)
(* with one of a setting that is written only once, for one power source or *)
(* for both.  Factory values that are not the built-in numbers make the     *)
(* failure tell.                                                            *)
MCUnreadable == {For(lines, {"epp", "aspm"}) : lines \in {{"ac"}, Lines}}
MCUnreadableMains == {For({"ac"}, {"epp", "aspm"})}
MCNone == {}

SchemeSymmetry == Permutations(Scheme)

=============================================================================
