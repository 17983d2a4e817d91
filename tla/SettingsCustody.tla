--------------------------- MODULE SettingsCustody ---------------------------
(***************************************************************************)
(* What SurfaceOptimizer promises about the user's power settings, without  *)
(* saying how: a daemon takes charge of at most one scheme, changes no      *)
(* other, never exchanges it for another, and gives it back as it found it  *)
(* ("Saved baseline state for clean restoration on shutdown",               *)
(* power_manager.hpp:88).  A crash, or a daemon that does not know what it  *)
(* found, loses the user's values; from then on nothing is promised but     *)
(* that schemes nobody is in charge of are left alone.                      *)
(*                                                                         *)
(* PowerGovernor implements this with the contents of the schemes,          *)
(* ServiceLifecycle with several processes and one value.                   *)
(***************************************************************************)
CONSTANT Scheme

VARIABLES
  taken,  \* schemes whose contents are not the user's own
  charge, \* the scheme some daemon is in charge of: none or one
  lost    \* the user's values may be gone

vars == <<taken, charge, lost>>

Init ==
  /\ taken = {}
  /\ charge = {}
  /\ lost \in BOOLEAN

(* Only what somebody is in charge of changes. *)
OthersUntouched(owned) == taken' \ owned = taken \ owned

Take(g) ==
  /\ charge = {} /\ charge' = {g}
  /\ taken' \subseteq Scheme /\ OthersUntouched({g})
  /\ UNCHANGED lost

(* Governing, and the tray's pause and resume. *)
Rewrite ==
  /\ taken' \subseteq Scheme /\ OthersUntouched(charge)
  /\ UNCHANGED <<charge, lost>>

GiveBack ==
  /\ charge # {} /\ charge' = {}
  /\ taken' \subseteq Scheme /\ OthersUntouched(charge)
  /\ lost \/ taken' \cap charge = {}
  /\ UNCHANGED lost

(* The daemon dies, starts blind, gives back only in part or not at all.    *)
Lose ==
  /\ lost' = TRUE
  /\ charge' \in {charge, {}}
  /\ taken' \subseteq Scheme /\ OthersUntouched(charge)

Next ==
  \/ \E g \in Scheme : Take(g)
  \/ Rewrite
  \/ GiveBack
  \/ Lose

Spec == Init /\ [][Next]_vars

(* While nothing was lost, only the scheme in charge differs from what the  *)
(* user had, and nothing does when no daemon is in charge.                  *)
Kept == ~lost => taken \subseteq charge

=============================================================================
