--------------------------- MODULE MCTrayMailbox ---------------------------
(* Instances of TrayMailbox for TLC: the order of the source text, and the  *)
(* order GCC 12 gives the stores of post_cmd at -O3.                        *)
EXTENDS TrayMailbox

SourceOrder    == {<<"cmd", "cmd_value", "cmd_seq">>}
OptimizedOrder == {<<"cmd_seq", "cmd", "cmd_value">>}
EitherOrder    == SourceOrder \cup OptimizedOrder

=============================================================================
