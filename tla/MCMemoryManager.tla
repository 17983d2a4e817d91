-------------------------- MODULE MCMemoryManager --------------------------
(* Instances of MemoryManager for TLC: two applications and one allowlisted *)
(* process.                                                                 *)
EXTENDS MemoryManager

CONSTANTS app, other, shell

MCProcess == {app, other}
MCSystem  == {shell}

=============================================================================
