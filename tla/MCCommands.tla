----------------------------- MODULE MCCommands -----------------------------
(***************************************************************************)
(* Two processes of one wallet.                                            *)
(***************************************************************************)
EXTENDS CommandsProperties

ProcessSymmetry == Permutations(Sessions)
=============================================================================
