------------------------------ MODULE Managed ------------------------------
(***************************************************************************)
(* What the contracts that inherit governance/Managed.sol share: the two   *)
(* pause switches they read from the controller, which the guardian turns, *)
(* and the subgraph deployments they keep records of.                      *)
(***************************************************************************)
CONSTANT Subgraphs    \* subgraph deployment IDs

VARIABLES paused,         \* controller.paused()
          partialPaused   \* controller.partialPaused()

pauses == <<paused, partialPaused>>

\* Faulty variant: the wrong switch.
NotPausedWrongSwitch == ~partialPaused

NotPaused        == ~paused
NotPartialPaused == ~paused /\ ~partialPaused

\* The guardian turns one of the switches.
SwitchPause == \/ paused' = ~paused /\ UNCHANGED partialPaused
               \/ partialPaused' = ~partialPaused /\ UNCHANGED paused
=============================================================================
