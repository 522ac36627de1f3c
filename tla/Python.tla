------------------------------- MODULE Python -------------------------------
(***************************************************************************)
(* What the modules that Periphery composes have in common.                *)
(***************************************************************************)
CONSTANT None   \* Python's None
=============================================================================
