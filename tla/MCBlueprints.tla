---------------------------- MODULE MCBlueprints ----------------------------
(* Blueprints, as it is: its constants are numbers.                         *)
EXTENDS Blueprints
=============================================================================
