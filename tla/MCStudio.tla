------------------------------ MODULE MCStudio ------------------------------
(***************************************************************************)
(* A session of the studio with two presets and a handful of clicks.       *)
(***************************************************************************)
EXTENDS Studio

MCPreset == {"ecommerce", "iot"}
MCStage == {"silver"}

=============================================================================
