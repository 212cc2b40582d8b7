-------------------------- MODULE MCAiDescription --------------------------
(* Small instances of module AiDescription for TLC.                         *)
EXTENDS AiDescriptionProps, TLC
=============================================================================
