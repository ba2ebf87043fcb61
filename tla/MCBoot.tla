--------------------------------- MODULE MCBoot ---------------------------------
(* The boot sequence with a keyboard that sends a few bytes. *)
EXTENDS Boot
================================================================================
