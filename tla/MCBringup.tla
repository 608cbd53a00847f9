----------------------------- MODULE MCBringup -----------------------------
(* Bringup with a short text to write, newlines in and after the rings' ends. *)
EXTENDS Bringup

MCScript == <<"a", "b", "\n">>
=============================================================================
