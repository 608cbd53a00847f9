---------------------------- MODULE MCNpuOffload ----------------------------
EXTENDS NpuOffload

(* An operator of two tiles, and one of a single tile after it. *)
MCPlan == << <<1, 1>>, <<1, 2>>, <<2, 1>> >>
=============================================================================
