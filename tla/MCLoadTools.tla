------------------------------ MODULE MCLoadTools ------------------------------
(* One guest, one inn under the marker and one for loadprep. *)
EXTENDS LoadTools, TLC

CONSTANTS r1, r2

MCRequests == {r1, r2}
MCSeedMembers == <<"loadtest-booker-1">>
Symmetry == Permutations(MCRequests)
=============================================================================
