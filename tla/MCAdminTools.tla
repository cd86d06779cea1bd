----------------------------- MODULE MCAdminTools -----------------------------
(***************************************************************************)
(* Instance of AdminTools: a buffer of two pages behind a BAR of one.      *)
(***************************************************************************)
EXTENDS AdminTools, TLC

CONSTANTS p1, p2, p3, a1, a2, q1, q2

\* BAR 0 and all behind it; what BdbmPcie maps; from inside the buffer
MCMaps == {<<0, 4>>, <<1, 3>>, <<2, 3>>}
MCHostMap == <<1, 3>>

MCSymmetry == Permutations(Pages) \cup Permutations(Procs)
=============================================================================
