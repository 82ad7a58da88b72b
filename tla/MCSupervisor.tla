----------------------------- MODULE MCSupervisor -----------------------------
(***************************************************************************)
(* Instances of Supervisor: two channels behind one start command, and one  *)
(* channel for the temporal properties.                                    *)
(***************************************************************************)
EXTENDS Supervisor, TLC

CONSTANTS c1, c2, s1, s2, u1

\* Trees are interchangeable.
MCSymmetry == Permutations({s1, s2})
=============================================================================
