------------------------------- MODULE MCStation -------------------------------
(***************************************************************************)
(* An instance of Station: two handlers and two ports; updates that move   *)
(* the port, that touch both settings in either order, that fail at their  *)
(* second value, and a reset of everything.                                *)
(***************************************************************************)
EXTENDS Station

CONSTANTS a1, a2

Change(k, v) == [key |-> k, value |-> v]

MCDefault == [k \in Key |-> 1]

Table(port, other) == [k \in Key |-> IF k = "port" THEN port ELSE other]
MCRows == {Table(Unset, Unset), Table(2, Unset)}
MCOverrides == {Table(Unset, Unset), Table(2, 2)}

MCLists ==
    { <<Change("port", 2)>>,
      <<Change("other", 2), Change("port", Bad)>>,
      <<Change("port", 2), Change("other", Bad)>>,
      <<Change("port", 1), Change("other", 1)>> }
=============================================================================
