----------------------------- MODULE MCWorkflow -----------------------------
(***************************************************************************)
(* A plan with a branch that may fail, a join of both its outcomes with    *)
(* two other branches, and boundaries before and behind nodes of two.      *)
(***************************************************************************)
EXTENDS Workflow

Link(from, route, to) == [from |-> from, to |-> to, route |-> route]
MCEdges ==
    {Link(1, "success", 2), Link(1, "success", 3), Link(1, "success", 7),
     Link(2, "success", 4), Link(2, "error", 5), Link(3, "success", 5),
     Link(4, "success", 5), Link(7, "success", 5), Link(5, "success", 6)}
MCPolicy == [n \in 1 .. 7 |-> IF n = 2 THEN "route_error"
                              ELSE IF n = 3 THEN "continue_with_default" ELSE "stop"]
=============================================================================
