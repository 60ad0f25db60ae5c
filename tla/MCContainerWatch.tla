-------------------------- MODULE MCContainerWatch --------------------------
(* Ops with two ports: what they check decides how their exit is found. *)
EXTENDS ContainerWatch, TLC

CONSTANTS p, q

Op(policy, ofP, ofQ) == [policy |-> policy, checks |-> p :> ofP @@ q :> ofQ]

MCSetups ==
    {Op(FALSE, <<"liveness">>, <<"continuous">>),            \* polled, and restarted in place
     Op(TRUE, <<"startup">>, <<"continuous", "startup">>),   \* polled, and restarted by docker
     Op(FALSE, <<"continuous">>, <<>>)}                      \* waited for
=============================================================================
