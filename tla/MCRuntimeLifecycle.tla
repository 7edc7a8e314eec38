------------------------- MODULE MCRuntimeLifecycle -------------------------
(***************************************************************************)
(* RuntimeLifecycle for TLC: which calls each caller may make.  "good" and *)
(* "better" are configs the core accepts, "bad" is one it rejects.         *)
(***************************************************************************)
EXTENDS RuntimeLifecycle, TLC

CONSTANTS a, b

(* Configs that are all valid can stand for one another.                   *)
ConfigSymmetry == Permutations(Configs)

(* One agent that starts, stops and routes, and another that tests.        *)
MCAgentAndTester ==
    (a :> {"run", "restart", "reload", "stop", "apply", "release"}) @@ (b :> {"test"})

(* Two agents, or an agent and the CLI, that both start runtimes.          *)
MCTwoStarters == (a :> {"run", "restart"}) @@ (b :> {"run", "restart"})

(* Two agents that both stop the runtime that one of them starts, and both *)
(* route the traffic to it.                                                *)
MCTwoRouters ==
    (a :> {"run", "restart", "reload", "stop", "apply"}) @@ (b :> {"stop", "apply", "release"})
=============================================================================
