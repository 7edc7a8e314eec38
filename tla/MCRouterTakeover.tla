-------------------------- MODULE MCRouterTakeover --------------------------
(* The tools' calls, and desired states that change both parts.            *)
EXTENDS RouterTakeover, TLC

CONSTANTS a, b

\* Callers are not told apart.
Symmetry == Permutations(Callers)

Request(service, guarded, takeover) ==
    [service |-> service, guarded |-> guarded, takeover |-> takeover]

MCRequests ==
    {Request("leave", FALSE, "enabled"), Request("leave", FALSE, "disabled"),
     Request("stop", TRUE, "leave"), Request("start", FALSE, "enabled"),
     Request("restart_if_needed", FALSE, "leave"), Request("stop", FALSE, "disabled")}
=============================================================================
