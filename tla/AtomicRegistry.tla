--------------------------- MODULE AtomicRegistry ---------------------------
(***************************************************************************)
(* What config_patch_apply promises of the patch registry: it changes only *)
(* by whole reviewed operations, each applied to exactly the registry its  *)
(* draft was made on; a failed apply leaves no trace.  README.md, "After   *)
(* review, config_patch_apply verifies registry/base hashes, backs up      *)
(* replaced local artifacts, writes changed patches/*.json".               *)
(***************************************************************************)
CONSTANTS
    Patches,              \* the records a registry can hold
    Operations,           \* what an agent can ask for
    Result(_, _)          \* the registry an operation turns a registry into

VARIABLES
    registry,
    proposals             \* <<registry it was drafted on, operation>>

Init == registry \subseteq Patches /\ proposals = {}

(* A draft may be made on any registry its author happened to read.        *)
Propose ==
    /\ \E p \in proposals' :
          /\ p \in (SUBSET Patches) \X Operations
          /\ proposals' = proposals \cup {p}
    /\ UNCHANGED registry

Apply ==
    /\ \E p \in proposals :
          /\ p[1] = registry
          /\ registry' = Result(p[1], p[2])
    /\ UNCHANGED proposals

Next == Propose \/ Apply

Spec == Init /\ [][Next]_<<registry, proposals>>
=============================================================================
