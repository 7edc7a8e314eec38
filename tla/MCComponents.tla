---------------------------- MODULE MCComponents ----------------------------
(* The commands: an update of both cores, which tells the version cache,   *)
(* a download of one, which does not, one of every other kind, and an      *)
(* apply of a desired state.                                               *)
EXTENDS Components, TLC

CONSTANTS a, b

\* Callers are not told apart.
Symmetry == Permutations(Callers)

Asked(kind) ==
    [kind |-> kind, force |-> TRUE, tell |-> FALSE, openClash |-> FALSE,
     flavors |-> <<>>, to |-> "meta"]

Update == [Asked("cores") EXCEPT !.flavors = <<"meta", "smart">>,
                                    !.tell = TRUE, !.openClash = TRUE]
Download == [Asked("cores") EXCEPT !.flavors = <<"meta">>, !.force = FALSE]
ToSmart == [Asked("switch") EXCEPT !.to = "smart"]

MCRequests ==
    {<<Update>>, <<Download>>, <<Asked("assets")>>,
     <<[Asked("dashboard") EXCEPT !.force = FALSE]>>,
     <<Asked("reset")>>, <<Asked("start")>>,
     <<Asked("dashboard"), ToSmart, Asked("start")>>}
=============================================================================
