------------------------- MODULE MCPatchTransaction -------------------------
(***************************************************************************)
(* PatchTransaction for TLC.  Patch "p" can be rewritten, retitled and     *)
(* removed, patch "q" is the neighbour that exists or not, and one         *)
(* operation list exchanges the places of the two: every kind of commit    *)
(* (create, rewrite, rename, remove, reorder) occurs.                      *)
(***************************************************************************)
EXTENDS PatchTransaction, TLC

Patch(id, slug, order, rev) == [id |-> id, slug |-> slug, order |-> order, rev |-> rev]

MCP == Patch("p", "s1", "o1", 1)
MCPRewritten == Patch("p", "s1", "o1", 2)
MCPRetitled == Patch("p", "s2", "o1", 1)
MCPMoved == Patch("p", "s1", "o2", 1)
MCQ == Patch("q", "s1", "o2", 1)
MCQMoved == Patch("q", "s1", "o1", 1)
MCQTombstoned == Patch("q", "s1", NoOrder, 1)

Upsert(r) == [names |-> {r.id}, put |-> {r}]
Remove(id) == [names |-> {id}, put |-> {}]
Exchange == [names |-> {"p", "q"}, put |-> {MCPMoved, MCQMoved}]

MCRecord == {MCP, MCPRewritten, MCPRetitled, MCPMoved, MCQ, MCQMoved, MCQTombstoned}
MCRequests ==
    {Upsert(MCPRewritten), Upsert(MCPRetitled), Upsert(MCQTombstoned), Remove("p"), Exchange}

(* An empty workspace and one with both patches.                           *)
MCInstalled == {{}, {MCP, MCQ}}

ClientSymmetry == Permutations(Clients)
=============================================================================
