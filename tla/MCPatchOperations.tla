------------------------- MODULE MCPatchOperations -------------------------
(* Two template patches in two releases, one user patch.  A whole is four  *)
(* units; like the code's, the open end is below the second template patch.*)
EXTENDS PatchOperations

MCText == STRING

Patch(id, title, source, status, order, overlay) ==
    [id |-> id, title |-> title, source |-> source, status |-> status,
     order |-> order, overlay |-> overlay]
Template(id, title, order, overlay) ==
    Patch(id, title, "policy_template", "enabled", order, overlay)

MCReleases ==
    [v1 |-> <<Template("base", "Base", 0, "v1"), Template("exits", "Exits", 4, "v1")>>,
     v2 |-> <<Template("base", "Base", 0, "v2"), Template("exits", "Regions", 4, "v2")>>]

Shop == Patch("shop", "Shop", "user", "enabled", 16, "v1")
MCRegistries == {{}, ToSet(MCReleases.v1) \union {Shop}}

NoOp == [op |-> None, id |-> None, base |-> None, title |-> None, source |-> None,
         status |-> None, order |-> None, overlay |-> "none", after |-> None, before |-> None]
Put(id, source, order) ==
    [NoOp EXCEPT !.op = "upsert_patch", !.id = id, !.source = source, !.order = order,
                 !.overlay = "v3"]
Drop(id) == [NoOp EXCEPT !.op = "remove_patch", !.id = id]
SetStatus(id, status) == [NoOp EXCEPT !.op = "set_patch_status", !.id = id, !.status = status]
Reorder(id, order, after, before) ==
    [NoOp EXCEPT !.op = "reorder_patch", !.id = id, !.order = order,
                 !.after = after, !.before = before]

Ids == {"base", "exits", "shop"}
Single ==
    {Put(id, None, None) : id \in Ids}
    \union {[Put("shop", None, None) EXCEPT !.title = "Bank", !.base = Shop]}
    \union {Put("game", "agent", o) : o \in {None, 0}}
    \union {Drop(id) : id \in {"exits", "shop"}}
    \union {SetStatus("exits", "enabled"), SetStatus("shop", "disabled")}
    \union {Reorder("shop", None, a, b) : a, b \in {None, "base", "exits"}}
    \union {Reorder("exits", None, "shop", None), Reorder("shop", 4, None, None),
            Reorder("base", None, "base", None)}
MCDrafts ==
    {<<op>> : op \in Single}
    \union {<<Drop("exits"), op>> : op \in {Reorder("shop", 4, None, None), SetStatus("exits", "enabled"),
                                              Put("game", "agent", None)}}
    \union {<<Drop("shop"), Put("shop", None, None)>>,
              <<Put("game", None, 0), Put("game", None, None)>>}
=============================================================================
