-------------------------- MODULE MCSolverCapability --------------------------
(***************************************************************************)
(* A solver over a bridge over a core: the core is reached directly, under *)
(* an alias, through a static library's private links, and links back.     *)
(***************************************************************************)
EXTENDS SolverCapability

CONSTANTS app, bridge, core, alias

MCAliasOf == [name \in {alias} |-> core]
Link(from, to, scope) == [from |-> from, to |-> to, scope |-> scope]
MCLinkable ==
    {Link(app, bridge, "private"), Link(app, alias, "private"),
     Link(bridge, core, "static"), Link(bridge, alias, "interface"),
     Link(bridge, core, "private"), Link(core, bridge, "public")}
==============================================================================
