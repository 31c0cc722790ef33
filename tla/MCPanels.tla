------------------------------ MODULE MCPanels ------------------------------
(* The small instances of the panels. *)
EXTENDS Panels, Sequences, TLC

CONSTANTS web, db, skill, hook

MCSymmetry == Permutations(Request)

-----------------------------------------------------------------------------
(* Listing: four entities, in an order that makes a filter move some.      *)
MCStored == << [id |-> 1, kind |-> hook], [id |-> 2, kind |-> skill],
               [id |-> 3, kind |-> hook], [id |-> 4, kind |-> skill] >>

-----------------------------------------------------------------------------
(* Containers: an entry moves to another place of the list, changes how it *)
(* is run, goes, or becomes a service of a project.                        *)
MCEntry(n, m, cs) == [name |-> n, mode |-> m, services |-> cs]
MCFiles ==
    {<<MCEntry(web, "compose", {}), MCEntry(db, "external", {})>>,
     <<MCEntry(db, "image", {}), MCEntry(web, "compose", {})>>,
     <<MCEntry(web, "compose", {web, db})>>}

-----------------------------------------------------------------------------
(* Vault: a chain of directories, and one that the vault does not keep. *)
MCDirs == {<<"a">>, <<"a", "b">>, <<"a", "b", "c">>, <<"d">>}
MCAccepted == MCDirs \ {<<"d">>}
MCInitAllowed == {<<"a">>}

-----------------------------------------------------------------------------
(* Disk: two images that share a layer. *)
MCImage == {"i1", "i2"}
MCLayers == [i \in MCImage |-> {"base", i}]

-----------------------------------------------------------------------------
(* Graph: rules that overlap, need several kinds of suppliers or name one  *)
(* that is not there, and MCP servers that no rule is about.               *)
MCTier == {"wsl", "windows"}
MCProcess == {<<"wsl", "files">>, <<"windows", "files">>, <<"windows", "llama-server">>}
MCNeed(k, name, tier) == [kind |-> k, name |-> name, tier |-> tier]
MCEntityOf(id, mcp, name, scope) ==
    [id |-> id, mcp |-> mcp, key |-> <<IF mcp THEN "mcp" ELSE "skill", name>>, name |-> name, scope |-> scope]
MCEntities ==
    {MCEntityOf("e1", TRUE, "search", "host"), MCEntityOf("e2", TRUE, "llama", "repo"),
     MCEntityOf("e3", FALSE, "notes", "repo"), MCEntityOf("e4", TRUE, "gone", "host"),
     MCEntityOf("e5", TRUE, "search", "repo")}
MCRules ==
    << [entity |-> <<"mcp", "search">>, scope |-> "*",
        needs |-> {MCNeed("service", "files", "windows")}],
       [entity |-> <<"mcp", "search">>, scope |-> "host",
        needs |-> {MCNeed("bridge", "relay", "")}],
       [entity |-> <<"mcp", "search">>, scope |-> "project:*",
        needs |-> {MCNeed("container", "db", ""), MCNeed("service", "files", "")}],
       [entity |-> <<"skill", "notes">>, scope |-> "repo",
        needs |-> {MCNeed("service", "llama-server", "windows")}] >>
MCAlike == {<<"llama", "llama-server">>}

-----------------------------------------------------------------------------
(* Index: a memory of its own, one of the same name in a project, another. *)
MCFile == {"memory/a", "p/memory/a", "q/memory/b"}
MCKeyOf == [f \in MCFile |-> IF f = "q/memory/b" THEN "b" ELSE "a"]
MCConventional == {"memory/a"}

-----------------------------------------------------------------------------
(* Discovery: a home directory, two projects side by side, and containers  *)
(* that lead to them by mounts and labels of every kind.                   *)
MCHome == <<"home", "u">>
MCApp == <<"home", "u", "ws", "app">>
MCLib == <<"home", "u", "ws", "lib">>
MCExtraPaths == <<MCApp>>
MCHostDirs == {MCHome, MCApp, MCLib}
MCShape(labels, root, form, folder, mount, vol) ==
    [labels |-> labels, root |-> root, folder |-> [form |-> form, path |-> folder],
     mount |-> mount, vol |-> vol]
MCNoMount == [type |-> "none", at |-> <<>>]
MCBind(dir) == [type |-> "bind", at |-> Append(dir, ".claude")]
MCVolume(name) == [type |-> "volume", at |-> <<name>>]
MCShapes ==
    {MCShape({"devcontainer.local_folder"}, <<>>, "unc", MCApp, MCBind(MCApp), <<>>),
     MCShape({"devcontainer.local_folder", "claude.managed"}, <<>>, "posix", MCLib, MCVolume("v"), <<>>),
     MCShape({"devcontaine.local_folder"}, <<>>, "windows", MCLib, MCVolume("v"), <<>>),
     MCShape({"claude.managed"}, <<>>, "posix", <<>>, MCNoMount, <<"v">>),
     MCShape({"claude.managed"}, MCLib, "posix", <<>>, MCBind(MCHome), <<>>),
     MCShape({"claude.managed"}, <<>>, "posix", <<>>, MCBind(MCHome), <<>>)}
=============================================================================
