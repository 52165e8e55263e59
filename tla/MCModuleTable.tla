---------------------------- MODULE MCModuleTable ----------------------------
(* Projects of an entry file, two more flows, a domain and a policy, in one   *)
(* directory or in a root directory and a subdirectory; and one of them with  *)
(* every choice of declarations of two modules in its flows, in two variants  *)
(* that differ in what a use has to supply.                                   *)
EXTENDS ModuleTable, TLC

WrittenSurface ==
    [w \in Written |-> CASE w \in {"m.mox"} -> "mox"
                         [] w \in {"p.actor"} -> "actor"
                         [] w \in {"x.evt"} -> "other"
                         [] OTHER -> "ifml"]

File(imports) == [parses |-> TRUE, imports |-> imports]
Broken == [parses |-> FALSE, imports |-> <<>>]

\* Every list of at most n imports from S, without repetition.
Lists(S, n) == {s \in UNION {[1..k -> S] : k \in 0..n} :
                   \A i, j \in DOMAIN s : s[i] = s[j] => i = j}

FlowContents(imports) == {Missing, Broken} \cup {File(l) : l \in imports}

InRoot == {"app.ifml", "a.ifml", "b.ifml", "m.mox", "p.actor", "x.evt", "sub/v.ifml"}
InSub == {"a.ifml", "b.ifml"}
AllPaths == {"/" \o w : w \in InRoot} \cup {"/sub/" \o w : w \in InSub} \cup {"/none"}
DirJoin ==
    [p \in AllPaths |-> [w \in InRoot |->
        IF p \notin {"/sub/v.ifml", "/sub/a.ifml", "/sub/b.ifml"} THEN "/" \o w
        ELSE IF w \in InSub THEN "/sub/" \o w ELSE "/none"]]

OnDisk(app, a, b, m, p, v, suba, subb) ==
    "/app.ifml" :> app @@ "/a.ifml" :> a @@ "/b.ifml" :> b @@ "/m.mox" :> m
    @@ "/p.actor" :> p @@ "/x.evt" :> File(<<>>) @@ "/sub/v.ifml" :> v
    @@ "/sub/a.ifml" :> suba @@ "/sub/b.ifml" :> subb @@ "/none" :> Missing

-----------------------------------------------------------------------------
(* All files in one directory: cycles, diamonds, broken and missing files. *)
FlatProjects ==
    {OnDisk(app, a, b, m, p, Missing, Missing, Missing) :
        app \in {Broken} \cup {File(l) : l \in Lists({"a.ifml", "b.ifml", "p.actor"}, 3)},
        a \in FlowContents(Lists({"a.ifml", "b.ifml", "m.mox"}, 2)),
        b \in FlowContents(Lists({"a.ifml", "app.ifml", "x.evt"}, 2)),
        m \in {Missing, File(<<>>)},
        p \in {Broken, File(<<"m.mox">>)}}

(* Two directories: a.ifml and b.ifml may be written in both. *)
TreeProjects ==
    {OnDisk(app, a, File(<<>>), Missing, Missing, v, suba, subb) :
        app \in {File(l) : l \in Lists({"a.ifml", "sub/v.ifml"}, 2)},
        a \in {Missing, Broken, File(<<"sub/v.ifml", "b.ifml">>), File(<<"b.ifml">>)},
        v \in FlowContents(Lists({"a.ifml", "b.ifml"}, 2)),
        suba \in {Missing, File(<<>>), File(<<"b.ifml">>)},
        subb \in {Missing, File(<<>>)}}

-----------------------------------------------------------------------------
(* A flow that imports two, one of which imports the third. *)
StarProject ==
    OnDisk(File(<<"a.ifml", "b.ifml">>), File(<<"sub/v.ifml">>), File(<<>>), Missing, Missing, File(<<>>), Missing, Missing)

Needy(name) == [name |-> name, required |-> {"page"}, accepted |-> {"page"}]
Plain(name) == [name |-> name, required |-> {}, accepted |-> {}]
Upto(S, n) == UNION {[1..k -> S] : k \in 0..n}
Variants == {Needy("Pager"), Plain("Pager"), Needy("Search")}
UseOf(name, overrides) == [target |-> name, overrides |-> overrides]

Flow(d, u) == [decls |-> d, uses |-> u]
SomeUses == <<UseOf("Pager", {}), UseOf("Pager", {"page"}), UseOf("Search", {"page"})>>
InFiles(app, a, b, v) ==
    [p \in AllPaths |-> CASE p = "/app.ifml" -> Flow(app, SomeUses)
                          [] p = "/a.ifml" -> Flow(a, <<UseOf("Search", {})>>)
                          [] p = "/b.ifml" -> Flow(b, <<>>)
                          [] p = "/sub/v.ifml" -> Flow(v, <<>>)
                          [] OTHER -> Flow(<<>>, <<>>)]

SomePrograms(project) ==
    {InFiles(<<>>, <<Plain("Pager")>>, <<Needy("Search"), Plain("Pager")>>, <<Plain("Search")>>)}
    \cup (IF project # StarProject THEN {}
          ELSE {InFiles(app, a, b, v) : app \in Upto(Variants, 2), a \in Upto(Variants, 2),
                                        b \in Upto(Variants, 1), v \in Upto(Variants, 1)})

AllProjects == FlatProjects \cup TreeProjects \cup {StarProject}
=============================================================================
