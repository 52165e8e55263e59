---------------------------- MODULE MCLspServer ----------------------------
(* A flow `a` and a flow `b` that import each other in some of their         *)
(* contents, a domain `m` and a policy `p` they reach, and a design `g`.     *)
EXTENDS LspServer, TLC

FlowDocs == {"a.ifml", "b.ifml", "m.mox"}

Surface == "a.ifml" :> "ifml" @@ "b.ifml" :> "ifml" @@ "m.mox" :> "mox"
           @@ "p.actor" :> "actor" @@ "g.ddd" :> "ddd"

Contents == {"a1", "a2", "b1", "b2", "m1", "m2", "p1", "p2", "g1"}

ContentsOf == "a.ifml" :> {"a1", "a2"} @@ "b.ifml" :> {"b1", "b2"}
              @@ "m.mox" :> {"m1", "m2"} @@ "p.actor" :> {"p1", "p2"}
              @@ "g.ddd" :> {"g1"}

\* a1 imports b, a2 nothing; b1 imports m, b2 imports a and m.
ImportsIn == "a1" :> {"b.ifml"} @@ "a2" :> {}
             @@ "b1" :> {"m.mox"} @@ "b2" :> {"a.ifml", "m.mox"}
             @@ "m1" :> {} @@ "m2" :> {}
             @@ "p1" :> {"m.mox"} @@ "p2" :> {} @@ "g1" :> {"m.mox"}

Initially == "a.ifml" :> "a1" @@ "b.ifml" :> "b1" @@ "m.mox" :> "m1"
             @@ "p.actor" :> "p1" @@ "g.ddd" :> "g1"

On(f, S) == [d \in S |-> f[d]]

FlowSurface == On(Surface, FlowDocs)
FlowContentsOf == On(ContentsOf, FlowDocs)
FlowContents == UNION {ContentsOf[d] : d \in FlowDocs}
FlowImportsIn == On(ImportsIn, FlowContents)
FlowDisk == On(Initially, FlowDocs)
FlowSiblings == [d \in FlowDocs |-> FlowDocs \ {d}]

\* The flows, the domain and a design that imports it.
MixedDocs == FlowDocs \cup {"g.ddd"}
MixedSurface == On(Surface, MixedDocs)
MixedContentsOf == On(ContentsOf, MixedDocs)
MixedContents == UNION {ContentsOf[d] : d \in MixedDocs}
MixedImportsIn == On(ImportsIn, MixedContents)
MixedDisk == On(Initially, MixedDocs)
MixedSiblings == [d \in MixedDocs |-> MixedDocs \ {d}]

SlotSymmetry == Permutations(Slots)
=============================================================================
