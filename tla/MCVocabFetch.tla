---------------------------- MODULE MCVocabFetch ----------------------------
EXTENDS VocabFetch, TLC

Stem == "iso:4217" :> "iso-4217" @@ "iso:3166" :> "iso-3166"
Dated(s, v) == [source |-> s, version |-> v]
Latest(s) == [source |-> s, version |-> Nothing]

\* One model text per shape: one vocabulary or two, pinned by the model or by
\* the lock, or one that is declared twice.
SomeTexts ==
    {<<Dated("iso:4217", "v1")>>, <<Dated("iso:4217", "v2"), Latest("iso:3166")>>,
     <<Dated("iso:3166", "v1"), Latest("iso:4217")>>,
     <<Latest("iso:4217"), Dated("iso:4217", "v2")>>}

ASSUME DistinctStems /\ \A t \in SomeTexts : OneVersion(t)
=============================================================================
