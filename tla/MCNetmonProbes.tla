--------------------------- MODULE MCNetmonProbes ---------------------------
(* A small instance of NetmonProbes for TLC: two connections, or the two   *)
(* ends of one, and two CPUs.                                              *)
EXTENDS NetmonProbes, TLC

CONSTANTS a1, a2, s1, s2, k1, k2, e1, e2, e3

MCKeyings == {s1 :> k1 @@ s2 :> k2, s1 :> k1 @@ s2 :> k1}

MCSymmetry == Permutations({a1, a2}) \union Permutations({e1, e2, e3})

\* The properties say nothing more once every socket's key is disturbed.
Telling == ~ ({keyOf[s] : s \in Socket} \subseteq disturbed)

\* Bound: while the loader attaches, one CPU is in a traced function.
CalmLoading ==
    attached < Probes =>
        Cardinality({a \in Actor : run[a] # Idle \/ call[a] # NotSending}) <= 1

\* Bound: all MaxTransfers transfers in tracing mode, one while the loader
\* attaches and one in kprobe mode, where sends of another port come on top.
FewTransfers == (mode = "kprobe" \/ attached < Probes) => transfers <= 1
=============================================================================
