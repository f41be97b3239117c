---------------------------- MODULE MCWireAttach ----------------------------
(* Small instances of WireAttach for TLC: one executable with both sets of *)
(* symbols, one with the TLS symbols only, one with none.                  *)
EXTENDS WireAttach

CONSTANTS e1, e2, e3

MCExecutable == {e1, e2, e3}
MCSymbolsOf == [e \in MCExecutable |-> CASE e = e1 -> {"secure", "be_tls"}
                                         [] e = e2 -> {"be_tls"}
                                         [] e = e3 -> {}]
=============================================================================
