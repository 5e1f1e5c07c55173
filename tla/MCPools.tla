------------------------------ MODULE MCPools ------------------------------
(* Small instances of WorkerPools. *)
EXTENDS WorkerPools, TLC

\* Three invokes on one stub.
OneStub == "i1" :> "s" @@ "i2" :> "s" @@ "i3" :> "s"

\* Two invokes on one stub.
TwoOnOne == "i1" :> "s" @@ "i2" :> "s"

\* Three invokes on two stubs that share the pool.
ThreeOnTwo == "a1" :> "a" @@ "a2" :> "a" @@ "b1" :> "b"

Symmetry == Permutations(Workers)
=============================================================================
