----------------------------- MODULE MCRPCCalls -----------------------------
(* RPCCalls for TLC: the sets that can be permuted without being noticed. *)
EXTENDS RPCCalls, TLC

Symmetry == Permutations(Plugins) \cup Permutations(Handles) \cup Permutations(Ids)
            \cup Permutations(Callbacks) \cup Permutations(Names) \cup Permutations(Objs)
=============================================================================
