---------------------------- MODULE MCRetrieval ----------------------------
(* Two tenants with a document of the same name in one in-memory store.    *)
EXTENDS Retrieval

SharedName == {[tenant |-> t, doc |-> "handbook", version |-> "v1"] : t \in {"t1", "t2"}}
TwoChunks == [v \in {"v1"} |-> 2]
=============================================================================
