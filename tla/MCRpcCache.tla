----------------------------- MODULE MCRpcCache -----------------------------
(* Instances of RpcCache: two accounts, asked for alone, together and twice.  *)
EXTENDS RpcCache

CONSTANTS p, q

KeyLists == {<<p>>, <<q, p>>, <<p, q, p>>}
=============================================================================
