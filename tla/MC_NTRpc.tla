------------------------------- MODULE MC_NTRpc -------------------------------
(***************************************************************************)
(* Model values and bounds for NTRpc.                                     *)
(***************************************************************************)
EXTENDS NTRpc

CONSTANTS t1, t2

MCCallers1 == {t1}
MCCallers2 == {t1, t2}

\* The part of the state space that carries one stale result across the
\* wrap of rpc_call_uid: at most one call in flight and one result waiting,
\* only the first and the latest call are ever waited for or answered, and
\* between the first and the last call no thread is inside GetRpcResult.
Tracked == {0, 1, calls}

WrapWindow ==
    /\ Cardinality(outstanding) <= 1 /\ Cardinality(results) <= 1
    /\ \A r \in results \cup outstanding : r.k \in Tracked
    /\ \A t \in Callers : /\ target[t].k \in Tracked
                         /\ ret[t].asked \in Tracked /\ ret[t].got \in Tracked
    /\ 1 < calls /\ calls < MaxCalls =>
          /\ isRpc
          /\ \A t \in Callers : pc[t] = "idle" /\ ret[t].asked \in {0, 1}

=============================================================================
