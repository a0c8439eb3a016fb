------------------------------- MODULE RpcCall -------------------------------
(***************************************************************************)
(* What GetRpcResult promises its callers (spec 4.6), without threads,    *)
(* locks or call uids.  Calls are numbered 1, 2, ... in the order CallRpc  *)
(* sent them.  A response that arrives is kept until a caller takes it; a  *)
(* caller returns true only with the response of the call it asked for,   *)
(* and each response is taken at most once.  A caller may give up         *)
(* (false) at any time.                                                    *)
(***************************************************************************)
CONSTANTS
    Callers,   \* the threads calling GetRpcResult
    Calls      \* the numbers of the calls made

VARIABLES
    waiting,   \* waiting[t]: the call t waits for inside GetRpcResult, 0 if none
    pending,   \* the calls whose response arrived and has not been taken
    ret        \* ret[t]: [ok, asked, got] of t's last GetRpcResult

vars == <<waiting, pending, ret>>

NoRet == [ok |-> FALSE, asked |-> 0, got |-> 0]

Init ==
    /\ waiting = [t \in Callers |-> 0]
    /\ pending = {}
    /\ ret = [t \in Callers |-> NoRet]

\* The response of call k arrives.
Arrive(k) ==
    /\ k \notin pending
    /\ pending' = pending \cup {k}
    /\ UNCHANGED <<waiting, ret>>

\* t starts to wait for call k.
Begin(t, k) ==
    /\ waiting[t] = 0
    /\ waiting' = [waiting EXCEPT ![t] = k]
    /\ UNCHANGED <<pending, ret>>

\* t returns from GetRpcResult for call k, at once or after waiting: with
\* the response of k, which it takes, or with false.
Return(t, k, ok) ==
    /\ waiting[t] \in {0, k}
    /\ ok => k \in pending
    /\ pending' = IF ok THEN pending \ {k} ELSE pending
    /\ waiting' = [waiting EXCEPT ![t] = 0]
    /\ ret' = [ret EXCEPT ![t] = [ok |-> ok, asked |-> k, got |-> IF ok THEN k ELSE 0]]

\* A waiter whose response is there takes it.
TakeResult(t) == waiting[t] # 0 /\ Return(t, waiting[t], TRUE)

Next ==
    \/ \E k \in Calls : Arrive(k)
    \/ \E t \in Callers, k \in Calls : Begin(t, k) \/ \E ok \in BOOLEAN : Return(t, k, ok)

Spec == Init /\ [][Next]_vars /\ \A t \in Callers : WF_vars(TakeResult(t))

=============================================================================
