-------------------------------- MODULE NTRpc --------------------------------
(***************************************************************************)
(* The remote-procedure-call coordinator of a client's Storage for one RPC *)
(* entry: CallRpc, GetRpcResult, CancelRpcResult, ProcessIncomingRpcResponse*)
(* and the destructor (Storage.cpp).                                       *)
(*                                                                         *)
(* Caller threads call CallRpc and then GetRpcResult, which waits on       *)
(* m_rpc_results_cond.  A waiting thread gives up the mutex; notify_all    *)
(* makes every waiting thread runnable, and a runnable thread continues    *)
(* once it has the mutex again.  Waits may also end spuriously or, with a  *)
(* finite timeout, by timing out.  The server and the network are a set of *)
(* outstanding calls whose response may come back at any time or be lost. *)
(* The ghost index k of a call (the k-th CallRpc that returned a uid)      *)
(* travels with its response, so a result can be told apart from the      *)
(* result of an older call that had the same call uid.                     *)
(***************************************************************************)
EXTENDS Integers, FiniteSets

CONSTANTS
    Callers,       \* threads calling the RPC API
    NoThread,      \* no thread holds m_mutex
    Destructible,  \* whether ~Storage may run while callers are inside
    MaxCalls,      \* bound on CallRpc calls
    MaxOps         \* bound on cancels, response arrivals and entry changes

ASSUME NoThread \notin Callers /\ Destructible \in BOOLEAN

\* Entry::rpc_call_uid is an unsigned int that CallRpc wraps after 0xffff.
CallUidMax == 65535
CallUids == 0..CallUidMax

\* A call a thread waits for or cancels: the call uid CallRpc returned and,
\* as a ghost, k for the k-th call.  NoCall: not waiting for any.
NoCall == [uid |-> 0, k |-> 0]

Timeouts == {"zero", "finite", "infinite"}

\* pc: "idle"; "check" inside GetRpcResult holding the mutex; "waiting" in
\* the condition variable; "woken" runnable after a wakeup; "expired"
\* runnable after wait_until reported a timeout.
PCs == {"idle", "check", "waiting", "woken", "expired"}

NoRet == [ok |-> FALSE, asked |-> 0, got |-> 0]

VARIABLES
    lock,         \* the thread holding m_mutex across a wait decision
    callUid,      \* Entry::rpc_call_uid
    isRpc,        \* the entry's value is an RPC definition
    blocking,     \* m_rpc_blocking_calls: call uids being waited for
    results,      \* m_rpc_results: set of [uid, k]
    outstanding,  \* calls sent and not yet answered: set of [uid, k]
    terminating,  \* m_terminating
    pc, target, tmo,
    callRet,      \* ghost: what each thread's last CallRpc returned
    ret,          \* ghost: what each thread's last GetRpcResult returned
    calls, ops

vars == <<lock, callUid, isRpc, blocking, results, outstanding, terminating,
          pc, target, tmo, callRet, ret, calls, ops>>

Init ==
    /\ lock = NoThread
    /\ callUid = 0
    /\ isRpc = TRUE
    /\ blocking = {}
    /\ results = {}
    /\ outstanding = {}
    /\ terminating = FALSE
    /\ pc = [t \in Callers |-> "idle"]
    /\ target = [t \in Callers |-> NoCall]
    /\ tmo = [t \in Callers |-> "zero"]
    /\ callRet = [t \in Callers |-> [uid |-> 0, k |-> 0, valid |-> FALSE]]
    /\ ret = [t \in Callers |-> NoRet]
    /\ calls = 0
    /\ ops = 0

Free == lock = NoThread

\* notify_all: every waiting thread becomes runnable.
NotifyAll(p) == [t \in Callers |-> IF p[t] = "waiting" THEN "woken" ELSE p[t]]

HasResult(u) == \E r \in results : r.uid = u
ResultFor(u) == CHOOSE r \in results : r.uid = u

-----------------------------------------------------------------------------
(* CallRpc (client): increment rpc_call_uid, wrapping after 0xffff, and    *)
(* queue an ExecuteRpc; 0 when the entry is not an RPC.                    *)

NextCallUidNoWrap(u) == u + 1

NextCallUid(u) == IF u + 1 > CallUidMax THEN 0 ELSE u + 1

CallRpc(t) ==
    /\ Free /\ pc[t] = "idle" /\ calls < MaxCalls
    /\ IF ~isRpc
       THEN /\ callRet' = [callRet EXCEPT ![t] = [uid |-> 0, k |-> 0, valid |-> FALSE]]
            /\ UNCHANGED <<callUid, outstanding, calls>>
       ELSE LET u == NextCallUid(callUid) IN
            /\ callUid' = u
            /\ calls' = calls + 1
            /\ outstanding' = outstanding \cup {[uid |-> u, k |-> calls + 1]}
            /\ callRet' = [callRet EXCEPT ![t] = [uid |-> u, k |-> calls + 1, valid |-> TRUE]]
    /\ UNCHANGED <<lock, isRpc, blocking, results, terminating, pc, target, tmo,
                   ret, ops>>

-----------------------------------------------------------------------------
(* GetRpcResult(local_id, call_uid, result, timeout, timed_out).           *)

\* Leaving GetRpcResult for the k-th call: release the mutex, record the
\* outcome.
Return(t, k, ok, got) ==
    /\ lock' = NoThread
    /\ pc' = [pc EXCEPT ![t] = "idle"]
    /\ ret' = [ret EXCEPT ![t] = [ok |-> ok, asked |-> k, got |-> got]]

\* (Mutant) a variant of LoopCheck that hands out the result without
\* erasing it from m_rpc_results.
LoopCheckKeepResult(t, c, tm, bl) ==
    IF HasResult(c.uid)
    THEN /\ blocking' = bl \ {c.uid}
         /\ Return(t, c.k, TRUE, ResultFor(c.uid).k)
         /\ UNCHANGED results
    ELSE IF tm = "zero" \/ terminating
    THEN /\ blocking' = bl \ {c.uid}
         /\ Return(t, c.k, FALSE, 0)
         /\ UNCHANGED results
    ELSE /\ lock' = t
         /\ pc' = [pc EXCEPT ![t] = "check"]
         /\ blocking' = bl
         /\ UNCHANGED <<results, ret>>

\* The top of the for(;;) loop, run by t while holding the mutex, with the
\* blocking set bl: take the result, give up (timeout 0 or terminating), or
\* decide to wait.
LoopCheck(t, c, tm, bl) ==
    LET u == c.uid
        k == c.k
    IN
    IF HasResult(u)
    THEN /\ results' = results \ {ResultFor(u)}
         /\ blocking' = bl \ {u}
         /\ Return(t, k, TRUE, ResultFor(u).k)
    ELSE IF tm = "zero" \/ terminating
    THEN /\ blocking' = bl \ {u}
         /\ Return(t, k, FALSE, 0)
         /\ UNCHANGED results
    ELSE /\ lock' = t
         /\ pc' = [pc EXCEPT ![t] = "check"]
         /\ blocking' = bl
         /\ UNCHANGED <<results, ret>>

\* Thread t asks for the result of the k-th call with timeout tm; a second
\* blocking call on the same call uid is refused.
GetRpcResult(t, c, tm) ==
    /\ Free /\ pc[t] = "idle"
    /\ target' = [target EXCEPT ![t] = c]
    /\ tmo' = [tmo EXCEPT ![t] = tm]
    /\ IF c.uid \in blocking
       THEN /\ Return(t, c.k, FALSE, 0)
            /\ UNCHANGED <<blocking, results>>
       ELSE LoopCheck(t, c, tm, blocking \cup {c.uid})
    /\ UNCHANGED <<callUid, isRpc, outstanding, terminating, callRet, calls, ops>>

\* cv.wait / wait_until: release the mutex and sleep.  m_terminating is read
\* before this step without the destructor taking the mutex.
Wait(t) ==
    /\ lock = t /\ pc[t] = "check"
    /\ lock' = NoThread
    /\ pc' = [pc EXCEPT ![t] = "waiting"]
    /\ UNCHANGED <<callUid, isRpc, blocking, results, outstanding, terminating,
                   target, tmo, callRet, ret, calls, ops>>

\* A wait ends without a notification.
SpuriousWakeup(t) ==
    /\ pc[t] = "waiting"
    /\ pc' = [pc EXCEPT ![t] = "woken"]
    /\ UNCHANGED <<lock, callUid, isRpc, blocking, results, outstanding,
                   terminating, target, tmo, callRet, ret, calls, ops>>

\* wait_until reports cv_status::timeout: the deadline passed before the
\* thread got the mutex back, whether or not it was notified.
TimeOut(t) ==
    /\ tmo[t] = "finite" /\ pc[t] \in {"waiting", "woken"}
    /\ pc' = [pc EXCEPT ![t] = "expired"]
    /\ UNCHANGED <<lock, callUid, isRpc, blocking, results, outstanding,
                   terminating, target, tmo, callRet, ret, calls, ops>>

\* A variant of Resume without the check for a cancelled call.
ResumeIgnoringCancel(t) ==
    LET k == target[t].k
        u == target[t].uid
    IN
    /\ Free /\ pc[t] \in {"woken", "expired"}
    /\ CASE pc[t] = "expired" ->
              /\ blocking' = blocking \ {u}
              /\ Return(t, k, FALSE, 0)
              /\ UNCHANGED results
          [] terminating ->
              /\ blocking' = blocking \ {u}
              /\ Return(t, k, FALSE, 0)
              /\ UNCHANGED results
          [] OTHER -> LoopCheck(t, target[t], tmo[t], blocking)
    /\ UNCHANGED <<callUid, isRpc, outstanding, terminating, target, tmo,
                   callRet, calls, ops>>

\* The wait returned and t holds the mutex again.
Resume(t) ==
    LET k == target[t].k
        u == target[t].uid
    IN
    /\ Free /\ pc[t] \in {"woken", "expired"}
    /\ CASE pc[t] = "expired" ->
              /\ blocking' = blocking \ {u}
              /\ Return(t, k, FALSE, 0)
              /\ UNCHANGED results
          \* if element does not exist, we have been canceled
          [] u \notin blocking ->
              /\ Return(t, k, FALSE, 0)
              /\ UNCHANGED <<blocking, results>>
          [] terminating ->
              /\ blocking' = blocking \ {u}
              /\ Return(t, k, FALSE, 0)
              /\ UNCHANGED results
          [] OTHER -> LoopCheck(t, target[t], tmo[t], blocking)
    /\ UNCHANGED <<callUid, isRpc, outstanding, terminating, target, tmo,
                   callRet, calls, ops>>

-----------------------------------------------------------------------------
(* The other operations that take the mutex and notify waiters.            *)

\* CancelRpcResult for the k-th call.
CancelRpcResult(c) ==
    /\ Free /\ ops < MaxOps
    /\ blocking' = blocking \ {c.uid}
    /\ pc' = NotifyAll(pc)
    /\ ops' = ops + 1
    /\ UNCHANGED <<lock, callUid, isRpc, results, outstanding, terminating,
                   target, tmo, callRet, ret, calls>>

\* ProcessIncomingRpcResponse: a response for an entry that is no longer an
\* RPC is dropped; otherwise it is inserted unless a result for the same
\* call uid is already there (DenseMap::insert), and waiters are woken.
ProcessIncomingRpcResponse(r) ==
    /\ Free /\ ops < MaxOps
    /\ outstanding' = outstanding \ {r}
    /\ IF ~isRpc
       THEN UNCHANGED <<results, pc>>
       ELSE /\ results' = IF HasResult(r.uid) THEN results ELSE results \cup {r}
            /\ pc' = NotifyAll(pc)
    /\ ops' = ops + 1
    /\ UNCHANGED <<lock, callUid, isRpc, blocking, terminating, target, tmo,
                   callRet, ret, calls>>

\* The connection drops, or the server's RPC handler never answers.
ResponseLost(r) ==
    /\ outstanding' = outstanding \ {r}
    /\ UNCHANGED <<lock, callUid, isRpc, blocking, results, terminating, pc,
                   target, tmo, callRet, ret, calls, ops>>

\* The entry's value stops or starts being an RPC (DeleteEntry, CreateRpc).
SetIsRpc(b) ==
    /\ Free /\ ops < MaxOps /\ isRpc # b
    /\ isRpc' = b
    /\ ops' = ops + 1
    /\ UNCHANGED <<lock, callUid, blocking, results, outstanding, terminating,
                   pc, target, tmo, callRet, ret, calls>>

\* ~Storage: set m_terminating and notify_all, without taking the mutex.
Destroy ==
    /\ Destructible /\ ~terminating
    /\ terminating' = TRUE
    /\ pc' = NotifyAll(pc)
    /\ UNCHANGED <<lock, callUid, isRpc, blocking, results, outstanding, target,
                   tmo, callRet, ret, calls, ops>>

-----------------------------------------------------------------------------

\* The calls the callers know of: the last call each of them made.  A
\* thread may wait for, or cancel, its own call or another thread's.
Known == {[uid |-> callRet[t].uid, k |-> callRet[t].k] :
             t \in {x \in Callers : callRet[x].valid}}

Next ==
    \/ \E t \in Callers :
          \/ CallRpc(t) \/ Wait(t) \/ SpuriousWakeup(t) \/ TimeOut(t) \/ Resume(t)
          \/ \E c \in Known, tm \in Timeouts : GetRpcResult(t, c, tm)
    \/ \E c \in Known : CancelRpcResult(c)
    \/ \E r \in outstanding : ProcessIncomingRpcResponse(r) \/ ResponseLost(r)
    \/ \E b \in BOOLEAN : SetIsRpc(b)
    \/ Destroy

\* A thread that holds the mutex or has been woken runs; a finite wait ends.
Fairness ==
    \A t \in Callers : /\ WF_vars(Wait(t)) /\ WF_vars(Resume(t))
                      /\ WF_vars(TimeOut(t))

Spec == Init /\ [][Next]_vars /\ Fairness

-----------------------------------------------------------------------------
(* Properties.                                                             *)

Call == [uid: CallUids, k: Nat]

TypeOK ==
    /\ lock \in Callers \cup {NoThread}
    /\ callUid \in CallUids
    /\ isRpc \in BOOLEAN /\ terminating \in BOOLEAN
    /\ blocking \subseteq CallUids
    /\ results \subseteq Call /\ outstanding \subseteq Call
    /\ pc \in [Callers -> PCs] /\ tmo \in [Callers -> Timeouts]
    /\ target \in [Callers -> [uid: CallUids, k: Nat]]
    /\ callRet \in [Callers -> [uid: CallUids, k: Nat, valid: BOOLEAN]]

OneWaiterPerCall ==
    \A t1, t2 \in Callers :
        t1 # t2 /\ pc[t1] # "idle" /\ pc[t2] # "idle"
            => target[t1].uid # target[t2].uid

\* Spec 4.6: CallRpc returns 0 only for an entry that is not an RPC, so a
\* caller can tell a failed call from a sent one.
CallRpcZeroOnlyOnError == \A t \in Callers : callRet[t].valid => callRet[t].uid # 0

\* A thread inside GetRpcResult whose call was cancelled, or whose result
\* has arrived, eventually returns.
WaiterReleased ==
    \A t \in Callers :
        (pc[t] # "idle" /\ (target[t].uid \notin blocking \/ HasResult(target[t].uid)))
            ~> pc[t] = "idle"

\* The refinement mapping to RpcCall: a thread inside GetRpcResult waits
\* for the call it targets, the pending responses are m_rpc_results.
Abstract == INSTANCE RpcCall WITH
    Calls   <- 1..MaxCalls,
    waiting <- [t \in Callers |-> IF pc[t] = "idle" THEN 0 ELSE target[t].k],
    pending <- {r.k : r \in results}

\* The coordinator implements RpcCall: whatever the interleaving of waits,
\* wake-ups, timeouts, cancels and responses, a caller returns true only
\* with a response that arrived for its own call, that response is handed
\* out once and is kept until then, and a waiter whose response is there
\* takes it.
RefinesRpcCall == Abstract!Spec

\* Spec 5, cancellation: once the destructor has run, every waiter
\* eventually returns false.
TerminationReleasesWaiters ==
    \A t \in Callers : (terminating /\ pc[t] # "idle") ~> pc[t] = "idle"

=============================================================================
