----------------------------- MODULE NTRpcServer -----------------------------
(***************************************************************************)
(* The server side of one RPC entry: Storage::ProcessIncomingExecuteRpc    *)
(* and the server branch of CallRpc hand each call to the RpcServer, whose *)
(* thread (RpcServerThread, RpcServer.h) registers the call's              *)
(* send_response under the key (local_id, call_uid) in m_response_map and  *)
(* then runs the user's callback (Add) or queues the call for PollRpc      *)
(* (AddPolled).  PostRpcResponse finds the key, calls send_response and    *)
(* erases it; after a callback returns, DoCallback posts an empty response *)
(* if the key is still there.                                              *)
(*                                                                         *)
(* One thread serves every RPC entry of the server.  Every caller numbers  *)
(* its calls to an entry with its own copy's Entry::rpc_call_uid (the      *)
(* clients' copies and, for a local call, the server's).  A call is        *)
(* [rpc, from, uid]; a response carries, as a ghost, the call whose answer *)
(* it is, or Empty.                                                        *)
(***************************************************************************)
EXTENDS Naturals, Sequences, FiniteSets

CONSTANTS
    Rpcs,      \* the server's RPC entries
    Callers,   \* Callers[r]: the nodes calling RPC r
    Local,     \* the server itself, when it calls its own RPC (CallRpc's server branch)
    Polled,    \* the RPCs registered with AddPolled instead of Add(callback)
    LocalId,   \* LocalId[r]: the entry's local_id on the server
    MaxCalls,  \* bound on CallRpc calls per caller
    MaxDrops,  \* bound on dropped connections
    Empty,     \* the empty response DoCallback posts
    NoCall     \* DoCallback is not running

ASSUME /\ Polled \subseteq Rpcs /\ LocalId \in [Rpcs -> Nat]
       /\ MaxCalls \in 1..65535

Nodes == UNION {Callers[r] : r \in Rpcs}
Remote == Nodes \ {Local}
Call == [rpc: Rpcs, from: Nodes, uid: 1..MaxCalls]

\* Handle(inst, index, type) keeps the low 20 bits of the index, and
\* GetIndex reads them back.
HandleIndex(i) == i % 2^20

\* The RpcIdPair under which SetListener and PostRpcResponse find a call.
Key(call) == <<HandleIndex(LocalId[call.rpc]), HandleIndex(call.uid)>>

VARIABLES
    callUid,      \* callUid[c][r]: rpc_call_uid of entry r on node c
    toServer,     \* toServer[c]: ExecuteRpc calls in flight from client c
    connected,    \* connected[c]: client c's connection is up
    isRpc,        \* the RPCs whose entry holds an RPC and whose listener is registered
    queue,        \* the RpcServerThread's queue of calls
    responseMap,  \* m_response_map: set of [key, to, rpc, uid]: the key and the
                  \* caller, entry and call uid its send_response answers
    busy,         \* the call whose callback DoCallback is running, or NoCall
    answered,     \* the running callback has called PostResponse
    pollQueue,    \* the poller's queue of calls (AddPolled)
    held,         \* calls a user thread has polled and not yet answered
    sent,         \* ghost: responses handed to a connection or to m_rpc_results
    drops

vars == <<callUid, toServer, connected, isRpc, queue, responseMap, busy,
          answered, pollQueue, held, sent, drops>>

Init ==
    /\ callUid = [c \in Nodes |-> [r \in Rpcs |-> 0]]
    /\ toServer = [c \in Remote |-> <<>>]
    /\ connected = [c \in Remote |-> TRUE]
    /\ isRpc = Rpcs
    /\ queue = <<>>
    /\ responseMap = {}
    /\ busy = NoCall
    /\ answered = FALSE
    /\ pollQueue = <<>>
    /\ held = {}
    /\ sent = {}
    /\ drops = 0

\* send_response(result): ProcessIncomingExecuteRpc's closure queues an
\* RpcResponse if the connection is still alive; CallRpc's local closure
\* inserts the result into m_rpc_results.
Send(r, of) ==
    sent' = IF r.to = Local \/ connected[r.to]
            THEN sent \cup {[to |-> r.to, rpc |-> r.rpc, uid |-> r.uid, of |-> of]}
            ELSE sent

\* Mutant: the response is sent but its key is left in m_response_map.
PostRpcResponseNoErase(key, of) ==
    IF \E r \in responseMap : r.key = key
    THEN /\ Send(CHOOSE x \in responseMap : x.key = key, of)
         /\ UNCHANGED responseMap
    ELSE UNCHANGED <<sent, responseMap>>

\* PostRpcResponse(local_id, call_uid, result): find the key, call its
\* send_response and erase it; nothing when the key is gone.
PostRpcResponse(key, of) ==
    IF \E r \in responseMap : r.key = key
    THEN LET r == CHOOSE x \in responseMap : x.key = key
         IN /\ Send(r, of)
            /\ responseMap' = responseMap \ {r}
    ELSE UNCHANGED <<sent, responseMap>>

-----------------------------------------------------------------------------
(* Storage.                                                                *)

\* Mutant: the bound on calls is checked one too late.
CallRpcOffByOne(c, r) ==
    LET call == [rpc |-> r, from |-> c, uid |-> callUid[c][r] + 1] IN
    /\ callUid[c][r] <= MaxCalls
    /\ c = Local => r \in isRpc
    /\ callUid' = [callUid EXCEPT ![c][r] = call.uid]
    /\ IF c = Local
       THEN /\ queue' = Append(queue, call)
            /\ UNCHANGED toServer
       ELSE /\ toServer' = [toServer EXCEPT ![c] = IF connected[c] THEN Append(@, call) ELSE @]
            /\ UNCHANGED queue
    /\ UNCHANGED <<connected, isRpc, responseMap, busy, answered, pollQueue,
                   held, sent, drops>>

\* CallRpc(r) on caller c: bump the rpc_call_uid of c's copy of entry r;
\* a client queues ExecuteRpc on its connection, the server hands the
\* call to its RpcServer directly.  A client's copy still holds the RPC.
CallRpc(c, r) ==
    LET call == [rpc |-> r, from |-> c, uid |-> callUid[c][r] + 1] IN
    /\ callUid[c][r] < MaxCalls
    /\ c = Local => r \in isRpc
    /\ callUid' = [callUid EXCEPT ![c][r] = call.uid]
    /\ IF c = Local
       THEN /\ queue' = Append(queue, call)
            /\ UNCHANGED toServer
       ELSE /\ toServer' = [toServer EXCEPT ![c] = IF connected[c] THEN Append(@, call) ELSE @]
            /\ UNCHANGED queue
    /\ UNCHANGED <<connected, isRpc, responseMap, busy, answered, pollQueue,
                   held, sent, drops>>

\* ProcessIncomingExecuteRpc: an ExecuteRpc for an entry that is no longer
\* an RPC is ignored; otherwise ProcessRpc queues it for the thread.
ProcessIncomingExecuteRpc(c) ==
    LET call == Head(toServer[c]) IN
    /\ toServer[c] # <<>>
    /\ toServer' = [toServer EXCEPT ![c] = Tail(@)]
    /\ queue' = IF call.rpc \in isRpc THEN Append(queue, call) ELSE queue
    /\ UNCHANGED <<callUid, connected, isRpc, responseMap, busy, answered,
                   pollQueue, held, sent, drops>>

\* DeleteEntryImpl on an RPC entry calls RemoveRpc: the listener is gone.
RemoveRpc(r) ==
    /\ r \in isRpc
    /\ isRpc' = isRpc \ {r}
    /\ UNCHANGED <<callUid, toServer, connected, queue, responseMap, busy,
                   answered, pollQueue, held, sent, drops>>

\* A client's connection drops with what is in flight to the server.
Disconnect(c) ==
    /\ connected[c] /\ drops < MaxDrops
    /\ connected' = [connected EXCEPT ![c] = FALSE]
    /\ toServer' = [toServer EXCEPT ![c] = <<>>]
    /\ drops' = drops + 1
    /\ UNCHANGED <<callUid, isRpc, queue, responseMap, busy, answered,
                   pollQueue, held, sent>>

-----------------------------------------------------------------------------
(* The RpcServerThread.                                                    *)

\* SetListener: m_response_map.insert, which keeps an existing entry.
SetListener(call) ==
    responseMap' =
        IF \E r \in responseMap : r.key = Key(call) THEN responseMap
        ELSE responseMap \cup {[key |-> Key(call), to |-> call.from,
                                 rpc |-> call.rpc, uid |-> call.uid]}

\* The thread takes the next call: a call for a removed listener is
\* dropped; otherwise SetListener, then the callback or the poller queue.
ThreadTake ==
    LET call == Head(queue) IN
    /\ queue # <<>> /\ busy = NoCall
    /\ queue' = Tail(queue)
    /\ IF call.rpc \notin isRpc
       THEN UNCHANGED <<responseMap, busy, answered, pollQueue>>
       ELSE /\ SetListener(call)
            /\ IF call.rpc \in Polled
               THEN /\ pollQueue' = Append(pollQueue, call)
                    /\ UNCHANGED <<busy, answered>>
               ELSE /\ busy' = call /\ answered' = FALSE
                    /\ UNCHANGED pollQueue
    /\ UNCHANGED <<callUid, toServer, connected, isRpc, held, sent, drops>>

\* The user's callback answers the call it was given (RpcAnswer::PostResponse).
CallbackAnswer ==
    /\ busy # NoCall /\ ~answered
    /\ PostRpcResponse(Key(busy), busy)
    /\ answered' = TRUE
    /\ UNCHANGED <<callUid, toServer, connected, isRpc, queue, busy, pollQueue,
                   held, drops>>

\* Mutant: DoCallback erases the key without posting the empty response.
CallbackReturnNoEmpty ==
    /\ busy # NoCall
    /\ responseMap' = {r \in responseMap : r.key # Key(busy)}
    /\ busy' = NoCall
    /\ UNCHANGED <<callUid, toServer, connected, isRpc, queue, answered,
                   pollQueue, held, sent, drops>>

\* DoCallback after the callback returned: post an empty response and
\* erase it if the key is still there.
CallbackReturn ==
    /\ busy # NoCall
    /\ PostRpcResponse(Key(busy), Empty)
    /\ busy' = NoCall
    /\ UNCHANGED <<callUid, toServer, connected, isRpc, queue, answered,
                   pollQueue, held, drops>>

\* PollRpc: a user thread takes the next polled call.
PollRpc ==
    /\ pollQueue # <<>>
    /\ pollQueue' = Tail(pollQueue)
    /\ held' = held \cup {Head(pollQueue)}
    /\ UNCHANGED <<callUid, toServer, connected, isRpc, queue, responseMap,
                   busy, answered, sent, drops>>

\* A user thread answers a polled call, in any order.
AnswerPolled(call) ==
    /\ held' = held \ {call}
    /\ PostRpcResponse(Key(call), call)
    /\ UNCHANGED <<callUid, toServer, connected, isRpc, queue, busy, answered,
                   pollQueue, drops>>

Next ==
    \/ \E r \in Rpcs : \E c \in Callers[r] : CallRpc(c, r)
    \/ \E c \in Remote : ProcessIncomingExecuteRpc(c) \/ Disconnect(c)
    \/ \E r \in Rpcs : RemoveRpc(r)
    \/ ThreadTake \/ CallbackAnswer \/ CallbackReturn
    \/ PollRpc
    \/ \E call \in held : AnswerPolled(call)

\* The reader threads, the RpcServer thread and a callback that returns
\* run on: weak fairness of each.  Polled calls depend on the user.
Fairness ==
    /\ \A c \in Remote : WF_vars(ProcessIncomingExecuteRpc(c))
    /\ WF_vars(ThreadTake) /\ WF_vars(CallbackReturn)

Spec == Init /\ [][Next]_vars /\ Fairness

-----------------------------------------------------------------------------
(* Properties.                                                             *)

TypeOK ==
    /\ callUid \in [Nodes -> [Rpcs -> 0..MaxCalls]]
    /\ isRpc \subseteq Rpcs
    /\ busy \in Call \cup {NoCall}
    /\ responseMap \subseteq [key: Nat \X Nat, to: Nodes, rpc: Rpcs, uid: 1..MaxCalls]
    /\ held \subseteq Call
    /\ sent \subseteq [to: Nodes, rpc: Rpcs, uid: 1..MaxCalls, of: Call \cup {Empty}]

\* A response that reaches caller c for its call uid u to RPC r is the
\* answer to that very call, or the empty response: the server never hands
\* one caller's answer to another, though every caller numbers its calls
\* from 1 and m_response_map is keyed by (local_id, call_uid) only.
ResponseToOwnCall ==
    \A s \in sent :
        s.of = Empty \/ s.of = [rpc |-> s.rpc, from |-> s.to, uid |-> s.uid]

\* Every call the RpcServer thread has been given is eventually answered
\* (with the callback's result or DoCallback's empty response), unless the
\* RPC is removed or the caller's connection drops first.
Reachable(c) == c = Local \/ connected[c]

EveryCallAnswered ==
    \A call \in Call :
        call.rpc \notin Polled /\ (\E i \in DOMAIN queue : queue[i] = call)
            ~> \/ \E s \in sent : s.to = call.from /\ s.rpc = call.rpc /\ s.uid = call.uid
               \/ call.rpc \notin isRpc \/ ~Reachable(call.from)

=============================================================================
