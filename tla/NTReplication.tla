---------------------------- MODULE NTReplication ----------------------------
(***************************************************************************)
(* One NetworkTables server and its clients, each running the Storage of   *)
(* NTStorage, connected by TCP connections (FIFO queues) through the       *)
(* dispatcher.                                                             *)
(*                                                                         *)
(* Threads.  Every node has user threads calling the Storage API and one   *)
(* reader thread per connection calling ProcessIncoming.  A thread runs    *)
(* the locked part of an operation as one step; the messages it then      *)
(* passes to QueueOutgoing after unlocking wait in pend[t] and are queued  *)
(* one call per step, so the threads of a node may queue in a different    *)
(* order from the one in which they changed the table.                     *)
(*                                                                         *)
(* Connections.  The server's snapshot (GetInitialAssignments) travels as  *)
(* the first message on a new connection and the client applies it with   *)
(* ApplyInitialAssignments.  The dispatcher queues a message on a          *)
(* connection only while that side of it is synchronized.  A connection   *)
(* may drop at any time, losing what is in flight.                         *)
(***************************************************************************)
EXTENDS NTStorage

CONSTANTS
    Server,       \* the server node
    Clients,      \* the client nodes (also the server's connections to them)
    Users,        \* user threads: pairs <<node, label>>
    MaxOps,       \* bound on the number of user API calls
    MaxConnects   \* bound on the number of connections established

Nodes == {Server} \cup Clients

\* A reader thread <<n, p>> serves node n's connection to peer p.
Readers == {<<Server, c>> : c \in Clients} \cup {<<c, Server>> : c \in Clients}
Threads == Users \cup Readers

ASSUME Server \notin Clients /\ NoConn \notin Clients
ASSUME \A t \in Users : t[1] \in Nodes /\ t \notin Readers

VARIABLES
    store,      \* store[n]: the Storage of node n
    toServer,   \* toServer[c]: bytes in flight from client c to the server
    toClient,   \* toClient[c]: bytes in flight from the server to client c
    srvConn,    \* srvConn[c]: server side of connection c, "down" or "sync"
    cliConn,    \* cliConn[c]: client side, "down", "handshake" or "sync"
    pend,       \* pend[t]: QueueOutgoing calls thread t has still to make
    cont,       \* cont[t]: the rest of t's handler, run after pend[t]
    ops,        \* number of user API calls made
    connects,   \* number of connections established
    intended    \* ghost: each name's value at the user's node after its last call

vars == <<store, toServer, toClient, srvConn, cliConn, pend, cont, ops,
          connects, intended>>

Node(t) == t[1]
IsServer(n) == n = Server

\* The message that carries the server's initial assignments.
InitialAssignments(msgs) == [type |-> "Init", assigns |-> msgs]

-----------------------------------------------------------------------------

Init ==
    /\ store = [n \in Nodes |-> InitNode]
    /\ toServer = [c \in Clients |-> <<>>]
    /\ toClient = [c \in Clients |-> <<>>]
    /\ srvConn = [c \in Clients |-> "down"]
    /\ cliConn = [c \in Clients |-> "down"]
    /\ pend = [t \in Threads |-> <<>>]
    /\ cont = [t \in Threads |-> NoCont]
    /\ ops = 0
    /\ connects = 0
    /\ intended = [n \in Names |-> NoValue]

\* A thread starts an operation only when it has finished the previous one.
Idle(t) == pend[t] = <<>> /\ cont[t] = NoCont

\* The locked part of an operation of thread t, with result r.
Run(t, r) ==
    /\ store' = [store EXCEPT ![Node(t)] = r.st]
    /\ pend' = [pend EXCEPT ![t] = r.out]
    /\ cont' = [cont EXCEPT ![t] = r.cont]

\* A user API call by thread t with result r.
UserCall(t, r) ==
    /\ Idle(t)
    /\ ops < MaxOps
    /\ Run(t, r)
    /\ ops' = ops + 1
    /\ intended' = [n \in Names |-> r.st.ent[n].value]
    /\ UNCHANGED <<toServer, toClient, srvConn, cliConn, connects>>

-----------------------------------------------------------------------------
(* User API calls.                                                         *)

GetEntry(t, n) ==
    UserCall(t, NoOp(GetOrNew(store[Node(t)], n)))

DoSetEntryValue(t, n, v) ==
    /\ CanAssign(store[Node(t)], n, IsServer(Node(t)))
    /\ UserCall(t, SetEntryValue(store[Node(t)], n, v, IsServer(Node(t))))

DoSetEntryTypeValue(t, n, v) ==
    /\ CanAssign(store[Node(t)], n, IsServer(Node(t)))
    /\ UserCall(t, SetEntryTypeValue(store[Node(t)], n, v, IsServer(Node(t))))

DoSetDefaultEntryValue(t, n, v) ==
    /\ CanAssign(store[Node(t)], n, IsServer(Node(t)))
    /\ UserCall(t, SetDefaultEntryValue(store[Node(t)], n, v, IsServer(Node(t))))

DoSetEntryFlags(t, n, f) ==
    UserCall(t, SetEntryFlags(store[Node(t)], n, f))

DoDeleteEntry(t, n) ==
    UserCall(t, DeleteEntry(store[Node(t)], n))

DoDeleteAllEntries(t) ==
    UserCall(t, DeleteAllEntries(store[Node(t)]))

\* The RPC definitions among the values: what CreateRpc may store.
RpcDefs == {v \in Values : v.type = "rpc"}

\* CreateRpc(local_id, def, rpc_uid): local_id names an entry the node
\* already has; the entry takes an id from m_idmap whatever the node's role.
DoCreateRpc(t, n, d) ==
    /\ n \in store[Node(t)].known
    /\ CanAssign(store[Node(t)], n, TRUE)
    /\ UserCall(t, CreateRpc(store[Node(t)], n, d))

-----------------------------------------------------------------------------
(* Reader threads: ProcessIncoming and the client's handshake.             *)

\* The server's reader for connection c handles the next message from c.
ServerReceive(c) ==
    LET t == <<Server, c>>
        m == Head(toServer[c])
    IN /\ Idle(t)
       /\ toServer[c] # <<>>
       /\ m.type = "EntryAssign" /\ m.id = Unassigned =>
              CanAssign(GetOrNew(store[Server], m.name), m.name, TRUE)
       /\ Run(t, ProcessIncoming(store[Server], m, TRUE, c))
       /\ toServer' = [toServer EXCEPT ![c] = Tail(@)]
       /\ UNCHANGED <<toClient, srvConn, cliConn, ops, connects, intended>>

\* Client c's reader handles the next message from the server.
ClientReceive(c) ==
    LET t == <<c, Server>>
        m == Head(toClient[c])
    IN /\ Idle(t)
       /\ toClient[c] # <<>>
       /\ m.type # "Init"
       /\ Run(t, ProcessIncoming(store[c], m, FALSE, Server))
       /\ toClient' = [toClient EXCEPT ![c] = Tail(@)]
       /\ UNCHANGED <<toServer, srvConn, cliConn, ops, connects, intended>>

\* Client c's handshake applies the server's initial assignments.
ClientHandshake(c) ==
    LET t == <<c, Server>>
        m == Head(toClient[c])
    IN /\ Idle(t)
       /\ toClient[c] # <<>>
       /\ m.type = "Init"
       /\ Run(t, ApplyInitialAssignments(store[c], m.assigns))
       /\ cliConn' = [cliConn EXCEPT ![c] = "sync"]
       /\ toClient' = [toClient EXCEPT ![c] = Tail(@)]
       /\ UNCHANGED <<toServer, srvConn, ops, connects, intended>>

\* The client side of ProcessIncomingEntryAssign takes the lock again.
Resume(t) ==
    /\ pend[t] = <<>>
    /\ cont[t] # NoCont
    /\ Run(t, ResumeEntryAssign(store[Node(t)], cont[t]))
    /\ UNCHANGED <<toServer, toClient, srvConn, cliConn, ops, connects, intended>>

-----------------------------------------------------------------------------
(* Dispatcher::QueueOutgoing, called by thread t after it unlocked.        *)

QueueOutgoing(t) ==
    LET o == Head(pend[t]) IN
    /\ pend[t] # <<>>
    /\ pend' = [pend EXCEPT ![t] = Tail(@)]
    /\ IF IsServer(Node(t))
       THEN /\ toClient' = [c \in Clients |->
                              IF srvConn[c] = "sync" /\ c # o.except
                              THEN Append(toClient[c], o.msg) ELSE toClient[c]]
            /\ UNCHANGED toServer
       ELSE /\ toServer' = [toServer EXCEPT ![Node(t)] =
                              IF cliConn[Node(t)] = "sync" THEN Append(@, o.msg) ELSE @]
            /\ UNCHANGED toClient
    /\ UNCHANGED <<store, cont, srvConn, cliConn, ops, connects, intended>>

-----------------------------------------------------------------------------
(* The network.                                                            *)

\* The server accepts client c: GetInitialAssignments marks the connection
\* synchronized under the Storage lock and the snapshot is sent first.
Connect(c) ==
    /\ srvConn[c] = "down" /\ cliConn[c] = "down"
    /\ connects < MaxConnects
    /\ srvConn' = [srvConn EXCEPT ![c] = "sync"]
    /\ cliConn' = [cliConn EXCEPT ![c] = "handshake"]
    /\ toClient' = [toClient EXCEPT ![c] =
                      <<InitialAssignments(GetInitialAssignments(store[Server]))>>]
    /\ toServer' = [toServer EXCEPT ![c] = <<>>]
    /\ connects' = connects + 1
    /\ UNCHANGED <<store, pend, cont, ops, intended>>

\* Connection c drops; what is in flight on it is lost.
Disconnect(c) ==
    /\ srvConn[c] # "down" \/ cliConn[c] # "down"
    /\ srvConn' = [srvConn EXCEPT ![c] = "down"]
    /\ cliConn' = [cliConn EXCEPT ![c] = "down"]
    /\ toClient' = [toClient EXCEPT ![c] = <<>>]
    /\ toServer' = [toServer EXCEPT ![c] = <<>>]
    /\ UNCHANGED <<store, pend, cont, ops, connects, intended>>

-----------------------------------------------------------------------------

Next ==
    \/ \E t \in Users, n \in Names :
          \/ GetEntry(t, n)
          \/ DoDeleteEntry(t, n)
          \/ \E v \in Values : \/ DoSetDefaultEntryValue(t, n, v)
                               \/ DoSetEntryValue(t, n, v)
                               \/ DoSetEntryTypeValue(t, n, v)
          \/ \E f \in Flags : DoSetEntryFlags(t, n, f)
          \/ \E d \in RpcDefs : DoCreateRpc(t, n, d)
    \/ \E t \in Users : DoDeleteAllEntries(t)
    \/ \E c \in Clients : \/ ServerReceive(c) \/ ClientReceive(c)
                          \/ ClientHandshake(c)
                          \/ Connect(c) \/ Disconnect(c)
    \/ \E t \in Threads : QueueOutgoing(t) \/ Resume(t)

Spec == Init /\ [][Next]_vars

(* Properties.                                                             *)

\* Every message on the wire or waiting for QueueOutgoing.
InFlight ==
    UNION {{toServer[c][i] : i \in DOMAIN toServer[c]} : c \in Clients}
    \cup UNION {{toClient[c][i] : i \in DOMAIN toClient[c]} : c \in Clients}
    \cup UNION {{pend[t][i].msg : i \in DOMAIN pend[t]} : t \in Threads}

MsgTypes == {"EntryAssign", "EntryUpdate", "FlagsUpdate", "EntryDelete",
             "ClearEntries"}

TypeOK ==
    /\ store \in [Nodes -> NodeState]
    /\ srvConn \in [Clients -> {"down", "sync"}]
    /\ cliConn \in [Clients -> {"down", "handshake", "sync"}]
    /\ \A t \in Threads : cont[t] = NoCont \/ cont[t].kind = "assignTail"
    /\ \A m \in InFlight :
          \/ m.type = "Init"
          \/ /\ m.type \in MsgTypes /\ m.id \in Ids \cup {Unassigned}
             /\ m.value \in Values \cup {NoValue} /\ m.flags \in Flags
    /\ ops \in 0..MaxOps /\ connects \in 0..MaxConnects

\* Nothing in flight, no thread inside an operation, every connection up.
Quiescent ==
    /\ \A c \in Clients : /\ toServer[c] = <<>> /\ toClient[c] = <<>>
                          /\ srvConn[c] = "sync" /\ cliConn[c] = "sync"
    /\ \A t \in Threads : Idle(t)

\* The two directions of spec 3.2 (1) on node n: slot i of m_idmap holds an
\* entry whose id is i, and an entry with an id sits in that slot.
SlotsMatchIds(n) ==
    LET s == store[n] IN
    \A k \in DOMAIN s.idmap : s.idmap[k] # NoName => s.ent[s.idmap[k]].id = k - 1

IdsResolve(n) ==
    LET s == store[n] IN
    \A nm \in Names : s.ent[nm].id # Unassigned => IdLookup(s, s.ent[nm].id) = nm

\* Spec 3.2 (1) on every node: m_idmap and Entry::id are two views of one
\* mapping.  On a client it rests on the server's messages for an id
\* arriving in the order the server applied them and on one id per name.
IdMapConsistent == \A n \in Nodes : SlotsMatchIds(n) /\ IdsResolve(n)

\* Spec 8, the id-map property test: on every node an entry's id leads back
\* to the entry, across id requests, handshakes, deletes and clears.
EntryIdsResolve == \A n \in Nodes : IdsResolve(n)

\* Spec 3.2 (1) and (4) on the server: m_idmap matches the ids, and an entry
\* has an id exactly when it has a value, whatever the clients send and in
\* whatever order the server's threads run.
ServerIdMapConsistent ==
    /\ SlotsMatchIds(Server) /\ IdsResolve(Server)
    /\ \A nm \in Names : (store[Server].ent[nm].id # Unassigned)
                            <=> (store[Server].ent[nm].value # NoValue)

\* Spec 4.5 (CreateRpc "assigns id if server") and 3.2: ids are the
\* server's.  An id a client holds for a name is a slot of the server's
\* m_idmap that the server gave that name, which a delete may since have
\* emptied; whatever order the threads queue in, a client never invents an
\* id or takes another name's.
ClientIdsIssuedByServer ==
    \A c \in Clients, nm \in Names :
        LET k == store[c].ent[nm].id IN
        k # Unassigned =>
            /\ k < Len(store[Server].idmap)
            /\ store[Server].idmap[k + 1] \in {nm, NoName}

\* With a single node calling the API: once everything is delivered, every
\* node holds, for every name, the value that node's last call left there.
\* A delete, a clear or a write must not be undone by an echo of an older
\* message.
WriterIntentPreserved ==
    Quiescent => \A n \in Nodes, nm \in Names : store[n].ent[nm].value = intended[nm]

\* Once everything is delivered, all nodes hold the same value per name
\* (spec 1: conflicts are resolved by sequence number and role).
Converged ==
    Quiescent => \A n \in Nodes, nm \in Names :
                     store[n].ent[nm].value = store[Server].ent[nm].value

\* Spec 3.2 (4): on a synchronized client an entry has a value but no id
\* only while it is a local write waiting for the server's assignment.
UnassignedOnlyPendingWrites ==
    \A c \in Clients, nm \in Names :
        LET e == store[c].ent[nm] IN
        cliConn[c] = "sync" /\ e.value # NoValue /\ e.id = Unassigned => e.lw

\* Spec 3.2 (2) and StorageTest DeletedEntryFlags: an entry without a value
\* has no flags.
DeletedEntryReset ==
    \A n \in Nodes, nm \in Names :
        store[n].ent[nm].value = NoValue => store[n].ent[nm].flags = {}

\* Spec 3.2 (3): only assigned entries are the subject of an EntryUpdate,
\* FlagsUpdate or EntryDelete, and an EntryAssign or EntryUpdate carries a
\* value.  The code keeps this with its "don't send an update if we don't
\* have an assigned id yet" checks; the stale branch of
\* ProcessIncomingEntryAssign sends the entry as it finds it after the lock
\* was released and taken again.
WellFormedMessages ==
    \A m \in InFlight :
        /\ m.type \in {"EntryAssign", "EntryUpdate"} => m.value \in Values
        /\ m.type \in {"EntryUpdate", "FlagsUpdate", "EntryDelete"} => m.id \in Ids

=============================================================================
