------------------------------ MODULE NTNotify ------------------------------
(***************************************************************************)
(* What one node's Storage tells the rest of the program about its table: *)
(* entry notifications and data logs.                                      *)
(*                                                                         *)
(* Every Storage operation calls Storage::Notify under m_mutex for each    *)
(* change it makes (the "ntf" of an NTStorage result).  Notify does two    *)
(* things:                                                                  *)
(*  - it hands the change to EntryNotifier::NotifyEntry, which queues it   *)
(*    for the notifier thread; that thread calls back every listener the   *)
(*    change matches;                                                      *)
(*  - it writes the new value to every data log stream the entry has open, *)
(*    starting or finishing streams when the entry appears, changes type   *)
(*    or is deleted.                                                        *)
(* StartDataLog and StopDataLog attach and detach data loggers, and        *)
(* AddListener registers a listener with immediate notifications of the    *)
(* entries that already have values.  CreateRpc changes a value without    *)
(* calling Notify.                                                          *)
(*                                                                         *)
(* The node is a client whose reader thread applies messages from the      *)
(* server (ProcessIncoming, ApplyInitialAssignments), with the unlock in   *)
(* the middle of ProcessIncomingEntryAssign, while a user thread calls the *)
(* API.                                                                    *)
(***************************************************************************)
EXTENDS NTStorage

LOCAL INSTANCE SequencesExt

CONSTANTS
    Loggers,      \* data logger uids (m_dataloggers is a UidVector: uids are reused)
    LoggerNames,  \* logger -> the names that start with its prefix
    Listener,     \* the uid of the one entry listener
    ListenNames,  \* the names that start with the listener's prefix
    Incoming,     \* messages the server may send this client
    Handshakes,   \* sets of EntryAssign the server may send at connection
    RpcDefs,      \* RPC definitions (values of type "rpc") CreateRpc may store
    MaxOps,       \* bound on API calls and handled messages
    MaxStreams    \* bound on data log streams ever started

ASSUME LoggerNames \in [Loggers -> SUBSET Names]
ASSUME ListenNames \subseteq Names
ASSUME RpcDefs \subseteq Values /\ \A d \in RpcDefs : d.type = "rpc"

\* NT_UNASSIGNED, the datalog_type of an entry that is not being logged.
NoType == "unassigned"

\* The types GetStorageTypeStr gives a data log type name; it gives none for
\* NT_RPC and NT_UNASSIGNED.
LoggedTypes == {"boolean", "double", "string", "raw",
                "boolean[]", "double[]", "string[]"}

\* A data log stream (one DataLog::Start): the logger it belongs to, the
\* entry, the type it was started with, the last value appended and whether
\* it is still open (not Finished).
Stream == [lg: Loggers, name: Names, type: STRING,
           last: Values \cup {NoValue}, open: BOOLEAN]

VARIABLES
    node,       \* the NTStorage node state
    cont,       \* the reader thread's ProcessIncomingEntryAssign tail, or NoCont
    dl,         \* data logging: [loggers, dlogs, dtype, sink]
    queue,      \* the notifier thread's queue: notes with their only_listener
    listening,  \* whether AddListener has returned
    view,       \* the table as the listener's callbacks have rebuilt it
    ops

vars == <<node, cont, dl, queue, listening, view, ops>>

\* dl.loggers is m_dataloggers; dl.dlogs[n] the streams of Entry::datalogs
\* (indices into dl.sink, the streams the DataLog has been asked to start);
\* dl.dtype[n] is Entry::datalog_type.
InitDataLog == [loggers |-> {}, dlogs |-> [n \in Names |-> {}],
                dtype |-> [n \in Names |-> NoType], sink |-> <<>>]

Init ==
    /\ node = InitNode
    /\ cont = NoCont
    /\ dl = InitDataLog
    /\ queue = <<>>
    /\ listening = FALSE
    /\ view = [n \in Names |-> NoValue]
    /\ ops = 0

-----------------------------------------------------------------------------
(* The data-logging part of Storage::Notify, for one note.                 *)

Finish(d, n) ==
    [d EXCEPT !.sink = [i \in DOMAIN @ |-> IF i \in d.dlogs[n]
                                           THEN [@[i] EXCEPT !.open = FALSE]
                                           ELSE @[i]],
              !.dlogs[n] = {}]

AppendValue(d, n, v) ==
    [d EXCEPT !.sink = [i \in DOMAIN @ |-> IF i \in d.dlogs[n]
                                           THEN [@[i] EXCEPT !.last = v]
                                           ELSE @[i]]]

\* (Mutant) streams recorded one index past where they were started.
StartStreamsOffByOne(d, n, t) ==
    LET ls == SetToSeq({l \in d.loggers : n \in LoggerNames[l]}) IN
    [d EXCEPT !.sink = @ \o [i \in 1..Len(ls) |->
                               [lg |-> ls[i], name |-> n, type |-> t,
                                last |-> NoValue, open |-> TRUE]],
              !.dlogs[n] = {Len(d.sink) + i + 1 : i \in 1..Len(ls)}]

\* create matching loggers: one stream per logger whose prefix n starts with
StartStreams(d, n, t) ==
    LET ls == SetToSeq({l \in d.loggers : n \in LoggerNames[l]}) IN
    [d EXCEPT !.sink = @ \o [i \in 1..Len(ls) |->
                               [lg |-> ls[i], name |-> n, type |-> t,
                                last |-> NoValue, open |-> TRUE]],
              !.dlogs[n] = {Len(d.sink) + i : i \in 1..Len(ls)}]

LogNote(d, nt) ==
    LET n  == nt.name
        v  == nt.value
        d0 == Finish(d, n)   \* data type changed; finish any current logs
        d1 == StartStreams(d0, n, v.type)
    IN IF d.loggers = {} THEN d
       \* fast path the common case
       ELSE IF d.dlogs[n] = {} /\ "new" \notin nt.flags THEN d
       \* remove all of the datalog entries
       ELSE IF "delete" \in nt.flags THEN [d0 EXCEPT !.dtype[n] = NoType]
       ELSE IF v = NoValue THEN d
       ELSE IF v.type # d.dtype[n]
       THEN IF v.type \notin LoggedTypes THEN d0   \* not a type we're going to log
            ELSE IF d1.dlogs[n] = {} THEN d1       \* nothing to log
            ELSE AppendValue([d1 EXCEPT !.dtype[n] = v.type], n, v)
       ELSE AppendValue(d, n, v)

-----------------------------------------------------------------------------
(* Operations.  Each applies an NTStorage result under the lock: the      *)
(* table, the data logs for every note in order, and the notes queued for  *)
(* the notifier thread.                                                    *)

\* EntryNotifier::NotifyEntry(local_id, name, value, flags, only_listener).
Queued(nt, only) == [name |-> nt.name, value |-> nt.value, flags |-> nt.flags,
                     only |-> only]

Apply(r) ==
    /\ node' = r.st
    /\ dl' = FoldLeft(LogNote, dl, r.ntf)
    /\ queue' = queue \o [i \in 1..Len(r.ntf) |-> Queued(r.ntf[i], "any")]
    /\ Len(dl'.sink) <= MaxStreams

\* A user thread's call; it may run while the reader thread waits for the
\* lock in the middle of ProcessIncomingEntryAssign.
UserCall(r) ==
    /\ ops < MaxOps
    /\ Apply(r)
    /\ ops' = ops + 1
    /\ UNCHANGED <<cont, listening, view>>

DoSetEntryValue(n, v)       == UserCall(SetEntryValue(node, n, v, FALSE))
DoSetEntryTypeValue(n, v)   == UserCall(SetEntryTypeValue(node, n, v, FALSE))
DoSetDefaultEntryValue(n, v) == UserCall(SetDefaultEntryValue(node, n, v, FALSE))
DoSetEntryFlags(n, f)       == UserCall(SetEntryFlags(node, n, f))
DoDeleteEntry(n)            == UserCall(DeleteEntry(node, n))
DoDeleteAllEntries          == UserCall(DeleteAllEntries(node))

\* CreateRpc by local_id: the entry exists; its id comes from m_idmap.
DoCreateRpc(n, d) ==
    /\ n \in node.known
    /\ node.ent[n].id = Unassigned => Len(node.idmap) < MaxIds
    /\ UserCall(CreateRpc(node, n, d))

\* The reader thread handles message m from the server.
Receive(m) ==
    LET r == ProcessIncoming(node, m, FALSE, NoConn) IN
    /\ cont = NoCont
    /\ ops < MaxOps
    /\ Apply(r)
    /\ cont' = r.cont
    /\ ops' = ops + 1
    /\ UNCHANGED <<listening, view>>

\* The reader thread takes the lock again after queueing its FlagsUpdate.
Resume ==
    /\ cont # NoCont
    /\ Apply(ResumeEntryAssign(node, cont))
    /\ cont' = NoCont
    /\ UNCHANGED <<listening, view, ops>>

\* The reader thread applies the server's initial assignments.
Handshake(a) ==
    /\ cont = NoCont
    /\ ops < MaxOps
    /\ Apply(ApplyInitialAssignments(node, a))
    /\ ops' = ops + 1
    /\ UNCHANGED <<cont, listening, view>>

\* The entries StartDataLog logs at once: those with the logger's prefix and
\* a value of a type a data log takes.
Loggable(s, l) ==
    {n \in s.known \cap LoggerNames[l] :
        s.ent[n].value # NoValue /\ s.ent[n].value.type \in LoggedTypes}

\* StartDataLog(log, prefix, log_prefix): add the logger, start a stream for
\* every matching entry and log its current value.
StartDataLog(l) ==
    LET ns == SetToSeq(Loggable(node, l))
        at(n) == CHOOSE i \in 1..Len(ns) : ns[i] = n
    IN /\ l \notin dl.loggers
       /\ ops < MaxOps
       /\ Len(dl.sink) + Len(ns) <= MaxStreams
       /\ dl' = [dl EXCEPT
                   !.loggers = @ \cup {l},
                   !.sink = @ \o [i \in 1..Len(ns) |->
                                    [lg |-> l, name |-> ns[i],
                                     type |-> node.ent[ns[i]].value.type,
                                     last |-> node.ent[ns[i]].value, open |-> TRUE]],
                   !.dlogs = [n \in Names |-> IF n \in Loggable(node, l)
                                              THEN @[n] \cup {Len(dl.sink) + at(n)}
                                              ELSE @[n]],
                   !.dtype = [n \in Names |-> IF n \in Loggable(node, l)
                                              THEN node.ent[n].value.type
                                              ELSE @[n]]]
       /\ ops' = ops + 1
       /\ UNCHANGED <<node, cont, queue, listening, view>>

\* (Mutant) the logger is erased but its streams are left on the entries.
StopDataLogKeepStreams(l) ==
    /\ l \in dl.loggers
    /\ ops < MaxOps
    /\ dl' = [dl EXCEPT !.loggers = @ \ {l}]
    /\ ops' = ops + 1
    /\ UNCHANGED <<node, cont, queue, listening, view>>

\* StopDataLog(uid): erase the logger and finish its stream on every entry.
StopDataLog(l) ==
    LET Mine(n) == {i \in dl.dlogs[n] : dl.sink[i].lg = l} IN
    /\ l \in dl.loggers
    /\ ops < MaxOps
    /\ dl' = [dl EXCEPT
                !.loggers = @ \ {l},
                !.sink = [i \in DOMAIN @ |->
                            IF \E n \in Names : i \in Mine(n)
                            THEN [@[i] EXCEPT !.open = FALSE] ELSE @[i]],
                !.dlogs = [n \in Names |-> @[n] \ Mine(n)]]
    /\ ops' = ops + 1
    /\ UNCHANGED <<node, cont, queue, listening, view>>

\* (Mutant) the listener is registered without immediate notifications.
AddListenerNoImmediate ==
    /\ ~listening
    /\ listening' = TRUE
    /\ UNCHANGED <<node, cont, dl, queue, view, ops>>

\* AddListener(prefix, callback, NEW | IMMEDIATE | ...): register, then an
\* immediate NEW for every entry with a value and the prefix, for this
\* listener only.
AddListener ==
    LET ns == SetToSeq({n \in node.known \cap ListenNames : node.ent[n].value # NoValue})
    IN /\ ~listening
       /\ listening' = TRUE
       /\ queue' = queue \o [i \in 1..Len(ns) |->
                               Queued(Note(ns[i], node.ent[ns[i]].value,
                                           {"immediate", "new"}, FALSE), Listener)]
       /\ UNCHANGED <<node, cont, dl, view, ops>>

\* EntryNotifierThread::Matches: the listener's prefix, and only_listener.
Matches(q) == q.only \in {"any", Listener} /\ q.name \in ListenNames

\* The notifier thread pops a notification and calls every listener it
\* matches.  The listener rebuilds the table from what it is told.
Deliver ==
    LET q == Head(queue) IN
    /\ queue # <<>>
    /\ queue' = Tail(queue)
    /\ view' = IF listening /\ Matches(q)
               THEN [view EXCEPT ![q.name] = IF "delete" \in q.flags THEN NoValue
                                              ELSE q.value]
               ELSE view
    /\ UNCHANGED <<node, cont, dl, listening, ops>>

Next ==
    \/ \E n \in Names, v \in Values :
          DoSetDefaultEntryValue(n, v) \/ DoSetEntryValue(n, v) \/ DoSetEntryTypeValue(n, v)
    \/ \E n \in Names, f \in Flags : DoSetEntryFlags(n, f)
    \/ DoDeleteAllEntries
    \/ \E n \in Names : DoDeleteEntry(n)
    \/ \E n \in Names, d \in RpcDefs : DoCreateRpc(n, d)
    \/ \E m \in Incoming : Receive(m)
    \/ Resume
    \/ \E a \in Handshakes : Handshake(a)
    \/ \E l \in Loggers : StartDataLog(l) \/ StopDataLog(l)
    \/ AddListener
    \/ Deliver

Spec == Init /\ [][Next]_vars

-----------------------------------------------------------------------------
(* Properties.                                                             *)

IsRpc(v) == v # NoValue /\ v.type = "rpc"

TypeOK ==
    /\ node \in NodeState
    /\ dl.loggers \subseteq Loggers
    /\ dl.dlogs \in [Names -> SUBSET DOMAIN dl.sink]
    /\ dl.sink \in Seq(Stream)
    /\ listening \in BOOLEAN
    /\ view \in [Names -> Values \cup {NoValue}]
    /\ ops \in 0..MaxOps

\* Notify is called under the lock for every change, in the order of the
\* changes, and AddListener queues its immediate notifications under the
\* same lock: so once the notifier thread has drained its queue, a listener
\* that applies NEW, UPDATE and DELETE has the table's values.  CreateRpc
\* does not notify, so entries holding an RPC definition are left out.
ListenerSeesTable ==
    listening /\ queue = <<>> =>
        \A n \in ListenNames :
            ~IsRpc(node.ent[n].value) => view[n] = node.ent[n].value

\* The DataLog's open streams are exactly the entries' datalogs: a stream is
\* finished when its entry is deleted, changes type or its logger stops,
\* every open stream belongs to a running logger, has the entry's
\* datalog_type, and no entry has two open streams of one logger.
StreamsMirrorEntries ==
    /\ {i \in DOMAIN dl.sink : dl.sink[i].open} = UNION {dl.dlogs[n] : n \in Names}
    /\ \A n \in Names : \A i \in dl.dlogs[n] :
          /\ dl.sink[i].name = n /\ dl.sink[i].lg \in dl.loggers
          /\ dl.sink[i].type = dl.dtype[n]
    /\ \A n \in Names : \A i, j \in dl.dlogs[n] : dl.sink[i].lg = dl.sink[j].lg => i = j

\* Spec 6, data-log attachment: while a logger runs, every entry with its
\* prefix and a value of a logged type has an open stream of that logger
\* whose last value is the entry's value.
LoggedWhileMatching ==
    \A l \in dl.loggers, n \in Names :
        n \in LoggerNames[l] /\ node.ent[n].value # NoValue
        /\ node.ent[n].value.type \in LoggedTypes =>
            \E i \in dl.dlogs[n] : dl.sink[i].lg = l /\ dl.sink[i].last = node.ent[n].value

=============================================================================
