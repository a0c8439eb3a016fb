------------------------------ MODULE NTStorage ------------------------------
(***************************************************************************)
(* The entry table of one ntcore node and every Storage operation on it   *)
(* (Storage.cpp).  Each operation is an operator from the node state to a  *)
(* record                                                                  *)
(*     [st |-> new node state, out |-> messages to queue, cont |-> tail,   *)
(*      ntf |-> notifications]                                             *)
(* The body of an operator is what the code does while it holds m_mutex;  *)
(* "out" is what it hands to IDispatcher::QueueOutgoing after releasing    *)
(* the lock, and "cont" is the part of a handler that runs after it takes  *)
(* the lock again (only the client side of ProcessIncomingEntryAssign      *)
(* does that).  The composition with threads and connections is in        *)
(* NTReplication.  "ntf" lists the Storage::Notify calls the operation    *)
(* makes under the lock, in order; NTNotify delivers them.                 *)
(***************************************************************************)
EXTENDS Integers, Sequences, FiniteSets

CONSTANTS
    Names,        \* entry names
    Values,       \* values: records [type, data]; equality is Value::operator==
    FlagBits,     \* the flag bits that may be set on an entry
    Persistent,   \* NT_PERSISTENT, a member of FlagBits
    NoValue,      \* an empty std::shared_ptr<Value>
    NoName,       \* a null Entry* slot of m_idmap
    NoConn,       \* a null INetworkConnection* (no connection excluded)
    MaxIds        \* bound on the length of m_idmap (ids the server hands out)

ASSUME Persistent \in FlagBits
ASSUME \A v \in Values : DOMAIN v = {"type", "data"}
ASSUME MaxIds \in Nat \ {0}

LOCAL INSTANCE SeqNum WITH SeqBits <- 16
LOCAL INSTANCE SequencesExt

\* Entry::id of an entry the server has not assigned yet.
Unassigned == 65535

Ids == 0..(MaxIds - 1)
Flags == SUBSET FlagBits
SeqNums == 0..(2^16 - 1)

-----------------------------------------------------------------------------
(* State: Storage::Entry, m_entries, m_idmap and m_persistent_dirty.       *)

\* Storage::Entry.  lw is local_write.  name is the key of ent; local_id is
\* left out because entries are never removed from m_entries.
Entry == [value: Values \cup {NoValue}, flags: Flags,
          id: Ids \cup {Unassigned}, seq: SeqNums, lw: BOOLEAN]

NewEntry == [value |-> NoValue, flags |-> {}, id |-> Unassigned,
             seq |-> 0, lw |-> FALSE]

\* known: the names present in m_entries.  idmap: m_idmap, whose slot for
\* network id i is idmap[i + 1].
NodeState == [ent: [Names -> Entry], known: SUBSET Names,
              idmap: Seq(Names \cup {NoName}), dirty: BOOLEAN]

InitNode == [ent |-> [n \in Names |-> NewEntry], known |-> {},
             idmap |-> <<>>, dirty |-> FALSE]

IsPersistent(e) == Persistent \in e.flags

-----------------------------------------------------------------------------
(* Messages (Message.h).  Fields a kind does not carry hold defaults.      *)

Msg(type, name, id, seq, value, flags) ==
    [type |-> type, name |-> name, id |-> id, seq |-> seq,
     value |-> value, flags |-> flags]

EntryAssign(n, id, seq, v, f) == Msg("EntryAssign", n, id, seq, v, f)
EntryUpdate(id, seq, v)       == Msg("EntryUpdate", NoName, id, seq, v, {})
FlagsUpdate(id, f)            == Msg("FlagsUpdate", NoName, id, 0, NoValue, f)
EntryDelete(id)               == Msg("EntryDelete", NoName, id, 0, NoValue, {})
ClearEntries                  == Msg("ClearEntries", NoName, 0, 0, NoValue, {})

\* One QueueOutgoing(msg, nullptr, except) call.
Out(m, except) == [msg |-> m, except |-> except]

NoCont == [kind |-> "none"]

\* One Storage::Notify(entry, flags, local, value) call: the entry's name, the
\* value it carries and its NT_NOTIFY_* flags, with NT_NOTIFY_LOCAL for a
\* local change.
Note(n, v, kinds, local) ==
    [name |-> n, value |-> v, flags |-> kinds \cup (IF local THEN {"local"} ELSE {})]

\* Result of an operation that leaves the table as s.
Res(s, out, ntf) == [st |-> s, out |-> out, cont |-> NoCont, ntf |-> ntf]
Done(s, out) == Res(s, out, <<>>)
NoOp(s) == Done(s, <<>>)

-----------------------------------------------------------------------------
(* Helpers on m_idmap and m_entries.                                       *)

\* m_idmap[id] when id < m_idmap.size(), else a null entry.
IdLookup(s, id) == IF id < Len(s.idmap) THEN s.idmap[id + 1] ELSE NoName

\* m_idmap.resize(id + 1) when the vector is too short.
Grow(idmap, id) ==
    IF id < Len(idmap) THEN idmap
    ELSE idmap \o [k \in 1..(id + 1 - Len(idmap)) |-> NoName]

\* A variant of ClearSlot that leaves the slot of a deleted entry filled.
ClearSlotNever(idmap, id) == idmap

\* if (id < m_idmap.size()) m_idmap[id] = nullptr;
ClearSlot(idmap, id) ==
    IF id < Len(idmap) THEN [idmap EXCEPT ![id + 1] = NoName] ELSE idmap

\* GetOrNew(name): the entry is created vacant when absent.
GetOrNew(s, n) == [s EXCEPT !.known = @ \cup {n}]

\* SetEntryValueImpl assigns an id on the server while m_idmap has room.
CanAssign(s, n, srv) ==
    srv /\ s.ent[n].id = Unassigned => Len(s.idmap) < MaxIds

-----------------------------------------------------------------------------
(* The shared write path and the two other *Impl helpers.                  *)

\* A variant of NewId one past m_idmap.size().
NewIdPlusOne(s) == Len(s.idmap) + 1

\* if we're the server, assign an id if it doesn't have one: m_idmap.size()
NewId(s) == Len(s.idmap)

\* The message the tail of SetEntryValueImpl generates: an EntryAssign for a
\* new value or a new type, an EntryUpdate for a changed value.
WriteMsg(kind, n, id, seq, v, f) ==
    CASE kind = "assign" -> <<Out(EntryAssign(n, id, seq, v, f), NoConn)>>
         \* don't send an update if we don't have an assigned id yet
      [] kind = "update" /\ id # Unassigned -> <<Out(EntryUpdate(id, seq, v), NoConn)>>
      [] OTHER -> <<>>

SetEntryValueImpl(s, n, v, local, srv) ==
    LET e      == s.ent[n]
        old    == e.value
        assign == srv /\ e.id = Unassigned
        newId  == IF assign THEN NewId(s) ELSE e.id
        idmap  == IF assign THEN [Grow(s.idmap, newId) EXCEPT ![newId + 1] = n]
                  ELSE s.idmap
        dirty  == s.dirty \/ (IsPersistent(e) /\ old # v)
        kind   == IF ~local /\ ~srv THEN "none"
                  ELSE IF old = NoValue \/ old.type # v.type THEN "assign"
                  ELSE IF old # v THEN "update"
                  ELSE "none"
        seq    == IF local /\ kind # "none" THEN SeqInc(e.seq) ELSE e.seq
        ntf    == IF old = NoValue THEN <<Note(n, v, {"new"}, local)>>
                  ELSE IF old # v THEN <<Note(n, v, {"update"}, local)>>
                  ELSE <<>>
    IN Res([s EXCEPT !.ent[n] = [e EXCEPT !.value = v, !.id = newId,
                                          !.seq = seq, !.lw = @ \/ local],
                     !.idmap = idmap, !.dirty = dirty],
           WriteMsg(kind, n, newId, seq, v, e.flags), ntf)

SetEntryFlagsImpl(s, n, f, local) ==
    LET e == s.ent[n] IN
    IF e.value = NoValue \/ e.flags = f THEN NoOp(s)
    ELSE Res([s EXCEPT !.ent[n].flags = f,
                       !.dirty = @ \/ (IsPersistent(e) # (Persistent \in f))],
             IF local /\ e.id # Unassigned
             THEN <<Out(FlagsUpdate(e.id, f), NoConn)>> ELSE <<>>,
             <<Note(n, e.value, {"flags"}, local)>>)

\* The DELETE notification, carrying the old value, of an entry that had one.
DeleteNote(n, old, local) ==
    IF old = NoValue THEN <<>> ELSE <<Note(n, old, {"delete"}, local)>>

\* A variant of DeleteEntryImpl that leaves id and slot in place.
DeleteEntryImplKeepId(s, n, local) ==
    LET e == s.ent[n] IN
    Res([s EXCEPT !.ent[n] = [e EXCEPT !.value = NoValue, !.lw = FALSE, !.flags = {}],
                  !.dirty = @ \/ IsPersistent(e)],
        IF e.value # NoValue /\ local /\ e.id # Unassigned
        THEN <<Out(EntryDelete(e.id), NoConn)>> ELSE <<>>,
        DeleteNote(n, e.value, local))

DeleteEntryImpl(s, n, local) ==
    LET e == s.ent[n] IN
    Res([s EXCEPT !.idmap = ClearSlot(@, e.id),
                  !.ent[n] = [e EXCEPT !.value = NoValue, !.id = Unassigned,
                                       !.lw = FALSE, !.flags = {}],
                  !.dirty = @ \/ IsPersistent(e)],
        IF e.value # NoValue /\ local /\ e.id # Unassigned
        THEN <<Out(EntryDelete(e.id), NoConn)>> ELSE <<>>,
        DeleteNote(n, e.value, local))

\* The DELETE notifications of DeleteAllEntriesImpl, one per deleted entry in
\* the iteration order of m_entries.
DeleteAllNotes(s, del, local) ==
    LET ns == SetToSeq(del) IN
    [i \in 1..Len(ns) |-> Note(ns[i], s.ent[ns[i]].value, {"delete"}, local)]

\* A variant of DeleteAllEntriesImpl that clears the slots but keeps the ids.
DeleteAllEntriesImplKeepId(s, sel, local) ==
    LET del == {n \in sel : s.ent[n].value # NoValue}
        freed == {s.ent[n].id : n \in del}
    IN Res([s EXCEPT
              !.ent = [n \in Names |->
                         IF n \in del THEN [s.ent[n] EXCEPT !.value = NoValue, !.lw = FALSE]
                         ELSE s.ent[n]],
              !.idmap = [k \in DOMAIN s.idmap |->
                           IF k - 1 \in freed THEN NoName ELSE s.idmap[k]]],
           <<>>, DeleteAllNotes(s, del, local))

\* DeleteAllEntriesImpl(local, should_delete): every entry with a value whose
\* name is in sel, the names should_delete selects, is notified DELETE and
\* loses value, id and local_write; flags are kept.
DeleteAllEntriesImpl(s, sel, local) ==
    LET del == {n \in sel : s.ent[n].value # NoValue}
        freed == {s.ent[n].id : n \in del}
    IN Res([s EXCEPT
              !.ent = [n \in Names |->
                         IF n \in del
                         THEN [s.ent[n] EXCEPT !.value = NoValue, !.id = Unassigned,
                                               !.lw = FALSE]
                         ELSE s.ent[n]],
              !.idmap = [k \in DOMAIN s.idmap |->
                           IF k - 1 \in freed THEN NoName ELSE s.idmap[k]]],
           <<>>, DeleteAllNotes(s, del, local))

\* The names of s whose entries are not persistent.
NotPersistent(s) == {n \in s.known : ~IsPersistent(s.ent[n])}

-----------------------------------------------------------------------------
(* User API (local = true).                                                *)

SetEntryValue(s, n, v, srv) ==
    LET s1 == GetOrNew(s, n) IN
    IF s1.ent[n].value # NoValue /\ s1.ent[n].value.type # v.type
    THEN NoOp(s1)                                  \* error on type mismatch
    ELSE SetEntryValueImpl(s1, n, v, TRUE, srv)

SetEntryTypeValue(s, n, v, srv) == SetEntryValueImpl(GetOrNew(s, n), n, v, TRUE, srv)

SetDefaultEntryValue(s, n, v, srv) ==
    LET s1 == GetOrNew(s, n) IN
    IF s1.ent[n].value # NoValue THEN NoOp(s1)
    ELSE SetEntryValueImpl(s1, n, v, TRUE, srv)

SetEntryFlags(s, n, f) ==
    IF n \notin s.known THEN NoOp(s) ELSE SetEntryFlagsImpl(s, n, f, TRUE)

DeleteEntry(s, n) ==
    IF n \notin s.known THEN NoOp(s) ELSE DeleteEntryImpl(s, n, TRUE)

DeleteAllEntries(s) ==
    IF s.known = {} THEN NoOp(s)
    ELSE LET r == DeleteAllEntriesImpl(s, NotPersistent(s), TRUE)
         IN Res(r.st, <<Out(ClearEntries, NoConn)>>, r.ntf)

-----------------------------------------------------------------------------
(* Incoming messages (ProcessIncoming*, local = false).  srv is m_server;  *)
(* from is the connection the message arrived on.                          *)

\* The part of ProcessIncomingEntryAssign shared by client and server, for
\* the entry named n.  mnu is may_need_update.
EntryAssignCommon(s, n, m, mnu, srv, from) ==
    LET e == s.ent[n] IN
    IF SeqLess(m.seq, e.seq)
    THEN Done(s, IF mnu THEN <<Out(EntryUpdate(e.id, e.seq, e.value), NoConn)>>
                 ELSE <<>>)
    ELSE IF m.name # n THEN NoOp(s)   \* entry assignment for same id with different name
    ELSE LET f  == IF mnu THEN e.flags ELSE m.flags
             d1 == ~mnu /\ IsPersistent(e) # (Persistent \in m.flags)
             d2 == Persistent \in f /\ e.value # m.value
             kinds == {"update"} \cup (IF f # e.flags THEN {"flags"} ELSE {})
         IN Res([s EXCEPT !.ent[n] = [e EXCEPT !.flags = f, !.value = m.value,
                                               !.seq = m.seq],
                          !.dirty = @ \/ d1 \/ d2],
                IF srv THEN <<Out(EntryAssign(n, m.id, m.seq, m.value, f), from)>>
                ELSE <<>>,
                <<Note(n, m.value, kinds, FALSE)>>)

\* The client side, after it took the lock again following the FlagsUpdate.
AssignTail(n, m) == [kind |-> "assignTail", name |-> n, msg |-> m]

ProcessIncomingEntryAssign(s, m, srv, from) ==
    IF srv THEN
        IF m.id = Unassigned THEN
            \* a client asks for an id; ignore it if one was assigned already
            LET s1 == GetOrNew(s, m.name) IN
            IF s1.ent[m.name].id # Unassigned THEN NoOp(s1)
            ELSE SetEntryValueImpl([s1 EXCEPT !.ent[m.name].flags = m.flags,
                                              !.ent[m.name].seq = m.seq],
                                   m.name, m.value, FALSE, TRUE)
        ELSE IF IdLookup(s, m.id) = NoName THEN NoOp(s)   \* unknown entry
        ELSE EntryAssignCommon(s, IdLookup(s, m.id), m, FALSE, TRUE, from)
    ELSE IF m.id = Unassigned THEN NoOp(s)
    ELSE
        LET s1 == [s EXCEPT !.idmap = Grow(@, m.id)] IN
        IF IdLookup(s1, m.id) # NoName
        THEN EntryAssignCommon(s1, IdLookup(s1, m.id), m, FALSE, FALSE, from)
        ELSE
            LET n  == m.name
                s2 == [GetOrNew(s1, n) EXCEPT !.ent[n].id = m.id,
                                              !.idmap[m.id + 1] = n]
                e  == s2.ent[n]
            IN IF e.value = NoValue
               THEN \* didn't exist at all: take the server's entry
                    Res([s2 EXCEPT !.ent[n] = [e EXCEPT !.value = m.value,
                                                !.flags = m.flags, !.seq = m.seq]],
                        <<>>, <<Note(n, m.value, {"new"}, FALSE)>>)
               ELSE IF m.flags # e.flags
               THEN \* unlock, send our flags, lock, continue
                    [st |-> s2, out |-> <<Out(FlagsUpdate(m.id, e.flags), NoConn)>>,
                     cont |-> AssignTail(n, m), ntf |-> <<>>]
               ELSE EntryAssignCommon(s2, n, m, TRUE, FALSE, from)

\* Forwarding of an applied message to every other connection (server only).
Forward(r, m, srv, from) ==
    Res(r.st, r.out \o (IF srv THEN <<Out(m, from)>> ELSE <<>>), r.ntf)

ProcessIncomingEntryUpdate(s, m, srv, from) ==
    LET n == IdLookup(s, m.id) IN
    IF n = NoName THEN NoOp(s)
    ELSE IF SeqLeq(m.seq, s.ent[n].seq) THEN NoOp(s)
    ELSE Forward(Res([s EXCEPT !.ent[n].value = m.value, !.ent[n].seq = m.seq,
                               !.dirty = @ \/ IsPersistent(s.ent[n])],
                     <<>>, <<Note(n, m.value, {"update"}, FALSE)>>),
                 m, srv, from)

ProcessIncomingFlagsUpdate(s, m, srv, from) ==
    LET n == IdLookup(s, m.id) IN
    IF n = NoName THEN NoOp(s)
    ELSE Forward(SetEntryFlagsImpl(s, n, m.flags, FALSE), m, srv, from)

ProcessIncomingEntryDelete(s, m, srv, from) ==
    LET n == IdLookup(s, m.id) IN
    IF n = NoName THEN NoOp(s)
    ELSE Forward(DeleteEntryImpl(s, n, FALSE), m, srv, from)

\* A variant of ProcessIncomingClearEntries that deletes persistent entries too.
ProcessIncomingClearEntriesAll(s, m, srv, from) ==
    Forward(DeleteAllEntriesImpl(s, s.known, FALSE), m, srv, from)

ProcessIncomingClearEntries(s, m, srv, from) ==
    Forward(DeleteAllEntriesImpl(s, NotPersistent(s), FALSE), m, srv, from)

\* ProcessIncoming: dispatch on the message type.
ProcessIncoming(s, m, srv, from) ==
    CASE m.type = "EntryAssign"  -> ProcessIncomingEntryAssign(s, m, srv, from)
      [] m.type = "EntryUpdate"  -> ProcessIncomingEntryUpdate(s, m, srv, from)
      [] m.type = "FlagsUpdate"  -> ProcessIncomingFlagsUpdate(s, m, srv, from)
      [] m.type = "EntryDelete"  -> ProcessIncomingEntryDelete(s, m, srv, from)
      [] m.type = "ClearEntries" -> ProcessIncomingClearEntries(s, m, srv, from)

\* Resuming a client ProcessIncomingEntryAssign after the FlagsUpdate.
ResumeEntryAssign(s, c) == EntryAssignCommon(s, c.name, c.msg, TRUE, FALSE, NoConn)

-----------------------------------------------------------------------------
(* Connection start-up.                                                    *)

\* GetInitialAssignments (server): an EntryAssign for every entry with a value.
GetInitialAssignments(s) ==
    {EntryAssign(n, s.ent[n].id, s.ent[n].seq, s.ent[n].value, s.ent[n].flags) :
        n \in {k \in s.known : s.ent[k].value # NoValue}}

\* ApplyInitialAssignments (client), for the set of assignments msgs.  The
\* result's out holds update_msgs followed by the out_msgs the dispatcher
\* sends once the call returns.
ApplyInitialAssignments(s, msgs) ==
    LET asg   == {m \in msgs : m.type = "EntryAssign" /\ m.id # Unassigned}
        named == {m.name : m \in asg}
        For(n) == CHOOSE m \in asg : m.name = n
        \* entries written here that are not persistent keep their value
        Keep(e) == e.value # NoValue /\ e.lw /\ ~IsPersistent(e)
        Applied(n) ==
            LET m == For(n)
                e == [s.ent[n] EXCEPT !.id = m.id]
            IN IF Keep(e) THEN [e EXCEPT !.seq = SeqInc(m.seq)]
               ELSE [e EXCEPT !.value = m.value, !.flags = m.flags, !.seq = m.seq]
        ent1  == [n \in Names |-> IF n \in named THEN Applied(n)
                                  ELSE [s.ent[n] EXCEPT !.id = Unassigned]]
        len   == IF asg = {} THEN 0 ELSE 1 + Max({m.id : m \in asg})
        idmap == [k \in 1..len |-> IF \E m \in asg : m.id = k - 1
                                  THEN (CHOOSE m \in asg : m.id = k - 1).name
                                  ELSE NoName]
        s1    == [s EXCEPT !.known = @ \cup named, !.ent = ent1, !.idmap = idmap]
        upd   == {EntryUpdate(ent1[n].id, ent1[n].seq, ent1[n].value) :
                     n \in {k \in named : Keep(s.ent[k])}}
        \* unassigned local entries: re-advertise if written here, else delete
        again == {EntryAssign(n, Unassigned, ent1[n].seq, ent1[n].value, ent1[n].flags) :
                     n \in {k \in s1.known : ent1[k].value # NoValue
                                             /\ ent1[k].id = Unassigned /\ ent1[k].lw}}
        \* NEW for an entry that had no value, UPDATE (and FLAGS) for one
        \* the server's assignment overwrote
        Notes(n) ==
            IF s.ent[n].value = NoValue
            THEN <<Note(n, ent1[n].value, {"new"}, FALSE)>>
            ELSE IF Keep(s.ent[n]) THEN <<>>
            ELSE <<Note(n, ent1[n].value,
                        {"update"} \cup (IF ent1[n].flags # s.ent[n].flags
                                         THEN {"flags"} ELSE {}), FALSE)>>
        unclaimed == {n \in s1.known : ent1[n].id = Unassigned /\ ~ent1[n].lw}
        ToOut(S) == [i \in 1..Cardinality(S) |-> Out(SetToSeq(S)[i], NoConn)]
        d == DeleteAllEntriesImpl(s1, unclaimed, FALSE)
    IN Res(d.st, ToOut(upd) \o ToOut(again),
           FoldLeft(LAMBDA acc, n : acc \o Notes(n), <<>>, SetToSeq(named)) \o d.ntf)

-----------------------------------------------------------------------------
(* RPC definitions.                                                        *)

\* CreateRpc(local_id, def, rpc_uid): the entry takes the RPC definition def
\* as its value.  An id is taken from m_idmap whatever the node's role, and
\* nothing is notified.
CreateRpc(s, n, def) ==
    LET e  == s.ent[n]
        s1 == [s EXCEPT !.ent[n].value = def]
        id == IF e.id = Unassigned THEN Len(s.idmap) ELSE e.id
        sq == SeqInc(e.seq)
    IN IF e.value # NoValue /\ e.value = def THEN NoOp(s1)
       ELSE Done([s1 EXCEPT !.ent[n].id = id, !.ent[n].seq = sq,
                            !.idmap = IF e.id = Unassigned THEN Append(@, n) ELSE @],
                 <<Out(IF e.value = NoValue \/ e.value.type # def.type
                       THEN EntryAssign(n, id, sq, def, e.flags)
                       ELSE EntryUpdate(id, sq, def), NoConn)>>)

=============================================================================
