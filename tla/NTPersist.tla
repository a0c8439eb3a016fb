------------------------------ MODULE NTPersist ------------------------------
(***************************************************************************)
(* The persistent file of a server node: m_persistent_dirty, the table     *)
(* writes that set it, and Storage::SavePersistent(filename, periodic)     *)
(* (Storage_save.cpp), whose steps against the file system are actions of  *)
(* their own so that table writes, a second saver and a crash can fall     *)
(* between them.  A saver is a thread that calls SavePersistent: the       *)
(* dispatcher's periodic save (periodic = true) or a user call of          *)
(* NT_SavePersistent (periodic = false).  A restart reloads the table from *)
(* the file through LoadPersistent.                                        *)
(*                                                                         *)
(* The file system holds the names fn, fn.bak and fn.tmp; each names an   *)
(* inode or is absent, and an open stream writes to its inode whatever it  *)
(* is named by the time it writes.  A file holds the text of             *)
(* PersistCodec: a save writes the sorted persistent entries through      *)
(* SavePersistentImpl, and a restart parses fn with the loader.            *)
(***************************************************************************)
EXTENDS NTStorage, PersistCodec

LOCAL INSTANCE SequencesExt

CONSTANTS
    PeriodicSaver,  \* the dispatcher thread's periodic SavePersistent
    UserSaver,      \* a user thread's NT_SavePersistent
    Savers,         \* the savers present, a subset of the two above
    Inodes,         \* inode numbers, enough for three names and every stream
    Incoming,       \* messages a client may send the server
    MaxOps,         \* bound on table writes
    MaxSaves,       \* bound on SavePersistent calls per saver
    MaxFailures,    \* bound on failed file system calls
    MaxCrashes,     \* bound on restarts
    NameText,       \* the bytes of each entry name
    Absent,         \* what a name with no file, or an unused inode, holds
    Garbage         \* bytes that are not one whole save

ASSUME Savers \subseteq {PeriodicSaver, UserSaver}
ASSUME Absent \notin Inodes
ASSUME /\ NameText \in [Names -> Seq(0..255)]
       /\ \A m, n \in Names : NameText[m] = NameText[n] => m = n

FileNames == {"fn", "bak", "tmp"}
\* The persistent entries a save writes: name -> value, NoValue if none.
Snapshots == [Names -> Values \cup {NoValue}]
EmptySnapshot == [n \in Names |-> NoValue]
\* A file just opened with truncation: nothing written yet.
Truncated == <<>>

\* SavePersistentImpl(os).Save(entries) on the entries GetPersistentEntries
\* copied, sorted in name order.
SaveText(snap) ==
    Save(SetToSortSeq({<<NameText[n], snap[n]>> : n \in {x \in Names : snap[x] # NoValue}},
                      LAMBDA a, b : BytesLess(a[1], b[1])))

Contents == {SaveText(s) : s \in Snapshots} \cup {Truncated, Garbage}
PCs == {"idle", "open", "write", "rename", "replace", "restore", "done"}
IsPeriodic(t) == t = PeriodicSaver

VARIABLES
    node,       \* the server's NTStorage node state (m_persistent_dirty is node.dirty)
    files,      \* file name -> inode or Absent
    content,    \* inode -> Contents; Absent for an inode nothing refers to
    saver,      \* saver -> [pc, snap, fd, err]: the locals of SavePersistent
    lastSaved,  \* the entries of the last save whose rename to fn succeeded
    ops, saves, failures, crashes

vars == <<node, files, content, saver, lastSaved, ops, saves, failures, crashes>>

IdleSaver == [pc |-> "idle", snap |-> EmptySnapshot, fd |-> Absent, err |-> FALSE]

-----------------------------------------------------------------------------
(* Helpers.                                                                *)

\* GetPersistentEntries' copy: every entry with a value and the persistent flag.
PersistentEntries(s) ==
    [n \in Names |-> IF s.ent[n].value # NoValue /\ IsPersistent(s.ent[n])
                     THEN s.ent[n].value ELSE NoValue]

\* An inode is in use while a name or an open stream refers to it.
InUse(f, sv) == {f[x] : x \in FileNames} \cup {sv[t].fd : t \in Savers}

\* Forget the content of inodes nothing refers to any more.
Collect(f, c, sv) == [i \in Inodes |-> IF i \in InUse(f, sv) THEN c[i] ELSE Absent]

\* The entries the loader reads from a file, by name: a later line for the
\* same name wins, as it is applied last.
LoadText(lines) ==
    LET ld == Load(lines)
        at(n) == {i \in DOMAIN ld : ld[i].name = NameText[n]}
    IN [n \in Names |-> IF at(n) = {} THEN NoValue
                        ELSE ld[CHOOSE i \in at(n) : \A j \in at(n) : j <= i].value]

\* The entries a restart would find in fn; a mixed file loads nothing.
OnDisk(f, c) ==
    IF f["fn"] = Absent \/ c[f["fn"]] = Garbage THEN EmptySnapshot
    ELSE LoadText(c[f["fn"]])

\* LoadPersistent into a fresh server table: each loaded entry gets the
\* persistent flag and goes through SetEntryValueImpl.
RECURSIVE LoadEntries(_, _, _)
LoadEntries(s, snap, todo) ==
    IF todo = {} THEN s
    ELSE LET n  == CHOOSE x \in todo : TRUE
             s1 == [GetOrNew(s, n) EXCEPT !.ent[n].flags = @ \cup {Persistent}]
         IN LoadEntries(SetEntryValueImpl(s1, n, snap[n], TRUE, TRUE).st, snap,
                        todo \ {n})

LoadPersistent(snap) ==
    LoadEntries(InitNode, snap, {n \in Names : snap[n] # NoValue})

-----------------------------------------------------------------------------
(* Table writes: the user API and the messages of a client, each one step  *)
(* under m_mutex.                                                          *)

Init ==
    /\ node = InitNode
    /\ files = [x \in FileNames |-> Absent]
    /\ content = [i \in Inodes |-> Absent]
    /\ saver = [t \in Savers |-> IdleSaver]
    /\ lastSaved = EmptySnapshot
    /\ ops = 0 /\ saves = [t \in Savers |-> 0] /\ failures = 0 /\ crashes = 0

Write(r) ==
    /\ ops < MaxOps
    /\ node' = r.st
    /\ ops' = ops + 1
    /\ UNCHANGED <<files, content, saver, lastSaved, saves, failures, crashes>>

\* The user API ignores an empty name; only a client's EntryAssign can
\* create one.
DoSetEntryValue(n, v) ==
    /\ NameText[n] # <<>>
    /\ CanAssign(node, n, TRUE)
    /\ Write(SetEntryValue(node, n, v, TRUE))

DoSetEntryFlags(n, f) == NameText[n] # <<>> /\ Write(SetEntryFlags(node, n, f))

DoDeleteEntry(n) == Write(DeleteEntry(node, n))

DoDeleteAllEntries == Write(DeleteAllEntries(node))

Receive(m) ==
    /\ m.type = "EntryAssign" /\ m.id = Unassigned => CanAssign(node, m.name, TRUE)
    /\ Write(ProcessIncoming(node, m, TRUE, NoConn))

-----------------------------------------------------------------------------
(* SavePersistent(filename, periodic), one action per file system call.    *)

\* GetPersistentEntries: for periodic, don't re-save unless something has
\* changed; otherwise clear m_persistent_dirty and copy the entries.
StartSave(t) ==
    /\ saver[t].pc = "idle"
    /\ saves[t] < MaxSaves
    /\ saves' = [saves EXCEPT ![t] = @ + 1]
    /\ IF IsPeriodic(t) /\ ~node.dirty
       THEN UNCHANGED <<node, saver>>
       ELSE /\ node' = [node EXCEPT !.dirty = FALSE]
            /\ saver' = [saver EXCEPT ![t] = [IdleSaver EXCEPT
                             !.pc = "open", !.snap = PersistentEntries(node)]]
    /\ UNCHANGED <<files, content, lastSaved, ops, failures, crashes>>

\* raw_fd_ostream os(tmp): create fn.tmp, or truncate the file it names.
OpenTmp(t) ==
    /\ saver[t].pc = "open"
    /\ \/ /\ failures < MaxFailures               \* could not open file
          /\ failures' = failures + 1
          /\ saver' = [saver EXCEPT ![t].pc = "done", ![t].err = TRUE]
          /\ UNCHANGED <<files, content>>
       \/ LET ino == IF files["tmp"] # Absent THEN files["tmp"]
                     ELSE CHOOSE i \in Inodes : i \notin InUse(files, saver)
          IN /\ files' = [files EXCEPT !["tmp"] = ino]
             /\ content' = [content EXCEPT ![ino] = Truncated]
             /\ saver' = [saver EXCEPT ![t].pc = "write", ![t].fd = ino]
             /\ UNCHANGED failures
    /\ UNCHANGED <<node, lastSaved, ops, saves, crashes>>

\* The bytes a stream leaves in its inode: the save, or a mix of two saves
\* when another stream wrote there since this one truncated it.
Written(old, snap) == IF old \in {Truncated, SaveText(snap)} THEN SaveText(snap) ELSE Garbage

\* A variant of WriteTmp that does not look at os.has_error() and goes on
\* to the renames with whatever reached the disk.
WriteTmpIgnoringError(t) ==
    /\ saver[t].pc = "write"
    /\ \/ /\ content' = [content EXCEPT ![saver[t].fd] = Written(@, saver[t].snap)]
          /\ UNCHANGED failures
       \/ /\ failures < MaxFailures
          /\ failures' = failures + 1
          /\ content' = [content EXCEPT ![saver[t].fd] = Garbage]
    /\ saver' = [saver EXCEPT ![t].pc = "rename", ![t].fd = Absent]
    /\ UNCHANGED <<files, node, lastSaved, ops, saves, crashes>>

\* Save(entries); os.close(); on os.has_error() remove fn.tmp.
WriteTmp(t) ==
    /\ saver[t].pc = "write"
    /\ \/ LET c == [content EXCEPT ![saver[t].fd] = Written(@, saver[t].snap)]
              sv == [saver EXCEPT ![t].pc = "rename", ![t].fd = Absent]
          IN /\ saver' = sv
             /\ content' = Collect(files, c, sv)
             /\ UNCHANGED <<files, failures>>
       \/ LET f == [files EXCEPT !["tmp"] = Absent]
              sv == [saver EXCEPT ![t].pc = "done", ![t].fd = Absent, ![t].err = TRUE]
          IN /\ failures < MaxFailures            \* error saving file
             /\ failures' = failures + 1
             /\ files' = f
             /\ saver' = sv
             /\ content' = Collect(f, [content EXCEPT ![saver[t].fd] = Garbage], sv)
    /\ UNCHANGED <<node, lastSaved, ops, saves, crashes>>

\* remove(bak); rename(fn, bak).  Failures of both are ignored by the code
\* and only leave fn in place for the next rename to replace.
MoveToBak(t) ==
    /\ saver[t].pc = "rename"
    /\ LET f == [files EXCEPT !["bak"] = files["fn"], !["fn"] = Absent]
       IN /\ files' = f
          /\ content' = Collect(f, content, saver)
    /\ saver' = [saver EXCEPT ![t].pc = "replace"]
    /\ UNCHANGED <<node, lastSaved, ops, saves, failures, crashes>>

\* rename(tmp, fn); it fails when fn.tmp is gone or the call fails.
ReplaceFn(t) ==
    /\ saver[t].pc = "replace"
    /\ \/ /\ files["tmp"] # Absent
          /\ files' = [files EXCEPT !["fn"] = files["tmp"], !["tmp"] = Absent]
          /\ saver' = [saver EXCEPT ![t].pc = "done"]
          /\ lastSaved' = saver[t].snap
          /\ UNCHANGED failures
       \/ /\ files["tmp"] = Absent \/ failures < MaxFailures
          /\ failures' = IF files["tmp"] = Absent THEN failures ELSE failures + 1
          /\ saver' = [saver EXCEPT ![t].pc = "restore"]
          /\ UNCHANGED <<files, lastSaved>>
    /\ content' = Collect(files', content, saver')
    /\ UNCHANGED <<node, ops, saves, crashes>>

\* rename(bak, fn) to restore the backup; its failure is ignored too.
Restore(t) ==
    /\ saver[t].pc = "restore"
    /\ \/ /\ files["bak"] # Absent
          /\ files' = [files EXCEPT !["fn"] = files["bak"], !["bak"] = Absent]
          /\ UNCHANGED failures
       \/ /\ files["bak"] = Absent \/ failures < MaxFailures
          /\ failures' = IF files["bak"] = Absent THEN failures ELSE failures + 1
          /\ UNCHANGED files
    /\ content' = Collect(files', content, saver)
    /\ saver' = [saver EXCEPT ![t].pc = "done", ![t].err = TRUE]
    /\ UNCHANGED <<node, lastSaved, ops, saves, crashes>>

\* A variant of Finish that never sets m_persistent_dirty again.
FinishNoRetry(t) ==
    /\ saver[t].pc = "done"
    /\ saver' = [saver EXCEPT ![t] = IdleSaver]
    /\ UNCHANGED <<node, files, content, lastSaved, ops, saves, failures, crashes>>

\* done: try again if there was an error.  The write of m_persistent_dirty
\* is made without m_mutex; a bool store is one step whichever way it
\* interleaves with the locked accesses.
Finish(t) ==
    /\ saver[t].pc = "done"
    /\ node' = [node EXCEPT !.dirty = @ \/ (saver[t].err /\ IsPeriodic(t))]
    /\ saver' = [saver EXCEPT ![t] = IdleSaver]
    /\ UNCHANGED <<files, content, lastSaved, ops, saves, failures, crashes>>

\* The process dies at any point and starts again: open streams are gone,
\* the files stay, and the server loads fn before it serves anyone.
Restart ==
    /\ crashes < MaxCrashes
    /\ crashes' = crashes + 1
    /\ node' = LoadPersistent(OnDisk(files, content))
    /\ saver' = [t \in Savers |-> IdleSaver]
    /\ content' = Collect(files, content, saver')
    /\ UNCHANGED <<files, lastSaved, ops, saves, failures>>

Next ==
    \/ \E n \in Names, v \in Values : DoSetEntryValue(n, v)
    \/ \E n \in Names, f \in Flags : DoSetEntryFlags(n, f)
    \/ \E n \in Names : DoDeleteEntry(n)
    \/ DoDeleteAllEntries
    \/ \E m \in Incoming : Receive(m)
    \/ \E t \in Savers :
          \/ StartSave(t) \/ OpenTmp(t) \/ WriteTmp(t) \/ MoveToBak(t)
          \/ ReplaceFn(t) \/ Restore(t) \/ Finish(t)
    \/ Restart

Spec == Init /\ [][Next]_vars

-----------------------------------------------------------------------------
(* Properties.                                                             *)

TypeOK ==
    /\ node \in NodeState
    /\ files \in [FileNames -> Inodes \cup {Absent}]
    /\ content \in [Inodes -> Contents \cup {Absent}]
    /\ saver \in [Savers -> [pc: PCs, snap: Snapshots, fd: Inodes \cup {Absent},
                             err: BOOLEAN]]
    /\ lastSaved \in Snapshots

\* m_persistent_dirty (spec 3.2 invariant 6): whenever no SavePersistent is
\* running and the flag is clear, the file a restart would load holds
\* exactly the persistent entries of the table.  A write that forgets to
\* set the flag, or a failed save that leaves it clear, makes the periodic
\* save skip a change for good.
DiskMatchesWhenClean ==
    (\A t \in Savers : saver[t].pc = "idle") /\ ~node.dirty
        => OnDisk(files, content) = PersistentEntries(node)

\* The file named fn is always one whole save: never a truncated or mixed
\* file from fn.tmp.
FileIsASave ==
    files["fn"] # Absent => content[files["fn"]] \in {SaveText(s) : s \in Snapshots}

\* Whenever fn exists, loading it gives back exactly the entries of the last
\* save whose rename reached fn: the rename sequence only ever leaves that
\* save (or, after a failed rename, its backup) under fn, and the loader
\* reads back what WriteString, WriteValue and WriteEntry wrote, whatever
\* quotes, backslashes, '=' or control bytes the names and strings hold.
FnLoadsLastSave ==
    files["fn"] # Absent => OnDisk(files, content) = lastSaved

\* The replacement of fn is atomic (spec 4.7): a restart at any point finds
\* every entry of the last save whose rename succeeded.
RestartRestoresLastSave ==
    [][Restart => PersistentEntries(node') = lastSaved]_vars

=============================================================================
