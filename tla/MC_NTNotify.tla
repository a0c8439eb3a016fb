------------------------------ MODULE MC_NTNotify ------------------------------
(***************************************************************************)
(* Model values and bounds for NTNotify.                                  *)
(***************************************************************************)
EXTENDS NTNotify

CONSTANTS n1, n2, l1, l2, P

MCNames1 == {n1}
MCNames2 == {n1, n2}

\* Two doubles and a boolean give new values, updates and type changes; the
\* RPC definition is what CreateRpc stores.
Dbl0 == [type |-> "double", data |-> 0]
Dbl1 == [type |-> "double", data |-> 1]
Bool == [type |-> "boolean", data |-> TRUE]
Rpc  == [type |-> "rpc", data |-> 0]

MCValues    == {Dbl0, Dbl1, Bool, Rpc}
MCValuesLog == {Dbl0, Dbl1, Bool}
MCRpcDefs   == {Rpc}

\* Both loggers take every name (prefix "").
MCLoggerNames == [l \in {l1, l2} |-> {n1}]

\* What the server sends for id 0: its assignment (with flags that differ
\* from a local write's), an update, flag changes, a delete and a clear.
MCIncoming ==
    {EntryAssign(n1, 0, 1, Dbl1, {P}), EntryUpdate(0, 2, Dbl0),
     FlagsUpdate(0, {}), EntryDelete(0), ClearEntries}

\* A handshake with the server's entry, and one with an empty table.
MCHandshakes == {{EntryAssign(n1, 0, 1, Dbl1, {})}, {}}

=============================================================================
