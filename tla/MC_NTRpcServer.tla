---------------------------- MODULE MC_NTRpcServer ----------------------------
(***************************************************************************)
(* Model values and bounds for NTRpcServer.                                *)
(***************************************************************************)
EXTENDS NTRpcServer, TLC

CONSTANTS srv, c1, c2, cb, pl

\* cb is served by a callback and called by the server and client c1;
\* pl is polled and called by client c2.
MCRpcs == {cb, pl}
MCCallers == (cb :> {srv, c1}) @@ (pl :> {c2})
MCPolled == {pl}
MCLocalId == (cb :> 3) @@ (pl :> 4)

\* pl polled and called by both clients: their first calls share the key
\* (local_id, 1).
MCRpcsPolled == {pl}
MCCallersPolled == pl :> {c1, c2}
MCLocalIdPolled == pl :> 4

=============================================================================
