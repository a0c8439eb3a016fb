-------------------------- MODULE MC_NTReplication --------------------------
(***************************************************************************)
(* Model values and bounds for NTReplication.                             *)
(***************************************************************************)
EXTENDS NTReplication

CONSTANTS srv, c1, c2, n1, n2

\* Two values of one type and one of another: equal writes, updates and
\* type changes can all happen.
MCValues == {[type |-> "boolean", data |-> FALSE],
             [type |-> "boolean", data |-> TRUE],
             [type |-> "double", data |-> 0]}

\* Two booleans and an RPC definition, which CreateRpc stores: a
\* CreateRpc over a boolean changes the entry's type.
MCValuesRpc == {[type |-> "boolean", data |-> FALSE],
                [type |-> "boolean", data |-> TRUE],
                [type |-> "rpc", data |-> 0]}

MCClients1 == {c1}
MCClients2 == {c1, c2}
MCNames1 == {n1}
MCNames2 == {n1, n2}

\* Who calls the API in each configuration.
ServerUser   == {<<srv, "user">>}
ServerUsers2 == {<<srv, "user">>, <<srv, "user2">>}
ClientUser   == {<<c1, "user">>}
BothUsers    == {<<srv, "user">>, <<c1, "user">>}

=============================================================================
