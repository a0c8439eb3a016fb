---------------------------- MODULE MC_NTPersist ----------------------------
(***************************************************************************)
(* Model values and bounds for NTPersist.                                 *)
(***************************************************************************)
EXTENDS NTPersist

CONSTANTS n1, periodicSaver, userSaver, P, X

\* Two values of one type, so a write can change a value or repeat it, and
\* a string holding a backslash, a control byte and a newline, which
\* WriteString escapes three different ways.
MCValues == {[type |-> "double", data |-> 0], [type |-> "double", data |-> 1],
             [type |-> "string", data |-> <<92, 1, 10>>]}

\* The name n="  : a letter, the '=' that WriteString writes as \x3D, and
\* a quote.
MCNameText == [n \in {n1} |-> <<110, 61, 34>>]

\* The empty name, which a server accepts in a client's EntryAssign.
MCNameEmpty == [n \in {n1} |-> <<>>]

MCNames == {n1}

PeriodicOnly == {periodicSaver}
UserOnly == {userSaver}
BothSavers == {periodicSaver, userSaver}

\* What a client sends about n1 (network id 0 once the server assigned it):
\* an id request, a newer value, both flag settings, a delete and a clear.
MCIncoming ==
    {EntryAssign(n1, Unassigned, 1, [type |-> "double", data |-> 1], {P}),
     EntryUpdate(0, 2, [type |-> "double", data |-> 0]),
     FlagsUpdate(0, {}), FlagsUpdate(0, {P}),
     EntryDelete(0), ClearEntries}

=============================================================================
