---------------------------- MODULE PersistCodec ----------------------------
(***************************************************************************)
(* The persistent file format: SavePersistentImpl (Storage_save.cpp), the *)
(* writer, and the loader of the same text (Storage_load.cpp is not part   *)
(* of this source tree; it is modelled from spec 4.7).                     *)
(*                                                                         *)
(* A file is a sequence of lines.  The fixed words of a line, the header   *)
(* and the type prefix ("double ", "array string ", ...), are kept as one  *)
(* token each; what follows the prefix, where escaping matters, is a       *)
(* sequence of bytes (numbers 0..255).  A value is a record [type, data]:  *)
(* a boolean's data is TRUE or FALSE, a double's a natural number (a       *)
(* double with an integral value below 10^6, which %g prints as its        *)
(* decimal digits), a string's a sequence of bytes.                        *)
(***************************************************************************)
EXTENDS Naturals, Sequences

LOCAL INSTANCE SequencesExt

Backslash == 92
Quote     == 34
Eq        == 61
Tab       == 9
Newline   == 10

TrueText  == <<116, 114, 117, 101>>          \* "true"
FalseText == <<102, 97, 108, 115, 101>>      \* "false"

Header == [prefix |-> "[NetworkTables Storage 3.0]", text |-> <<>>]

\* WriteType: the prefix of each type the file holds; any other type
\* (RPC, unassigned) is not written.
TypePrefix == [boolean |-> "boolean ", double |-> "double ", string |-> "string "]

\* std::isprint in the "C" locale.
IsPrint(c) == c \in 32..126

\* wpi::hexdigit, upper case.
HexDigit(d) == IF d < 10 THEN 48 + d ELSE 55 + d

\* (Mutant) a quote is written as it is, like any printable byte.
EscapeCharNoQuote(c) ==
    CASE c = Backslash          -> <<Backslash, Backslash>>
      [] c = Tab                -> <<Backslash, 116>>
      [] c = Newline            -> <<Backslash, 110>>
      [] IsPrint(c) /\ c # Eq   -> <<c>>
      [] OTHER -> <<Backslash, 120, HexDigit((c \div 16) % 16), HexDigit(c % 16)>>

\* One byte of WriteString.
EscapeChar(c) ==
    CASE c = Backslash          -> <<Backslash, Backslash>>
      [] c = Tab                -> <<Backslash, 116>>
      [] c = Newline            -> <<Backslash, 110>>
      [] c = Quote              -> <<Backslash, Quote>>
      [] IsPrint(c) /\ c # Eq   -> <<c>>
      [] OTHER -> <<Backslash, 120, HexDigit((c \div 16) % 16), HexDigit(c % 16)>>

\* WriteString: escapes and writes a string, with the double quotes.
WriteString(s) ==
    <<Quote>> \o FlattenSeq([i \in DOMAIN s |-> EscapeChar(s[i])]) \o <<Quote>>

\* fmt::format("{:g}", d) for an integral d below 10^6.
RECURSIVE Digits(_)
Digits(d) == IF d < 10 THEN <<48 + d>> ELSE Digits(d \div 10) \o <<48 + (d % 10)>>

WriteValue(v) ==
    CASE v.type = "boolean" -> IF v.data THEN TrueText ELSE FalseText
      [] v.type = "double"  -> Digits(v.data)
      [] v.type = "string"  -> WriteString(v.data)

\* WriteEntry: type, quoted name, '=', value; an entry of a type WriteType
\* rejects writes nothing.
WriteEntry(name, v) ==
    IF v.type \in DOMAIN TypePrefix
    THEN <<[prefix |-> TypePrefix[v.type],
            text |-> WriteString(name) \o <<Eq>> \o WriteValue(v)]>>
    ELSE <<>>

\* Save: the header, then every entry with a value, in the order given
\* (GetPersistentEntries sorts by name).
Save(entries) ==
    <<Header>> \o FlattenSeq([i \in DOMAIN entries |-> WriteEntry(entries[i][1], entries[i][2])])

\* std::string operator<: byte-wise lexicographic order.
RECURSIVE BytesLess(_, _)
BytesLess(a, b) ==
    \/ a = <<>> /\ b # <<>>
    \/ a # <<>> /\ b # <<>> /\ \/ Head(a) < Head(b)
                               \/ Head(a) = Head(b) /\ BytesLess(Tail(a), Tail(b))

-----------------------------------------------------------------------------
(* The loader (spec 4.7): the header must come first; a line that does not *)
(* parse is skipped, and so is an entry with an empty name.               *)

Fail == [ok |-> FALSE, val |-> <<>>, next |-> 0]

IsHex(c) == c \in 48..57 \cup 65..70 \cup 97..102
HexVal(c) == CASE c \in 48..57 -> c - 48 [] c \in 65..70 -> c - 55 [] OTHER -> c - 87

\* C-style escapes: \t, \n, \xHH, and a backslash before any other byte
\* stands for that byte.
Unescaped(e) == CASE e = 116 -> Tab [] e = 110 -> Newline [] OTHER -> e

\* Read an escaped string from t[i] on up to its closing quote.
RECURSIVE ReadEscaped(_, _, _)
ReadEscaped(t, i, acc) ==
    CASE i > Len(t) -> Fail
      [] t[i] = Quote -> [ok |-> TRUE, val |-> acc, next |-> i + 1]
      [] t[i] = Backslash /\ i + 1 <= Len(t) /\ t[i + 1] = 120 ->
            IF i + 3 <= Len(t) /\ IsHex(t[i + 2]) /\ IsHex(t[i + 3])
            THEN ReadEscaped(t, i + 4, Append(acc, HexVal(t[i + 2]) * 16 + HexVal(t[i + 3])))
            ELSE Fail
      [] t[i] = Backslash /\ i + 1 <= Len(t) ->
            ReadEscaped(t, i + 2, Append(acc, Unescaped(t[i + 1])))
      [] t[i] = Backslash -> Fail
      [] OTHER -> ReadEscaped(t, i + 1, Append(acc, t[i]))

\* A quoted string that is the whole of t.
ReadQuoted(t) ==
    LET r == IF t # <<>> /\ t[1] = Quote THEN ReadEscaped(t, 2, <<>>) ELSE Fail
    IN [ok |-> r.ok /\ r.next = Len(t) + 1, val |-> r.val]

IsDigits(t) == t # <<>> /\ \A i \in DOMAIN t : t[i] \in 48..57

ParseValue(type, t) ==
    CASE type = "boolean" -> [ok |-> t \in {TrueText, FalseText}, val |-> t = TrueText]
      [] type = "double"  -> [ok |-> IsDigits(t),
                              val |-> FoldLeft(LAMBDA acc, c : acc * 10 + (c - 48), 0, t)]
      [] type = "string"  -> ReadQuoted(t)

\* One line: [ok, name, value].
ParseLine(l) ==
    LET types == {x \in DOMAIN TypePrefix : TypePrefix[x] = l.prefix}
        type  == CHOOSE x \in types : TRUE
        name  == IF l.text # <<>> /\ l.text[1] = Quote THEN ReadEscaped(l.text, 2, <<>>) ELSE Fail
        rest  == SubSeq(l.text, name.next + 1, Len(l.text))
        val   == ParseValue(type, rest)
    IN IF types = {} \/ ~name.ok \/ name.next > Len(l.text) \/ l.text[name.next] # Eq
       THEN [ok |-> FALSE, name |-> <<>>, value |-> <<>>]
       ELSE [ok |-> val.ok, name |-> name.val, value |-> [type |-> type, data |-> val.val]]

\* The entries a load applies, in file order: a file whose first line is
\* not the header loads nothing.
Load(lines) ==
    IF lines = <<>> \/ lines[1] # Header THEN <<>>
    ELSE LET parsed == [i \in 1..Len(lines) - 1 |-> ParseLine(lines[i + 1])]
         IN SelectSeq(parsed, LAMBDA p : p.ok /\ p.name # <<>>)

=============================================================================
