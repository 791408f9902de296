-------------------------------- MODULE ByteText --------------------------------
(***************************************************************************)
(* Bytes that leave the program as text: what the renderings of paths, of   *)
(* diagnostics and of the manifest have in common.  A byte is a token.  The *)
(* only character that is not ASCII has four bytes, as many as one can      *)
(* have, and two of the printable ones are hexadecimal digits, so that text *)
(* can spell an escape.                                                     *)
(***************************************************************************)
EXTENDS Integers, Sequences, FiniteSets, FiniteSetsExt

LF == "\n"
CR == "\r"
Esc == "x1B"
Quote == "\""
Backslash == "\\"
Char == <<"xF0", "x9F", "x9A", "xA9">>
Continuation == {"x9F", "x9A", "xA9"}

Printable == {"A", "9", ".", Quote, Backslash}
Controls == {LF, CR, Esc}
Ascii == Printable \cup {"%"} \cup Controls
Bytes == Ascii \cup {Char[1]} \cup Continuation

\* The character stands whole at a position.
CharAt(s, j) == j >= 1 /\ j + 3 <= Len(s) /\ \A r \in 1..4 : s[j + r - 1] = Char[r]

\* The byte stands where UTF-8 has one of its kind.
WellPlaced(s, i) == s[i] \in Ascii \/ \E j \in (i - 3)..i : CharAt(s, j)

\* std::str::from_utf8
IsUtf8(s) == \A i \in DOMAIN s : WellPlaced(s, i)

\* Utf8Error::valid_up_to, and the whole length of valid text.
ValidUpTo(s) == Max({k \in 0..Len(s) : IsUtf8(SubSeq(s, 1, k))})

\* Two hexadecimal digits.
HexDigits(b) ==
  CASE b = "%"       -> <<"2", "5">>
    [] b = "/"       -> <<"2", "F">>
    [] b = "A"       -> <<"4", "1">>
    [] b = "9"       -> <<"3", "9">>
    [] b = "."       -> <<"2", "E">>
    [] b = Quote     -> <<"2", "2">>
    [] b = Backslash -> <<"5", "C">>
    [] b = LF        -> <<"0", "A">>
    [] b = CR        -> <<"0", "D">>
    [] b = Esc       -> <<"1", "B">>
    [] b = "xF0"     -> <<"F", "0">>
    [] b = "x9F"     -> <<"9", "F">>
    [] b = "x9A"     -> <<"9", "A">>
    [] b = "xA9"     -> <<"A", "9">>

\* The same in lower case.
LowerHexDigits(b) ==
  LET lower(d) == CASE d = "A" -> "a" [] d = "B" -> "b" [] d = "C" -> "c"
                    [] d = "D" -> "d" [] d = "E" -> "e" [] d = "F" -> "f" [] OTHER -> d
  IN [i \in 1..2 |-> lower(HexDigits(b)[i])]

\* push_byte_escape
Escape(b) == <<"%">> \o HexDigits(b)

===============================================================================
