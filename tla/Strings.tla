------------------------------- MODULE Strings -------------------------------
(* Strings and their methods.  The characters are those of ASCII, where a    *)
(* grapheme, a code point and a byte are the same; indices are those of the  *)
(* build with utf8proc.  Left out: the methods that take a pattern, encode.  *)
EXTENDS Values, SequencesExt

\* Without the backquote, which has no place in a string of TLA+.
Printable ==
  " !\"#$%&'()*+,-./0123456789:;<=>?@ABCDEFGHIJKLMNOPQRSTUVWXYZ[\\]^_abcdefghijklmnopqrstuvwxyz{|}~"

CharAt(s, i) == SubSeq(s, i, i)
Chars(s) == [i \in 1 .. Len(s) |-> CharAt(s, i)] \o <<>>
Glued(cs) == FoldLeft(LAMBDA acc, c : acc \o c, "", cs)
Each(s, F(_)) == Glued([i \in 1 .. Len(s) |-> F(CharAt(s, i))])

CharCode ==
  [c \in {CharAt(Printable, i) : i \in 1 .. Len(Printable)} \cup {"\t", "\n", "\r"} |->
     CASE c = "\t" -> 9 [] c = "\n" -> 10 [] c = "\r" -> 13
       [] OTHER -> LET i == CHOOSE j \in 1 .. Len(Printable) : CharAt(Printable, j) = c IN IF i < 65 THEN i + 31 ELSE i + 32]

IsUpper(c) == CharCode[c] \in 65 .. 90
IsLower(c) == CharCode[c] \in 97 .. 122
IsDigit(c) == CharCode[c] \in 48 .. 57
IsAlpha(c) == IsUpper(c) \/ IsLower(c)
Spaces == {" ", "\t", "\n", "\r"}

UpperChar(c) == IF IsLower(c) THEN CharAt(Printable, CharCode[c] - 63) ELSE c
LowerChar(c) == IF IsUpper(c) THEN CharAt(Printable, CharCode[c]) ELSE c
Upper(s) == Each(s, UpperChar)
Lower(s) == Each(s, LowerChar)

\* The first letter of each word is a capital.
Title(s) ==
  Glued([i \in 1 .. Len(s) |->
           IF i = 1 \/ CharAt(s, i - 1) \in Spaces THEN UpperChar(CharAt(s, i)) ELSE LowerChar(CharAt(s, i))])

\* std::string's order: by the first bytes that differ.
Precedes(s, t) ==
  \E i \in 0 .. Len(s) : /\ i < Len(t) /\ SubSeq(s, 1, i) = SubSeq(t, 1, i)
                         /\ i < Len(s) => CharCode[CharAt(s, i + 1)] < CharCode[CharAt(t, i + 1)]

Repeat(s, n) == FoldLeft(LAMBDA acc, t : acc \o t, "", [i \in 1 .. n |-> s])

-----------------------------------------------------------------------------
(* Searching and cutting. *)

Occurrences(s, t) == {i \in 1 .. (Len(s) - Len(t) + 1) : SubSeq(s, i, i + Len(t) - 1) = t}

\* What lies between the occurrences that a search from the left finds, none of which overlap.
RECURSIVE Pieces(_, _)
Pieces(s, sep) ==
  LET at == Occurrences(s, sep)
  IN IF at = {} THEN <<s>>
     ELSE <<SubSeq(s, 1, Min(at) - 1)>> \o Pieces(SubSeq(s, Min(at) + Len(sep), Len(s)), sep)

Replaced(s, from, to) ==
  LET pieces == Pieces(s, from)
  IN Glued([i \in DOMAIN pieces |-> IF i = 1 THEN pieces[i] ELSE to \o pieces[i]])

InkOf(s) == {i \in 1 .. Len(s) : CharAt(s, i) \notin Spaces}
TrimStart(s) == IF InkOf(s) = {} THEN "" ELSE SubSeq(s, Min(InkOf(s)), Len(s))
TrimEnd(s) == IF InkOf(s) = {} THEN "" ELSE SubSeq(s, 1, Max(InkOf(s)))

\* The bounds of a slice: counted from the end when negative, then cut to the length.
SliceStart(arg, len) == LET i == IF arg < 0 THEN arg + len ELSE arg IN IF i < 0 THEN 0 ELSE i
SliceEnd(args, len) ==
  IF Len(args) < 2 \/ ~Is("int", args[2]) THEN len
  ELSE LET i == IF args[2].int < 0 THEN args[2].int + len ELSE args[2].int IN IF i > len THEN len ELSE i

\* The first place of a substring, counted from 0, at or after a given one.
IndexOf(s, args) ==
  LET from == IF Len(args) < 2 \/ ~Is("int", args[2]) THEN 1 ELSE Position(args[2].int, Len(s))
      at == {i \in Occurrences(s, args[1].str) : i >= from}
  IN IF from = 0 \/ at = {} THEN -1 ELSE Min(at) - 1

\* n characters of the fill string, again and again; a space where it is none or empty.
Fill(args, n) ==
  LET pad == IF Len(args) > 1 /\ Is("str", args[2]) /\ args[2].str # "" THEN args[2].str ELSE " "
  IN IF n <= 0 THEN "" ELSE SubSeq(Repeat(pad, n), 1, n)

-----------------------------------------------------------------------------

StringArity ==
  [n \in {"upper", "lower", "strip", "title", "capitalize", "capitalizeFirst", "trimStart", "trimEnd", "reverse", "graphemes",
          "codepoints", "bytes", "isDigit", "isAlpha", "isAlnum", "isSpace", "isUpper", "isLower"} |-> 0]
  @@ [n \in {"split", "contains", "startsWith", "endsWith", "lastIndexOf", "repeat", "count"} |-> 1]
  @@ [n \in {"charCode", "slice", "indexOf", "padStart", "padEnd", "center"} |-> -1]
  @@ [replace |-> 2]

StringParams ==
  [replace |-> <<"pattern", "replacement">>, charCode |-> <<"index">>, slice |-> <<"start", "end">>,
   indexOf |-> <<"substring", "start">>, padStart |-> <<"width", "fillString">>, padEnd |-> <<"width", "fillString">>,
   center |-> <<"width", "fillString">>]

OfString == {"split", "contains", "startsWith", "endsWith", "lastIndexOf", "count", "replace", "indexOf"}
OfNumber == {"repeat", "slice", "padStart", "padEnd", "center"}

\* The test that every character of a string must pass; the empty string passes none.
IsAll(name, c) ==
  CASE name = "isDigit" -> IsDigit(c)
    [] name = "isAlpha" -> IsAlpha(c)
    [] name = "isAlnum" -> IsAlpha(c) \/ IsDigit(c)
    [] name = "isSpace" -> c \in Spaces
    [] name = "isUpper" -> ~IsLower(c)
    [] name = "isLower" -> ~IsUpper(c)
Tests == {"isDigit", "isAlpha", "isAlnum", "isSpace", "isUpper", "isLower"}

\* The methods whose result is a string.
Spelt(s, name, args) ==
  LET first == SubSeq(s, 1, IF s = "" THEN 0 ELSE 1)
      rest == SubSeq(s, 2, Len(s))
      need == args[1].int - Len(s)
      start == SliceStart(args[1].int, Len(s))
  IN CASE name = "upper" -> Upper(s)
       [] name = "lower" -> Lower(s)
       [] name = "title" -> Title(s)
       [] name = "capitalize" -> Upper(first) \o Lower(rest)
       [] name = "capitalizeFirst" -> Upper(first) \o rest
       [] name = "strip" -> TrimStart(TrimEnd(s))
       [] name = "trimStart" -> TrimStart(s)
       [] name = "trimEnd" -> TrimEnd(s)
       [] name = "reverse" -> Glued(Reverse(Chars(s)))
       [] name = "replace" -> Replaced(s, args[1].str, args[2].str)
       [] name = "slice" -> IF start >= SliceEnd(args, Len(s)) THEN "" ELSE SubSeq(s, start + 1, SliceEnd(args, Len(s)))
       [] name = "repeat" -> Repeat(s, args[1].int)
       [] name = "padStart" -> Fill(args, need) \o s
       [] name = "padEnd" -> s \o Fill(args, need)
       [] name = "center" -> Fill(args, need \div 2) \o s \o Fill(args, need - need \div 2)

\* Where charCode looks, 0 when that is out of bounds; an index that is no number counts as 0.
CodePlace(s, args) == Position(IF args = <<>> \/ ~Is("int", args[1]) THEN 0 ELSE args[1].int, Len(s))

Counted(s, name, args) ==
  LET at == Occurrences(s, args[1].str)
  IN CASE name = "indexOf" -> IndexOf(s, args)
       [] name = "lastIndexOf" -> IF at = {} THEN -1 ELSE Max(at) - 1
       [] name = "count" -> IF args[1].str = "" THEN 0 ELSE Len(Pieces(s, args[1].str)) - 1
       [] name = "charCode" -> CharCode[CharAt(s, CodePlace(s, args))]

Listed(s, name, args) ==
  CASE name = "graphemes" \/ (name = "split" /\ args[1].str = "") -> [i \in 1 .. Len(s) |-> Str(CharAt(s, i))]
    [] name = "split" -> [i \in DOMAIN Pieces(s, args[1].str) |-> Str(Pieces(s, args[1].str)[i])]
    [] name \in {"codepoints", "bytes"} -> [i \in 1 .. Len(s) |-> Num(CharCode[CharAt(s, i)])]

StringMember(h, s, name, args) ==
  LET arg == args[1].str IN
  CASE name \in OfString /\ (args = <<>> \/ ~Is("str", args[1])) -> Fail("string")
    [] name \in OfNumber /\ (args = <<>> \/ ~Is("int", args[1])) -> Fail("number")
    [] name = "replace" /\ (~Is("str", args[2]) \/ arg = "") -> Fail("string")
    [] name = "repeat" /\ args[1].int < 0 -> Fail("repeat")
    [] name = "charCode" /\ CodePlace(s, args) = 0 -> Fail("bounds")
    [] name \in Tests -> [h |-> h, v |-> Bool(s # "" /\ \A i \in 1 .. Len(s) : IsAll(name, CharAt(s, i)))]
    [] name = "contains" -> [h |-> h, v |-> Bool(Occurrences(s, arg) # {})]
    [] name = "startsWith" -> [h |-> h, v |-> Bool(1 \in Occurrences(s, arg))]
    [] name = "endsWith" -> [h |-> h, v |-> Bool(Len(s) - Len(arg) + 1 \in Occurrences(s, arg))]
    [] name \in {"indexOf", "lastIndexOf", "count", "charCode"} -> [h |-> h, v |-> Num(Counted(s, name, args))]
    [] name \in {"graphemes", "split", "codepoints", "bytes"} -> Alloc(h, ArrayObj(Listed(s, name, args) \o <<>>))
    [] OTHER -> [h |-> h, v |-> Str(Spelt(s, name, args))]
=============================================================================
