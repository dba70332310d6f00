----------------------------- MODULE XPathLexer -----------------------------
(***************************************************************************)
(* xpathTokenize: the text of an XPath expression is cut into tokens from  *)
(* left to right, one token a step.  A text is a sequence of atoms: a run  *)
(* of letters or of digits is one atom ("and"), every other character is   *)
(* one of its own.                                                         *)
(***************************************************************************)
EXTENDS Naturals, SequencesExt

CONSTANTS
  Letters, \* atoms that are a run of name characters, the first a letter
  Digits,  \* atoms that are a run of digits
  Texts    \* the expressions

Space == " "
Quotes == {"'", "\""}
Pairs == {"//", "..", "!=", "<=", ">=", "::"}
Singles == {"/", ".", "@", "[", "]", "(", ")", ",", "|", "+", "-", "=", "<", ">", "*"}
NameChars == Letters \cup Digits \cup {"-", "."}

ASSUME AtomsAreDistinct ==
  /\ Letters \cap Digits = {}
  /\ (Letters \cup Digits) \cap (Singles \cup Pairs \cup Quotes \cup {Space, ":", "!"}) = {}

VARIABLES
  text,   \* the expression
  at,     \* the atom that is read next
  tokens, \* the tokens found so far: records [type, value]
  status  \* "lexing", "parsing", "parsed", "rejected"

lexing == <<text, at, tokens, status>>

Concat(atoms) == FoldLeft(LAMBDA s, c : s \o c, "", atoms)
Slice(from, to) == Concat(SubSeq(text, from, to))

Token(type, value) == [type |-> type, value |-> value]
Symbol(s) == Token(s, s)
Name(s) == Token("name", s)
End == Token("end", "")

(* The first atom from i on that is not in S, or the end of the text.      *)
EndOf(S, i) ==
  CHOOSE k \in i..(Len(text) + 1) :
    /\ k = Len(text) + 1 \/ text[k] \notin S
    /\ \A j \in i..(k - 1) : text[j] \in S

(* A name takes one colon, and gives it back when nothing follows it.      *)
NameEndKeepsColon(i) ==
  LET colon == EndOf(NameChars, i)
  IN IF colon <= Len(text) /\ text[colon] = ":" THEN EndOf(NameChars, colon + 1) ELSE colon
NameEnd(i) ==
  LET colon == EndOf(NameChars, i)
      after == EndOf(NameChars, colon + 1)
  IN IF colon <= Len(text) /\ text[colon] = ":" /\ after > colon + 1 THEN after ELSE colon

NumberEnd(i) ==
  LET point == EndOf(Digits, i)
  IN IF point <= Len(text) /\ text[point] = "." THEN EndOf(Digits, point + 1) ELSE point

StringEnd(i) == {k \in (i + 1)..Len(text) : text[k] = text[i] /\ \A j \in (i + 1)..(k - 1) : text[j] # text[i]}

PairAt(i) == i < Len(text) /\ text[i] \o text[i + 1] \in Pairs

(* A token is added, and the text goes on at the atom after it.            *)
Found(token, next) ==
  /\ tokens' = Append(tokens, token) /\ at' = next
  /\ UNCHANGED <<text, status>>

Lexes == status = "lexing" /\ at <= Len(text)

SkipSpace == Lexes /\ text[at] = Space /\ at' = at + 1 /\ UNCHANGED <<text, tokens, status>>

LexPair == Lexes /\ PairAt(at) /\ Found(Symbol(Slice(at, at + 1)), at + 2)
LexSingle == Lexes /\ ~PairAt(at) /\ text[at] \in Singles /\ Found(Symbol(text[at]), at + 1)

LexString ==
  /\ Lexes /\ text[at] \in Quotes
  /\ \E close \in StringEnd(at) : Found(Token("string", Slice(at + 1, close - 1)), close + 1)

LexNumber ==
  Lexes /\ text[at] \in Digits /\ Found(Token("number", Slice(at, NumberEnd(at) - 1)), NumberEnd(at))

LexName ==
  Lexes /\ text[at] \in Letters /\ Found(Name(Slice(at, NameEnd(at) - 1)), NameEnd(at))

(* A literal that is not closed, or a character no token starts with.      *)
RejectText ==
  /\ Lexes /\ ~PairAt(at)
  /\ \/ text[at] \in Quotes /\ StringEnd(at) = {}
     \/ text[at] \notin Letters \cup Digits \cup Singles \cup Quotes \cup {Space}
  /\ status' = "rejected" /\ UNCHANGED <<text, at, tokens>>

EndText ==
  /\ status = "lexing" /\ at > Len(text)
  /\ tokens' = Append(tokens, End) /\ status' = "parsing"
  /\ UNCHANGED <<text, at>>

Tokenize ==
  \/ SkipSpace \/ LexPair \/ LexSingle \/ LexString \/ LexNumber \/ LexName
  \/ RejectText \/ EndText

-----------------------------------------------------------------------------
(* What XPath 1.0, section 3.7, calls an ExprToken, without variables and  *)
(* without numbers that start with a point, of which the lexer has none.   *)
IsNCName(s) == s # <<>> /\ s[1] \in Letters /\ ToSet(s) \subseteq NameChars
IsNumber(s) ==
  /\ s # <<>> /\ s[1] \in Digits /\ ToSet(s) \subseteq Digits \cup {"."}
  /\ \A i, j \in DOMAIN s : s[i] = "." /\ s[j] = "." => i = j
IsLiteral(s) ==
  /\ Len(s) > 1 /\ s[1] \in Quotes /\ s[Len(s)] = s[1]
  /\ \A i \in 2..(Len(s) - 1) : s[i] # s[1]
IsExprToken(s) ==
  \/ Len(s) <= 2 /\ Concat(s) \in Singles \cup Pairs
  \/ IsNumber(s) \/ IsLiteral(s) \/ IsNCName(s)
  \/ \E i \in DOMAIN s : /\ s[i] = ":" /\ IsNCName(SubSeq(s, 1, i - 1))
                         /\ IsNCName(SubSeq(s, i + 1, Len(s)))

(* Each token is the longest one that the text has at its place: "a-b" is  *)
(* one name and "a::b" three tokens.  Of a local part the lexer does not   *)
(* check the first character, which the property leaves out.               *)
PlainLocalPart(from, to) ==
  \A k \in (from + 1)..to : text[k - 1] = ":" => text[k] \in Letters \cup {":"}
LongestTokens ==
  [][Len(tokens') > Len(tokens) /\ at' > at /\ PlainLocalPart(at, at' - 1) =>
       /\ IsExprToken(SubSeq(text, at, at' - 1))
       /\ \A longer \in at'..Len(text) : ~IsExprToken(SubSeq(text, at, longer))]_lexing
=============================================================================
