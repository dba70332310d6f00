--------------------------- MODULE ContentModel ----------------------------
(***************************************************************************)
(* Content specifications of <!ELEMENT ...> (DTD_Impl::parseElement,       *)
(* DTD_Validator_Impl_Parse_Content.cpp).  The code translates one into a  *)
(* regular expression over the tags of the children; here the expression   *)
(* is the set of the sequences of children it matches, up to a length.     *)
(*                                                                         *)
(* A specification is a sequence of tokens, white space left out, and what *)
(* an element contains is a sequence of names and "#PCDATA".               *)
(***************************************************************************)
EXTENDS Integers, Sequences, FiniteSets, FiniteSetsExt

CONSTANTS
  ElementNames,  \* names of elements
  MaxChildren    \* bound: the length of the sequences of children

ASSUME MaxChildrenIsNumber == MaxChildren \in Nat

Modifiers == {"*", "+", "?"}
Separators == {",", "|"}

Token(s, i) == IF i \in DOMAIN s THEN s[i] ELSE "end"

-----------------------------------------------------------------------------
(* What the parts of an expression match. *)

Then(L, M) == {w \in {l \o m : l \in L, m \in M} : Len(w) <= MaxChildren}
Either(L, M) == L \cup M
Joined(separator, L, M) == IF separator = "|" THEN Either(L, M) ELSE Then(L, M)

Repeated(modifier, L) ==
  LET power[n \in 0..MaxChildren] == IF n = 0 THEN {<<>>} ELSE Then(power[n - 1], L)
      AtLeast(n) == UNION {power[k] : k \in n..MaxChildren}
  IN CASE modifier = "*" -> AtLeast(0)
       [] modifier = "+" -> AtLeast(1)
       [] modifier = "?" -> {<<>>} \cup L
       [] OTHER          -> L

-----------------------------------------------------------------------------
(* The parser.  A part of the specification gives the sequences it matches *)
(* and the position after it, which is 0 after a SyntaxError.              *)

Failed == [language |-> {}, next |-> 0]
Part(L, next) == [language |-> L, next |-> next]

(* The first separator in the REST OF THE SPECIFICATION, whatever group it *)
(* stands in, decides what the group that begins at i is.                  *)
IsChoice(s, i) ==
  \E j \in i..Len(s) : s[j] = "|" /\ \A k \in i..j : s[k] # ","
Delimiter(s, i) == IF IsChoice(s, i) THEN "|" ELSE ","

WithModifier(s, part) ==
  IF part.next # 0 /\ Token(s, part.next) \in Modifiers
  THEN Part(Repeated(s[part.next], part.language), part.next + 1)
  ELSE part

(* list is what the parser makes of the particles after a "(". *)
Group(s, list) ==
  IF list.next # 0 /\ Token(s, list.next) = ")" THEN Part(list.language, list.next + 1)
                                                ELSE Failed

(* parse["", i]: the particle at i; parse[d, i]: the particles from i on,  *)
(* as far as the separator d goes between them.                            *)
Parse(s) ==
  LET Name(i) == Part({<<s[i]>>}, i + 1)
      parse[d \in {"", ",", "|"}, i \in 1..Len(s) + 1] ==
        CASE d = "" /\ Token(s, i) \in ElementNames -> WithModifier(s, Name(i))
          [] d = "" /\ Token(s, i) = "(" ->
               WithModifier(s, Group(s, parse[Delimiter(s, i), i + 1]))
          [] d = "" /\ Token(s, i) \notin ElementNames \cup {"("} -> Failed
          [] OTHER ->
               LET first == parse["", i]
               IN IF first.next = 0 \/ Token(s, first.next) # d THEN first
                  ELSE LET rest == parse[d, first.next + 1]
                       IN Part(Joined(d, first.language, rest.language), rest.next)
  IN parse["", 1]

(* Mixed content: #PCDATA first, then names; the star after the list may   *)
(* be missing.                                                             *)
MixedNames(s) == {s[i] : i \in {j \in DOMAIN s : s[j] \in ElementNames}}
IsMixedList(s) ==
  LET end == IF s[Len(s)] = "*" THEN Len(s) - 1 ELSE Len(s)
  IN /\ end >= 5 /\ end % 2 = 1 /\ s[end] = ")"
     /\ \A i \in 3..end - 1 : IF i % 2 = 1 THEN s[i] = "|" ELSE s[i] \in ElementNames
ParseMixed(s) ==
  CASE Token(s, 3) = ")" -> [form |-> "PCDATA", language |-> {}]
    [] Token(s, 3) = "|" /\ IsMixedList(s) ->
         [form |-> "regex",
          language |-> LET one == {<<n>> : n \in MixedNames(s) \cup {"#PCDATA"}}
                       IN IF s[Len(s)] = "*" THEN Repeated("*", one) ELSE one]
    [] OTHER -> [form |-> "error", language |-> {}]

(* What stands after the group and its modifier is never looked at. *)
ParseSpecification(s) ==
  CASE s = <<"EMPTY">> -> [form |-> "EMPTY", language |-> {}]
    [] s = <<"ANY">>   -> [form |-> "ANY", language |-> {}]
    [] Token(s, 1) = "(" /\ Token(s, 2) = "#PCDATA" -> ParseMixed(s)
    [] Token(s, 1) = "(" /\ Token(s, 2) # "#PCDATA" /\ Parse(s).next # 0 ->
         [form |-> "regex", language |-> Parse(s).language]
    [] OTHER -> [form |-> "error", language |-> {}]

-----------------------------------------------------------------------------
(* Reference: what a specification means, from the nesting of its          *)
(* parentheses alone.                                                      *)

Depth(s, i) ==
  Cardinality({j \in 1..i - 1 : s[j] = "("}) - Cardinality({j \in 1..i - 1 : s[j] = ")"})

Denoted(s) ==
  LET denotes[i \in DOMAIN s, j \in DOMAIN s] ==
        LET outer == {k \in i..j : s[k] \in Separators /\ Depth(s, k) = Depth(s, i)}
            k == Min(outer)
        IN CASE outer # {} -> Joined(s[k], denotes[i, k - 1], denotes[k + 1, j])
             [] outer = {} /\ s[j] \in Modifiers -> Repeated(s[j], denotes[i, j - 1])
             [] outer = {} /\ s[j] = ")" -> denotes[i + 1, j - 1]
             [] OTHER -> {<<s[i]>>}
  IN denotes[1, Len(s)]
=============================================================================
