-------------------------- MODULE MCDTDValidation --------------------------
(* Small instances of DTDValidation: documents of two elements, values of  *)
(* at most two words, one of which ("$") has characters no name has.       *)
EXTENDS DTDValidation

Words == {"x", "y", "$"}
Names == {"x", "y"}
OneOrTwoWords == {<<>>, <<"x">>, <<"y">>, <<"x", "$">>}

Attr(name, type, use, value, enumeration) ==
  [name |-> name, type |-> type, use |-> use, value |-> value, enumeration |-> enumeration]

ForB(declarations) == {"b"} \X declarations
None(type, use) == Attr("p", type, use, <<>>, <<>>)
Ref(type, use, value) == Attr("q", type, use, value, <<>>)

(* Identifiers and references, alone or in lists, present or not; values   *)
(* with defaults, out of a list, and names that something declares; four   *)
(* declarations that the parse of the DTD refuses.                          *)
Mixed == ForB({None("id", "required"), None("id", "implied"), Attr("p", "id", "fixed", <<"x">>, <<>>),
               Attr("p", "entity", "fixed", <<"x">>, <<>>),
               Ref("idref", "implied", <<>>), Ref("idrefs", "required", <<>>),
               Attr("q", "enumeration", "normal", <<"x">>, <<"x", "y">>),
               Attr("q", "enumeration", "normal", <<"x", "$">>, <<"x", "y">>),
               Attr("q", "enumeration", "normal", <<"x">>, <<"x", "x">>),
               Ref("nmtokens", "required", <<>>),
               Attr("q", "notation", "implied", <<>>, <<"y">>)})

OneID == ForB({None("id", "required")})
OneReference == ForB({None("id", "required"), Ref("idref", "implied", <<>>)})
OneOptional == ForB({None("cdata", "implied")})

El(name, kind, parent, text) ==
  [name |-> name, kind |-> kind, parent |-> parent, text |-> text]
Root == El("a", "root", 0, "space")
Three == { <<Root, El("b", "element", 1, "characters"), El("b", "self", 1, "none")>> }
Odd == { <<El("b", "root", 0, "none")>>, <<El("b", "self", 0, "none")>> }
Pair == { <<Root, El("b", "element", 1, "characters")>> }
EmptyRoots == { <<El(n, "self", 0, "none")>> : n \in {"a", "b"} }

(* A <c> with up to two elements in it and text before them. *)
Child(name) == El(name, "element", 2, "none")
Contained ==
  {<<Root, El("c", "element", 1, text)>> : text \in {"none", "space", "characters"}}
  \cup {<<Root, El("c", "element", 1, text), Child("a")>> : text \in {"space", "characters"}}
  \cup {<<Root, El("c", "element", 1, "none"), Child(n), Child(m)>> : n, m \in {"a", "d"}}
  \cup {<<Root, El("c", "self", 1, "none")>>}
Mixture == Three \cup Odd \cup Contained

(* Nested groups, repetition, mixed content, and what the parser refuses:  *)
(* a separator with nothing after it, a group of two kinds.                *)
AnyContent == {"a", "b"} \X {<<"ANY">>}
Specifications == AnyContent \cup {<<"d", <<"ANY">>>>} \cup
  ({"c"} \X
  {<<"EMPTY">>, <<"(", "#PCDATA", ")">>, <<"(", "#PCDATA", "|", "a", ")", "*">>,
   <<"(", "a", "+", ")">>, <<"(", "a", "|", "d", ")">>,
   <<"(", "d", "?", ",", "(", "a", "|", "d", ")", ")">>,
   <<"(", "(", "a", ",", "d", ")", "*", ")">>,
   <<"(", "a", ",", ")">>, <<"(", "(", "a", ",", "d", ")", "|", "d", ")">>})

(* The parser reads every specification of the instance as it is meant.    *)
ASSUME ParserFollowsSpecifications == SpecificationsDenoted

(* Text and an empty element where the specification says (#PCDATA).       *)
Interspersed == { <<Root, El("c", "element", 1, "characters"), El("d", "self", 2, "none")>> }
=============================================================================
