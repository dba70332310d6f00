--------------------------- MODULE MCXSDContent ---------------------------
(* Schemas of two complex types over three names, one of them prefixed,    *)
(* and every document of at most five elements.                            *)
EXTENDS XSDContent, TLC

NameSet == {"r", "p:r", "a", "b"}
Local == [n \in NameSet |-> IF n = "p:r" THEN "r" ELSE n]
AcceptedTexts == [t \in {"word", "integer"} |-> IF t = "word" THEN {"x"} ELSE {"1", "20"}]
Lengths == [t \in {"x", "y", "1", "20"} |-> IF t = "20" THEN 2 ELSE 1]
Numbers == [t \in {"x", "y", "1", "20"} |-> IF t = "1" THEN 1 ELSE IF t = "20" THEN 20 ELSE NaN]

Particle(name, min, max, type) == [name |-> name, min |-> min, max |-> max, type |-> type]
Attribute(use, fixed, type) == [name |-> "k", use |-> use, fixed |-> fixed, type |-> type]
Type(compositor, particles, attributes) ==
  [compositor |-> compositor, particles |-> particles, attributes |-> attributes,
   anyAttribute |-> FALSE]
Open == [Type("none", <<>>, <<>>) EXCEPT !.anyAttribute = TRUE]

(* The type of the root has particles for a and b, the elements a may have *)
(* the same type again, so that trees of any depth are valid.              *)
Outer(c, m, n, type) ==
  Type(c, <<Particle("a", m[1], m[2], type), Particle("b", n[1], n[2], "word")>>, <<>>)
Bounds == {<<Omitted, Omitted>>, <<0, Unbounded>>, <<1, 2>>}
InnerTypes == { Type("none", <<>>, <<Attribute("required", NoText, "word")>>),
                Type("none", <<>>, <<Attribute("prohibited", NoText, NoType)>>),
                Type("choice", <<Particle("b", 1, 1, NoType)>>, <<Attribute("optional", "x", NoType)>>),
                Open }
Root(type, fixed) == [name |-> "r", type |-> type, fixed |-> fixed]
Schema(outer, inner, root) ==
  [types |-> ("Outer" :> outer @@ "Inner" :> inner), simpleTypes |-> <<>>, elements |-> <<root>>]

Simple(base, restrictions) == [base |-> base, restrictions |-> restrictions]
Facet(facet, value) == [facet |-> facet, value |-> value]
SimpleSchema(simpleTypes) ==
  [types |-> ("Outer" :> Outer("sequence", <<Omitted, Omitted>>, <<0, 1>>, "Short")),
   simpleTypes |-> simpleTypes, elements |-> <<Root("Outer", NoText)>>]
Restrictions ==
  {<<>>} \cup {<<Facet(f, n)>> : f \in LengthFacets, n \in 1..2}
  \cup {<<Facet(f, n), Facet("maxLength", 2)>> : f \in NumericFacets, n \in {1, 5, 20}}
  \cup {<<Facet("enumeration", "1"), Facet("enumeration", t)>> : t \in {"x", "20"}}
  \cup {<<Facet("pattern", {"1", "y"}), Facet("enumeration", t)>> : t \in {"1", "x"}}

(* A choice takes a branch at least once: its bounds begin at 1.           *)
Contents == {Outer(c, m, n, t) : c \in {"sequence", "all"}, m \in Bounds, n \in Bounds, t \in {"Outer", "Inner"}}
            \cup {Outer("choice", m, n, "Inner") : m \in Bounds \ {<<0, Unbounded>>}, n \in {<<1, 1>>, <<1, Unbounded>>}}
SmallSchemas ==
  {Schema(o, i, Root("Outer", NoText)) : o \in Contents, i \in InnerTypes}
  \cup {Schema(Outer("all", <<1, 1>>, <<1, 1>>, "Inner"), Open, Root(t, f)) :
          t \in {"word", "Missing", NoType}, f \in {NoText, "x"}}
  \cup {SimpleSchema("Short" :> Simple(b, rs)) : b \in {"word", "integer", "string"}, rs \in Restrictions}
(* A type whose base is no builtin type: only its own facets count.        *)
Derived == {SimpleSchema("Short" :> Simple("Base", <<Facet("maxLength", 1)>>)
                         @@ "Base" :> Simple("integer", <<Facet("minInclusive", 5)>>))}
(* maxOccurs="0", which is read as unbounded.                              *)
Never == {Schema(Outer("sequence", <<0, 0>>, <<0, 1>>, NoType), Open, Root("Outer", NoText))}
(* A name in two particles, and a choice with a branch that may be empty.  *)
Repeated == {Schema(Type("sequence", <<Particle("a", 1, 1, NoType), Particle("b", 1, 1, NoType),
                                       Particle("a", 1, 1, NoType)>>, <<>>), Open, Root("Outer", NoText))}
EmptyBranch == {Schema(Outer("choice", <<0, 1>>, <<1, 1>>, NoType), Open, Root("Outer", NoText))}
OneSequence == {Schema(Outer("sequence", <<1, 1>>, <<1, 1>>, NoType), Open, Root("Outer", NoText))}

Node(name, parent, text, k) ==
  [name |-> name, parent |-> parent, text |-> text, attributes |-> [a \in {"k"} |-> k]]
Parents(n) ==
  {f \in [1..n -> 0..(n - 1)] :
     \A i \in 1..n : /\ f[i] < i /\ (f[i] = 0 <=> i = 1)
                     /\ \A j \in (f[i] + 1)..(i - 1) : f[j] >= f[i]}
Trees(n, roots, names, contents) ==
  {[i \in 1..n |-> Node(IF i = 1 THEN r ELSE f[i], p[i], v[1], IF i = 1 THEN NoText ELSE v[2])] :
     r \in roots, f \in [1..n -> names], p \in Parents(n), v \in contents}
SmallTrees ==
  UNION {Trees(n, {"r"}, {"a", "b"}, {<<"x", "x">>, <<"x", NoText>>}) : n \in 1..5}
  \cup Trees(2, {"r", "p:r", "a"}, {"a", "b"}, {<<"x", "x">>, <<"y", NoText>>, <<"x", "y">>})
  \cup Trees(2, {"r"}, {"a"}, {<<"1", NoText>>, <<"20", NoText>>})
=============================================================================
