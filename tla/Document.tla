------------------------------ MODULE Document ------------------------------
(***************************************************************************)
(* XML objects and the parser they share.                                  *)
(*                                                                         *)
(* Every XML object owns its tree, its entity mapper and its parser, but   *)
(* Default_Parser keeps the validator, the root flag, the two depth        *)
(* counters and the limits in `inline static' members: there is one of     *)
(* each in the process.  A parse is a recursive descent, modelled as a     *)
(* stack of parse calls; a call that is not the top of the stack waits in  *)
(* an IEntityResolver callback for the parse above it.  The text is not    *)
(* modelled: any construct that the grammar allows next may come next, so  *)
(* a behaviour stands for every document with these constructs.            *)
(***************************************************************************)
EXTENDS Integers, Sequences, FiniteSets

CONSTANTS
  Docs,           \* the client's XML objects
  Schema,         \* the XML object validate(xsd) creates for the schema text
  Dtds,           \* identities of DTD nodes (bounds how many exist at once)
  NoDtd,          \* no DTD node, a null validator
  NoTree,         \* an XML object that has not parsed anything
  Options,        \* the ParseOptions in use: records [nesting, expansion]
  DefaultOptions, \* the ParseOptions of parse(source)
  Word,           \* size_t counts modulo Word
  MaxOpen,        \* bounds how deep the text of one parse nests
  Rejected,       \* objects whose text may be malformed or over its limits
  Resolvers,      \* objects whose IEntityResolver uses other XML objects
  Validated       \* objects the client validates against an XSD schema

ASSUME ConstantsAssumption ==
  /\ Schema \notin Docs /\ NoDtd \notin Dtds
  /\ Word \in Nat \ {0} /\ MaxOpen \in Nat
  /\ Options \subseteq [nesting : 0 .. Word - 1, expansion : 0 .. Word - 1]
  /\ DefaultOptions \in Options
  /\ Rejected \subseteq Docs \cup {Schema}
  /\ Resolvers \subseteq Docs
  /\ Validated \subseteq Docs
  /\ NoTree \notin [dtds : SUBSET Dtds, roots : Nat]

VARIABLES
  tree,                 \* XML_Impl::xmlRoot of each object
  mapper,               \* the DTD whose entities are in each object's mapper
  validator,            \* Default_Parser::validator: the DTD it refers to
  hasRoot,              \* Default_Parser::hasRoot
  elementNestingDepth,  \* Default_Parser::elementNestingDepth
  entityExpansionDepth, \* Default_Parser::entityExpansionDepth
  limits,               \* the static copies of the limits of ParseOptions
  calls                 \* the parse calls in progress, the innermost last

vars == <<tree, mapper, validator, hasRoot, elementNestingDepth,
          entityExpansionDepth, limits, calls>>

-----------------------------------------------------------------------------
(* What the recursion of one parse is inside of: an element, an entity     *)
(* whose text goes to an EntityReference node, or one whose text starts    *)
(* with "<" and goes to the element the reference stands in.               *)
Construct == {"element", "entity", "inline"}

Tree == [dtds : SUBSET Dtds, roots : 0 .. 2]

Call == [doc : Docs \cup {Schema}, opts : Options,
         stage : {"prolog", "dtd", "body", "epilog"},
         open : Seq(Construct), dtds : SUBSET Dtds, roots : 0 .. 2]

Increment(n) == IF n = Word - 1 THEN 0 ELSE n + 1
Decrement(n) == IF n = 0 THEN Word - 1 ELSE n - 1

Top == calls[Len(calls)]
Below == SubSeq(calls, 1, Len(calls) - 1)
Replace(call) == [calls EXCEPT ![Len(calls)] = call]

Innermost(open) == open[Len(open)]
Leave(open) == SubSeq(open, 1, Len(open) - 1)
Count(open, kinds) == Cardinality({i \in DOMAIN open : open[i] \in kinds})

(* The node that the current construct adds its children to is an element. *)
InElement(open) ==
  \E i \in DOMAIN open : /\ open[i] = "element"
                         /\ \A j \in i + 1 .. Len(open) : open[j] = "inline"

MoreRoots(n) == IF n < 2 THEN n + 1 ELSE n

InUse(dtd) == \/ \E d \in Docs : tree[d] # NoTree /\ dtd \in tree[d].dtds
              \/ \E i \in DOMAIN calls : dtd \in calls[i].dtds

At(stage) == calls # <<>> /\ Top.stage = stage

(* The client runs between parses, and inside the callbacks of a parse:    *)
(* for a reference, in an attribute value or an element, to an external    *)
(* entity that the DTD has declared.  A callback for a reference in the    *)
(* DTD itself must not parse: that would destroy the validator that is     *)
(* reading the DTD, and the behaviour is undefined from there on.          *)
ClientRuns ==
  calls # <<>> => /\ Top.doc \in Resolvers
                  /\ Top.stage \in {"prolog", "body"}
                  /\ Top.dtds # {}
Busy(d) == \E i \in DOMAIN calls : calls[i].doc = d

-----------------------------------------------------------------------------
Init ==
  /\ tree = [d \in Docs |-> NoTree]
  /\ mapper = [d \in Docs |-> NoDtd]
  /\ validator = NoDtd
  /\ hasRoot = FALSE
  /\ elementNestingDepth = 0
  /\ entityExpansionDepth = 0
  /\ limits = DefaultOptions
  /\ calls = <<>>

(* The head of Default_Parser::parse: the static state is set up again.    *)
(* The variants named ...Mixed, ...Keeps..., Any... and ...Drops... in this *)
(* module are the faults that the properties must notice; nothing uses     *)
(* them.                                                                   *)
SetLimitsMixed(options) == limits' = [options EXCEPT !.expansion = options.nesting]
SetLimits(options) == limits' = options

ClearCountersKeepsNesting ==
  entityExpansionDepth' = 0 /\ hasRoot' = FALSE /\ UNCHANGED elementNestingDepth
ClearCountersKeepsRoot ==
  elementNestingDepth' = 0 /\ entityExpansionDepth' = 0 /\ UNCHANGED hasRoot
ClearCounters ==
  /\ elementNestingDepth' = 0
  /\ entityExpansionDepth' = 0
  /\ hasRoot' = FALSE

DropDtdKeepsMapper(d) == validator' = NoDtd /\ UNCHANGED mapper
DropDtdKeepsValidator(d) == mapper' = [mapper EXCEPT ![d] = NoDtd] /\ UNCHANGED validator
DropDtd(d) ==
  /\ validator' = NoDtd
  /\ mapper' = [x \in Docs |-> IF x = d THEN NoDtd ELSE mapper[x]]

BeginParse(d, options) ==
  /\ calls' = Append(calls, [doc |-> d, opts |-> options, stage |-> "prolog",
                             open |-> <<>>, dtds |-> {}, roots |-> 0])
  /\ SetLimits(options)
  /\ ClearCounters
  /\ DropDtd(d)
  /\ UNCHANGED tree

Parse(d, options) ==
  /\ ClientRuns
  /\ ~Busy(d)
  /\ BeginParse(d, options)

(* XML::validate(xsd): the schema text is parsed by a second XML object.   *)
ValidateXsd(d) ==
  /\ ClientRuns
  /\ ~Busy(d)
  /\ tree[d] # NoTree
  /\ BeginParse(Schema, DefaultOptions)

(* parseDTD: a second DOCTYPE is an error; the validator refers to the DTD *)
(* node from before its text is read.                                      *)
AnyDoctype == TRUE
FirstDoctype == validator = NoDtd

Doctype(dtd) ==
  /\ At("prolog")
  /\ FirstDoctype
  /\ ~InUse(dtd) /\ dtd # validator
  /\ calls' = Replace([Top EXCEPT !.stage = "dtd", !.dtds = @ \cup {dtd}])
  /\ validator' = dtd
  /\ mapper' = [x \in Docs |-> IF x = Top.doc THEN dtd ELSE mapper[x]]
  /\ UNCHANGED <<tree, hasRoot, elementNestingDepth, entityExpansionDepth, limits>>

DoctypeEnd ==
  /\ At("dtd")
  /\ calls' = Replace([Top EXCEPT !.stage = "prolog"])
  /\ UNCHANGED <<tree, mapper, validator, hasRoot, elementNestingDepth,
                 entityExpansionDepth, limits>>

(* A start tag may come: at the end of the prolog, or in an element. In an *)
(* EntityReference node NRef<Element> throws, see Malformed. The text of   *)
(* an object that is not in Rejected stays within the limits it was given. *)
TagComes ==
  /\ At("prolog") \/ (At("body") /\ InElement(Top.open))
  /\ Len(Top.open) < MaxOpen
  /\ Top.doc \notin Rejected => Count(Top.open, {"element"}) < Top.opts.nesting

(* parseElement, a normal start tag: the first one makes the Root node.    *)
StartTag ==
  /\ TagComes
  /\ elementNestingDepth < limits.nesting
  /\ hasRoot' = TRUE
  /\ calls' = Replace([Top EXCEPT !.stage = "body",
                                  !.open = Append(@, "element"),
                                  !.roots = IF hasRoot THEN @ ELSE MoreRoots(@)])
  /\ elementNestingDepth' = Increment(elementNestingDepth)
  /\ UNCHANGED <<tree, mapper, validator, entityExpansionDepth, limits>>

(* parseElement, an empty-element tag in place of the root: a Self node.   *)
EmptyRootTag ==
  /\ At("prolog")
  /\ calls' = Replace([Top EXCEPT !.stage = "epilog", !.roots = MoreRoots(@)])
  /\ UNCHANGED <<tree, mapper, validator, hasRoot, elementNestingDepth,
                 entityExpansionDepth, limits>>

EndTag ==
  /\ At("body")
  /\ Innermost(Top.open) = "element"
  /\ elementNestingDepth' = Decrement(elementNestingDepth)
  /\ calls' = Replace([Top EXCEPT !.open = Leave(@),
                                  !.stage = IF Len(Top.open) = 1 THEN "epilog"
                                                                 ELSE "body"])
  /\ UNCHANGED <<tree, mapper, validator, hasRoot, entityExpansionDepth, limits>>

ReferenceComes ==
  /\ At("body")
  /\ Len(Top.open) < MaxOpen
  /\ Top.doc \notin Rejected =>
       Count(Top.open, {"entity", "inline"}) < Top.opts.expansion

(* appendEntityOrContent: the replacement text is parsed on its own.       *)
EntityReference(kind) ==
  /\ ReferenceComes
  /\ entityExpansionDepth < limits.expansion
  /\ entityExpansionDepth' = Increment(entityExpansionDepth)
  /\ calls' = Replace([Top EXCEPT !.open = Append(@, kind)])
  /\ UNCHANGED <<tree, mapper, validator, hasRoot, elementNestingDepth, limits>>

EntityEnd ==
  /\ At("body")
  /\ Innermost(Top.open) \in {"entity", "inline"}
  /\ entityExpansionDepth' = Decrement(entityExpansionDepth)
  /\ calls' = Replace([Top EXCEPT !.open = Leave(@)])
  /\ UNCHANGED <<tree, mapper, validator, hasRoot, elementNestingDepth, limits>>

(* The end of the text after the epilog: XML_Impl::parse takes the tree.   *)
(* The tree of the schema object goes with that object.                    *)
EndParse ==
  /\ At("epilog")
  /\ tree' = [x \in Docs |-> IF x = Top.doc
                               THEN [dtds |-> Top.dtds, roots |-> Top.roots]
                               ELSE tree[x]]
  /\ calls' = Below
  /\ UNCHANGED <<mapper, validator, hasRoot, elementNestingDepth,
                 entityExpansionDepth, limits>>

-----------------------------------------------------------------------------
(* An exception leaves the innermost parse: its part of a tree is          *)
(* destroyed, the static members keep whatever value they have.            *)
UnwindDropsTree ==
  /\ calls' = Below
  /\ tree' = [d \in Docs |-> IF d = Top.doc THEN NoTree ELSE tree[d]]
  /\ UNCHANGED <<mapper, validator, limits>>
Unwind == calls' = Below /\ UNCHANGED <<tree, mapper, validator, limits>>

(* Any syntax error, and an exception out of a callback.                   *)
Malformed ==
  /\ calls # <<>>
  /\ Top.doc \in Rejected \cup Resolvers
  /\ Unwind
  /\ UNCHANGED <<hasRoot, elementNestingDepth, entityExpansionDepth>>

(* The end tag has another name, or is missing: the depth is counted first. *)
WrongEndTag ==
  /\ At("body")
  /\ Top.doc \in Rejected
  /\ Innermost(Top.open) = "element"
  /\ Unwind
  /\ elementNestingDepth' = Decrement(elementNestingDepth)
  /\ UNCHANGED <<hasRoot, entityExpansionDepth>>

SecondDoctype ==
  /\ At("prolog")
  /\ Top.doc \in Rejected
  /\ ~FirstDoctype
  /\ Unwind
  /\ UNCHANGED <<hasRoot, elementNestingDepth, entityExpansionDepth>>

(* The node is made, and hasRoot set, before the limit is looked at.       *)
TooDeep ==
  /\ TagComes
  /\ elementNestingDepth >= limits.nesting
  /\ hasRoot' = TRUE
  /\ Unwind
  /\ UNCHANGED <<elementNestingDepth, entityExpansionDepth>>

TooManyExpansions ==
  /\ ReferenceComes
  /\ entityExpansionDepth >= limits.expansion
  /\ Unwind
  /\ UNCHANGED <<hasRoot, elementNestingDepth, entityExpansionDepth>>

(* The client destroys an XML object (a new one is like one without tree). *)
Destroy(d) ==
  /\ ClientRuns
  /\ ~Busy(d)
  /\ tree[d] # NoTree
  /\ tree' = [tree EXCEPT ![d] = NoTree]
  /\ mapper' = [mapper EXCEPT ![d] = NoDtd]
  /\ UNCHANGED <<validator, hasRoot, elementNestingDepth, entityExpansionDepth,
                 limits, calls>>

-----------------------------------------------------------------------------
Next ==
  \/ \E d \in Docs, options \in Options : Parse(d, options)
  \/ \E d \in Validated : ValidateXsd(d)
  \/ \E d \in Docs : Destroy(d)
  \/ \E dtd \in Dtds : Doctype(dtd)
  \/ DoctypeEnd
  \/ StartTag
  \/ EmptyRootTag
  \/ EndTag
  \/ \E kind \in {"entity", "inline"} : EntityReference(kind)
  \/ EntityEnd
  \/ EndParse
  \/ Malformed
  \/ WrongEndTag
  \/ SecondDoctype
  \/ TooDeep
  \/ TooManyExpansions

Spec == Init /\ [][Next]_vars

-----------------------------------------------------------------------------
(* Every variable has the type its C++ declaration gives it.               *)
TypeOK ==
  /\ tree \in [Docs -> Tree \cup {NoTree}]
  /\ mapper \in [Docs -> Dtds \cup {NoDtd}]
  /\ validator \in Dtds \cup {NoDtd}
  /\ hasRoot \in BOOLEAN
  /\ elementNestingDepth \in 0 .. Word - 1
  /\ entityExpansionDepth \in 0 .. Word - 1
  /\ limits \in Options
  /\ calls \in Seq(Call)

(* The static counters of Default_Parser are the nesting of the parse that *)
(* runs: elements and entity expansions are counted on every path in and   *)
(* out (parseElement, both exits of appendEntityOrContent), nothing left   *)
(* by an earlier parse that threw is counted, and what is open never       *)
(* exceeds the limits this parse was given.                                *)
CountersMatchNesting ==
  calls # <<>> =>
    /\ limits = Top.opts
    /\ elementNestingDepth = Count(Top.open, {"element"})
    /\ entityExpansionDepth = Count(Top.open, {"entity", "inline"})
    /\ elementNestingDepth <= Top.opts.nesting
    /\ entityExpansionDepth <= Top.opts.expansion

(* The limit that a parse was given bounds how deep its elements nest.     *)
NestingWithinLimit ==
  calls # <<>> => Count(Top.open, {"element"}) <= Top.opts.nesting

(* A document has exactly one root node (Root or Self), which              *)
(* XML_Impl::root() finds, and at most one DTD node.                       *)
OneRoot ==
  \A d \in Docs : tree[d] # NoTree =>
    /\ tree[d].roots = 1
    /\ Cardinality(tree[d].dtds) <= 1

(* When a parse has succeeded, the validator and the entity mapper hold    *)
(* the DTD of that document, and none if it has none: nothing of an        *)
(* earlier document, of a parse that threw, or of a schema is left in      *)
(* place.                                                                  *)
ParseBindsValidator ==
  [][\A d \in Docs : EndParse /\ Top.doc = d =>
        {validator', mapper'[d]} \ {NoDtd} = tree'[d].dtds]_vars

(* validate() decides against the DTD embedded in the document, and dtd()  *)
(* returns it, as long as the document has one: whatever else the client   *)
(* has done with this or another XML object in between.                    *)
EmbeddedDtdDecides ==
  calls = <<>> =>
    \A d \in Docs : tree[d] # NoTree => tree[d].dtds \subseteq {validator}

(* validate() on an object with a document never reads a DTD node that has *)
(* been destroyed: XML_Impl::validate asks only for a tree, and            *)
(* Default_Parser::validate only for a validator.                          *)
ValidateReadsLiveDtd ==
  calls = <<>> /\ validator # NoDtd /\ (\E d \in Docs : tree[d] # NoTree) =>
    InUse(validator)

(* A parse that throws, at any depth of callbacks, leaves the document of  *)
(* every object as it was: trees change when a parse succeeds or an object *)
(* is destroyed.                                                           *)
FailedParseKeepsTree ==
  [][\A d \in Docs : tree'[d] # tree[d] =>
        \/ At("epilog") /\ Top.doc = d /\ Top.open = <<>>
        \/ calls' = calls]_vars

=============================================================================
