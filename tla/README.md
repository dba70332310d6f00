# A verification project for XML_Lib

XML_Lib is a C++20 library that parses XML into a tree, expands entities,
validates a document against its DTD or an XSD schema, and selects nodes with
XPath. This directory holds TLA+ modules translated from its source, the TLC
configurations that check them on small instances, and proofs that TLAPS
checks. `PROJECT.json` lists the parts, the runs, the lines each definition
stands for, the hazards and the theorems.

    tlc -workers 2 -config MCDocument_shared.cfg MCDocument    # one run
    tlapm Document_proofs.tla                                  # the proofs

Paths below are relative to `classes/include/implementation` and
`classes/source/implementation`.

## The system

The library is a set of classes called by one client thread. Nothing runs
concurrently, but several objects share state and client code is called in the
middle of a parse, so calls interleave all the same.

| component | state | operations | what makes it correct |
|---|---|---|---|
| XML object (`XML_Impl`) | tree, entity mapper, parser | parse, validate, validate(xsd), dtd, traverse, stringify | a parse replaces the tree or leaves it; validate() is about the own DTD |
| parser (`parser/Default_Parser`) | **static**: validator, root flag, depth counters, limits | parse, validate | counters are the nesting of the running parse; one root per document |
| entity mapper (`entity/`) | table of entities, candidates of translate(), texts of files, policy, resolver | set..., map, translate, checkForRecursion, reset | caches agree with the table; no circular entity passes the DTD |
| DTD validator (`dtd/`) | elements and attributes of the DTD node; sets of ID and IDREF values | parse, validate | accepts exactly the valid documents, adds only defaults |
| XSD validator (`xsd/`) | types, particles, top-level elements | parse, validate | accepts only what the schema allows, rejects nothing it allows |
| DTD subsets (`dtd/DTD_Validator_Impl_Parse*`) | elements, attribute lists, parameter entities; the stack of texts being read | parseInternal, parseExternalContent, parseConditional | what is declared is what XML 1.0 finds in the two subsets; a legal DTD is read to its end |
| XPath lexer and parser (`xpath/XPath_Lexer`, `XPath_Parser`) | none | xpathTokenize, xpathParse | the tokens and trees of the XPath 1.0 grammar |
| XPath evaluator (`xpath/`) | none between calls: a tree and a stack of ancestors | evaluate, evaluateString/Bool/Number | the nodes and values that XPath 1.0 says, in document order |
| nodes (`node/`, `nodes/`) | children, attributes, white-space mark, contents cache | addChild, addAttribute, getContents, operator[] | the tree has the tags and the characters of the text in order; the cache is that of the children |
| arenas (`common/XML_Arena.hpp`) | **static** current arena, default resource | scopes | restored in reverse order |
| sources and destinations (`io/`) | text, position, line and column | next, backup, match, getRange | buffer and file agree |
| characters, names, references (`common/`) | none | read and test | conform to the XML productions |
| files, encodings, stringify | none | read, write, convert | round trips |

How they interact:

* `XML_Impl::parse` calls `Default_Parser::parse`, which resets the mapper and
  the static state, reads the prolog, makes the validator as soon as it meets
  `<!DOCTYPE`, lets it read the DTD (it fills the entity mapper), and then reads
  the elements. References in the text go through `IEntityMapper::map`, and the
  replacement text is parsed by a recursive call.
* For an external entity the mapper calls the client's `IEntityResolver`. The
  resolver may use any XML object, the parser of which shares the static state.
* `XML_Impl::validate()` asks the static validator; `validate(xsd)` parses the
  schema with a second XML object, builds `XSD_Impl` from its tree and throws
  both away.
* An exception unwinds a parse at any depth. The tree under construction goes,
  the static members keep their values.

What is hard here: the order of calls on several objects (static state),
re-entrance through the resolver, exceptions between two halves of a
bookkeeping step, caches and sets that survive a call, iteration over a table
that the loop changes, and walks over trees that must agree with a condition on
the whole tree. There are no threads, timeouts, retries or messages, and nothing
is persisted.

## The modules

**`Document`** (`XML_Impl`, `Default_Parser`). Variables are the trees of the XML
objects, their mappers, the static members under their C++ names, and `calls`,
the stack of parses in progress: all but the top one wait in a resolver
callback. One action for each construct the recursive descent meets (`Doctype`,
`StartTag`, `EmptyRootTag`, `EndTag`, `EntityReference`, `EntityEnd`,
`EndParse`), one for each way it throws (`Malformed`, `WrongEndTag`,
`SecondDoctype`, `TooDeep`, `TooManyExpansions`) and one for each call of the
client (`Parse`, `ValidateXsd`, `Destroy`). The text is not modelled: what the
grammar allows next may come next, so a behaviour stands for every document
with these constructs. `size_t` counts modulo `Word`.

**`Entities`** (`checkForRecursion`, `appendEntityOrContent`). The declarations
of a DTD, the check for circular entities and the expansion in the body. A text
is a sequence of names and characters; recursion is a stack of texts still to
read. The check visits the table in any order, as an unordered map may; when it
inserts into a full table (`Capacity`) the rest of the iteration is arbitrary.

**`EntityTable`** and **`EntityMapper`**. `EntityTable` is what the interface
`IEntityMapper` promises: a table of declarations, and files read at most once.
`EntityMapper` has the map with its kinds of entries, the candidates of
`translate` with the type they were collected for, the cache of files and
a file system that changes. It implements `EntityTable` under the refinement
mapping at its end, where entries that only the recursion check made do not
count.

**`DTDValidation`** (`DTD_Impl`, its parse of `ELEMENT` and `ATTLIST` and its
`validate`). The walk is one action for each node and each attribute, so that a
failure leaves the document as far as the walk had come. Values are sequences
of words, documents are elements in document order with the number of the
parent and the text they begin with. **`ContentModel`**, which it extends,
parses content specifications: a specification is a sequence of tokens, and the
regular expression the code makes of it is the set of the sequences of children
it matches. `Parse` follows the recursive descent and decides what a group is by
the first separator in the rest of the specification, as the code does;
`Denoted` is the meaning by the nesting of the parentheses, and the reference
that `Conforms` uses.

**`XSDContent`** (`XSD_Impl`). `ParseSchema` reads types, occurrence bounds and
restrictions; the recursion of `validateElement` is a set of elements still to
check, each with the type of its particle. Lexical checks of builtin types are
a set of texts for each (`Accepts`).

**`ExternalSubset`** (`DTD_Impl::parseDTD`, its `parseInternal`,
`parseExternalContent` and `parseConditional`). A text is a sequence of
declarations, references, the tags of sections, comments and words. `frames` is
the stack of calls with the text each has still to read; the nested calls of
`parseConditional` are the sections of a frame, each with what it has collected,
because the code parses the text of an included section only at its end, after
the sections in it. In external content a declaration is cut at its first `>`
and the references in it are replaced once; in internal content they are not.
The text may end in a section: `EndInIncluded` parses what it has collected, then
`Reject` notices the missing end. `EndOfExternal` makes the recursion check over
the entities declared (`Circular`; `Entities` has its steps), so a circle that no
reference meets is an error, too.
**`SubsetMeaning`** says by recursion on the two texts what XML 1.0 declares:
references to any depth, sections in their order, first declarations that bind, and
nothing if entities form a circle.

**`ElementTree`** and **`TreeBuilder`** (`Default_Parser` through a document;
`Variant`, `Element`, `Content`). `ElementTree` is the tree with the parents of
its nodes, the white-space mark of a content, the contents that an element
keeps with the number of children they were made from, and the calls of
a client: `GetContents`, `AddChild`, `RemoveLastChild`, `AddContent`.
`TreeBuilder` reads tokens: `StartTag`, `EmptyTag`, `EndTag`, `Character`,
`CharacterReference`, `CDataSection`, `CommentOrPI`, `EntityReference` (which
continues in the text of the entity, into the element or into the node of the
reference), `EndOfEntity`, `EndOfDocument` and `Reject` for every exception.
Where `Document` lets any construct come next, here the text decides.
**`TreeMeaning`** has well-formedness with namespaces, token by token: the elements that
are open after each token, with their prefixes, and the entities that fit in a scope;
and the sequence of tags and characters of a text. Both are recursive functions over
the depth to which entities nest. The meaning says nothing of how the code
parses: an entity is well-formed by itself, the parser goes on in its text.

**`XPathLexer`**, **`XPathParser`** and **`XPathValues`** (`xpathTokenize`,
`xpathParse`, `evalExpr` with its functions). The lexer is one action for each
kind of token at a position of a text; a token found is the longest one. The
parser is the recursive descent as functions from a position to a tree and the
next position; the grammar of XPath 1.0, as the set of trees that a sequence of
tokens may have, is the reference. The values of expressions follow `evalExpr`
by structure: conversions between nodes, strings, numbers and booleans,
comparisons, arithmetic, unions, filters, paths after a filter, and the core
functions. Numbers are halves of integers with NaN, -0 and the infinities.

**`XPathSteps`** (`XPath_Evaluator`). Unions of location paths with filters. One
action for the start of a path, one for each node a step starts from, one for
the end of a step and one for the end of a path, so positions, duplicates and
the order of the node-set come from the loops of the code. A document is
a sequence of nodes in document order with the number of the parent. The axes take
the ancestors that the caller passes on, which need not be those of the node:
siblings are the children of the last of them (`SiblingsAfter`, `SiblingsBefore`).

Modules named `MC...` define the values of the constants. In each module,
operators that differ from their neighbour by one fault (`LeaveAssigns` beside
`Leave`) are mutated forms that no action uses: they show that the properties
notice the fault.

## The runs

| run | module | what it asks |
|---|---|---|
| `shared` | Document | Two objects, text that may be malformed or exceed its limits, schema validation, destruction: do the static counters count the nesting of the running parse, is there one root, does a successful parse bind its own validator and mapper? |
| `alone` | Document | One object and text it accepts: is validate() about its own DTD, and is that DTD alive? |
| `callbacks` | Document | Resolvers that parse, validate and destroy other objects, and throw: does a tree change only by its own successful parse? |
| `entities` | Entities | Is every circle of entities found, nothing else rejected, does the limit spare entities that nest within it, does every parse end? |
| `cache` | EntityMapper | Do candidates and file cache agree with the table, whatever the order of calls? |
| `validate` | DTDValidation, ContentModel | Does the first validate() accept exactly the valid documents, and add only defaults? |
| `schema` | XSDContent | Is what conforms never rejected, and does what is accepted keep to the bounds and the simple types? |
| `paths` | XPathSteps | Do downward paths select what XPath 1.0 says, and child steps in document order? |
| `subset` | ExternalSubset, SubsetMeaning | Do the two subsets declare what XML 1.0 says, whatever the references and sections, and is each legal DTD read? |
| `tree` | ElementTree, TreeBuilder, TreeMeaning | Are exactly the well-formed documents parsed, is the tree the text in order, which contents are white space, and is getContents current while children are only added? |
| `grammar` | XPathLexer, XPathParser, XPathValues | Are tokens the longest ones, trees those of the grammar, all of the grammar accepted, and values those of XPath 1.0? |
| `upward` | XPathSteps | A parent step outside of a predicate selects nothing (violated) |

The reference for `CirclesRejected` is a condition on the graph of entities, for
`AcceptedMeansValid` one on the whole tree with no order of walking, for
`schema` the distribution of children over particles that W3C XML Schema
defines on the schema *text*, for `paths` the XPath 1.0 semantics on sets of
nodes with a document root above the root element, for `subset` and `tree` the
meaning of a text by recursion on it, with no stack and no tree, and for
`grammar` the set of all derivations of a sequence of tokens. None of them uses the
operators of the walk it judges, but for the tests on a single node, attribute
or value.

### Bounds

* `Document`: two objects are enough for one to disturb the other, and three
  DTD nodes for both to have one and a third to be made. `MaxOpen` = 6
  constructs with limits of 1 and 2 reach both limits from each side; `Word` = 4
  (and 8 where limits go to 3) lets a counter wrap. The identities of DTD nodes
  are interchangeable (symmetry; `shared`, `alone` and `callbacks` check no
  liveness).
* `Entities`: three declarable entities make circles of length one to three and
  one that is referred to twice; `MaxExpansion` = 4 is above the deepest nesting
  without external texts and below what a self-reference reaches.
* `EntityMapper`: two parameter entities and a general one, one file with two
  versions, which may be missing: a candidate list can be stale in its type, its
  members and its texts.
* `DTDValidation`: four declarations, so that an element has two attributes or
  contains elements with declarations of their own; values of at most two
  words: an ID may repeat, precede or follow its reference, or not be a name, and
  a word may be no name token at all. One enumeration names a value twice.
  Specifications with nested groups, each modifier and mixed content, and
  two that the parser refuses; at most two children and text in every
  combination. Attributes and nested content are varied on different elements.
* `XSDContent`: every tree of at most five elements, two complex types one of
  which may contain itself, every pair of three occurrence bounds; simple types
  with each facet at, below and above its bound.
* `XPathSteps`: every document of at most four nodes over two names and text,
  and those of five in which two children have one child each; paths of up to
  three steps. Four nodes are needed for a descendant that is
  reached twice and for siblings below different parents.
* `ExternalSubset`: subsets of at most two tokens each, one internal token with
  three external ones or with a whole section among four, and every section in
  a section with a token before, in and after the inner one. `MaxFrames` = 6
  calls stand for the stack of the program: no legal text here needs more
  than four, and a reference to itself needs any number.
* `TreeBuilder`: under three roots, bodies of at most two of all tokens, of
  three tags (overlapping, unclosed, with prefixes), and of four pieces of text,
  references and CDATA; around the root every text of at most four tokens. The
  entities hold text, white space, whole elements, parts of elements, other
  entities and an unbound prefix; one element has the prefix `xmlns`, which is legal
  before the name of an attribute only. `MaxAttributes` = 2 is met and exceeded by
  one. A client makes five calls on three documents: enough to read, add, read,
  add and read again at two depths. `MaxNodes` = 10 stops its additions.
* `XPathParser`: every text of up to five tokens over alphabets of operators,
  of steps, of filters and of calls; a deeper nesting repeats the same rules.

`CHECK_DEADLOCK FALSE` stands where a behaviour is one call, which returns
(`Entities`, `DTDValidation` between calls of a bounded number, `XSDContent`,
`XPathSteps`, `XPathValues`, `ExternalSubset`, `TreeBuilder` after the calls of
the client).

### Fairness

Only `Terminates` needs it: weak fairness of the work of the parser, which is
one thread that does nothing else, and strong fairness of the end of the DTD,
because a DTD is a finite text while the model could declare forever. Nothing is
assumed about which entry the iteration meets next, or about resolvers.

## What is proved

The theorems hold for every value of the constants that satisfies the
assumptions named with them; the runs show the same properties on small
instances. Every strengthened invariant below was also an invariant of a run
before it was proved.

**`Document_proofs`**, for every set of objects, DTD nodes and options, every
word size and every bound on the nesting.

* `TypeCorrect`: `Spec => []TypeOK`, re-entrant parses included.
* `FailuresKeepTrees`: the action property `FailedParseKeepsTree`, re-entrant
  parses included. It needs `NothingOpenOutsideBody` at every depth of the stack of
  calls: a parse assigns the tree in its epilog, and an element still open there
  would be a document that was cut off.
* `CountersCorrect`, `OneRootCorrect`: `CountersMatchNesting` and `OneRoot`,
  under `Resolvers = {}`, that is, when no resolver callback uses another XML
  object. Without this assumption both are false (`MCDocument_reentrant.cfg`).
* `ParseBindsCorrect`: the action property `ParseBindsValidator`, from the same
  invariant.
* `EmbeddedDtdCorrect`, `LiveDtdCorrect`: `EmbeddedDtdDecides` and
  `ValidateReadsLiveDtd` under `Alone`: one object, no callbacks that parse, no
  schema validation, and documents that the parser accepts. These are the
  conditions of the run `alone`; without one of them the validator can be that of
  another parse, as `MCDocument_second.cfg`, `MCDocument_xsd.cfg` and
  `MCDocument_reparse.cfg` show. The invariant adds `TreeHasValidator`: the tree has
  a DTD node exactly when there is a validator, and it is that one's.

`CountersMatchNesting` is not inductive: it says nothing of the root flag, on
which `OneRoot` depends, nor of which validator the stage of the parse implies,
and it does not exclude a second call on the stack. `IInv` adds `OneParse`: there
is at most one call, and its stage, its open constructs, its roots and its DTD
nodes determine the root flag, the counters and the validator (`ParseState`).
Each action has one step in `NextInv`. Counting needs `CountOpen` (what pushing
and popping one construct does to the number of open ones) and `LeaveKeepsFirst`
(the outermost construct stays an element). The wrap-around of `size_t` is
harmless because a counter is at most its limit, which is below `Word`.

**`EntityMapper_proofs`**, for every set of names, files and texts.

* `TypeCorrect` and `CacheCorrect`: `TypeOK` and `CacheCoherent`. The invariant adds
  `UndeclaredIsBare`: the entries that only a lookup has made have no text, so that
  it does not matter whether they are among the candidates.
* `Refinement`: `Spec => ImplementsTable`. Each call is a step of `EntityTable` or
  a stutter, with one lemma for each call. The lemma that carries it is
  `SameReplacement`: what `translate` finds among the candidates it kept is what the
  table says of the name now. `EntityMapperAssumption` only keeps the values that
  stand for "no entry" and "no text" apart from the texts.

**`Entities_proofs`**, for every set of names, characters and texts.

* `TypeCorrect`: `TypeOK`.
* `OnlyCirclesCorrect`: `OnlyCirclesRejected`, with no assumption on the table or
  the order in which it is visited. `WalkInv` says that the frames of the check are
  a path: each entity on the stack is one that the text below it still refers to
  or refers to by the reference just read. A name met again closes it to a circle.
* `CirclesCorrect`: `CirclesRejected` under `NamesFit`, which says that all names fit
  in the table, so that no insertion of the check rehashes it. Without it
  the property is false (`MCEntities_rehash.cfg`). `LeftBehindIsClean` is the
  invariant of a depth-first search: a name that the check has passed, and that
  is no longer ahead of a frame, leads to no circle. At the end nothing is ahead.
* `ExpansionCorrect`: `InternalEntitiesExpand` under `NamesFit` and `NoEmptyText`, which
  says that no entity is declared with an empty text. The code takes an empty text
  for an absent one, and `MCEntities_empty.cfg` shows what follows. In the body the
  frames are again a path, now of texts without circles, so no two frames have the
  same name and their number is bounded by that of the names (`FS_PigeonHole`).

**`DTDValidation_proofs`**, for every set of names, values, declarations and
documents.

* `TypeCorrect`: `TypeOK`. `WalkInDocument` is needed besides: attributes are only
  looked at for an element that is declared.
* `DefaultsCorrect`: the action property `OnlyDefaultsAdded`, for any number of
  calls and edits between them.
* `AcceptedCorrect`, `RejectedCorrect`: `AcceptedMeansValid` and
  `RejectedMeansInvalid` under `Decidable`. Its parts: one call of validate() for
  a parse (`again` and `stale` show what a second one does), no attribute declared
  twice (`twice`), no empty element where text is declared (`pcdata`), and
  `SpecificationsDenoted`: the language of each parsed content specification is the one
  that `Denoted` gives it. The last is induction over specifications and stays
  with TLC, as an `ASSUME` of `MCDTDValidation`.

The invariant is `WalkInv`. Between two attributes the walk has met some of the
occurrences in document order (`Met`). Those behind it hold as they were given, and
the two sets are exactly the IDs and references among them
(`IdentifiersRecorded`), no ID twice. Those ahead still have the values of the
document, which is why `NamesDistinct` is needed: the default of an earlier
declaration must not be the value of a later one. At the end everything is
behind, and the comparison of the two sets is that of the whole document
(`CheckReferencesDecides`). `AtAttribute`, `SameDocument` and `SameValidity` say what
each step relies on and leaves alone.

**`XSDContent_proofs`**, for every set of schemas and documents.

* `TypeCorrect`: `TypeOK`: the elements still to check are elements of the document,
  each once. `SchemaRead` says what `parseSchemaNode` made of the text, and
  `ParentsPassed` that the elements below the one being checked come after it.
* `AcceptedCorrect`: `AcceptedMeansCounted` under `BoundsAreKept`: no particle has
  `maxOccurs="0"` and every simple type restricts a builtin one. The
  schemas `Never` and `Derived` of `MCXSDContent` show that neither can be dropped.
* `RejectedCorrect`: `RejectedMeansInvalid` under `NamesDecide`: no type has two
  particles of one name and no choice has a branch that may be empty. The
  validator counts names; with these two, the number of children with a name is
  the share of its particle, and comparing it with the bounds decides
  (`ContentDecided`). The schemas `Repeated` and `EmptyBranch` show the rest.

`RootChosen` gives each element still to check the type that the declarations give it
from the root down, and `NothingSkipped` says that an element with a type either has
been checked and holds, or is still to check, or is below one that is not passed.
The types are a recursive function over the document. That it exists, that
nothing is skipped and that elements below an untyped root have no type are
proved by the least counterexample: `Least` (a set of naturals that is not empty has
a least element) needs no operator as a parameter, and the parent of an
element comes before it.

**`TreeBuilder_proofs`**, for every set of documents, entities and names, entities
nested to any depth, and any number of calls of the client. Assumed are texts of
tokens; in `ReplacementAssumption`, that no entity is empty: the mapper takes
an empty text for an absent one (`MCEntities_empty.cfg`), so that no reference to it is
replaced; and in `DepthAssumption`, for the last two theorems, that no entity is in
itself: the entities have ranks up to `MaxDepth`, any number, that fall from each
entity to those in it. The code refuses circles when it has read the DTD (`Entities`).

* `TypeCorrect`: `TypeOK`. The invariant adds `CallPath`: the nodes of the calls in
  progress are a path from the root element, in which an entity has either the
  node of the call around it or a reference below that; and `EntityRead`: when the text of
  an entity has ended, its node has a child.
* `ContentsCorrect`: `ContentsCurrent`. The invariant is `CachesCurrent`: an element
  was never asked when it had more children than now, and what it keeps is current
  when it has as many as then and no element below it was given one.
  `ContentsStay` says on what the text below a node depends, `AnswersCurrent` that then
  every answer is current, served from a cache or not, and `CachesOutgrown` is the
  case of a new child: its parent now has one more than it counted, and every
  other element either keeps its whole subtree or has one below it that has grown.
* `WellFormedParsed`: `WellFormedIsParsed`. The invariant `ReadSoFar` gives each call in
  progress the elements that are open in its text and the prefixes around it
  (`LevelsBy`, `Scoped`). It says that the document is well-formed just when what is left
  to read of each text is, from there (`Fits`), and where in the document the parser
  is while it is in no entity (`Bottom`); so that one root element and nothing
  else but comments and white space was met. `InTexts` says that what is read is
  text of entities that the document reaches, and that the node of a reference is
  only the target in an entity that does not begin with `<`. A step moves one token
  from what is left to what is open (`ReadPlain`, `ReadStart`, `ReadEnd`, `ReadEntity`,
  `ReadEntityEnd`); a token that is refused makes what is left ill-formed, but for
  the cases named. `FittingEquation` unfolds the entities by one
  level, whatever the depth: an entity of rank `d` needs no more than `d` levels
  (`DepthAssumption`).
* `TreeWritten`: `TreeAsWritten`: with the same invariant that documents parsed are
  well-formed (`ParsedIsWellFormed`), and that their trees have what is written. For
  the latter `WrittenSoFar` says two things of every moment: what is told of the
  document so far, then what ends the open elements, is the tree in
  document order; and what is told so far, then the rest of the input, then the
  rests of the texts around it, is the document with its references replaced. When
  all calls have ended both rests are empty. The lemmas are about the
  concatenation of what is told of the children of a node, of which one that is open is
  the last and all others stay (`FlattenParted`, `PathGrows`): a new node
  (`TextNodeWritten`), a character at the end of a content (`CharacterWritten`), a call
  that begins and one that ends. `Traversed` is again a recursive function,
  from the last node to the first.
* `WhiteSpaceCorrect`: `WhiteSpaceMarked`. It is not inductive: the node of an entity
  parts the content before it from what follows only when its text has ended.
  `WhiteSoFar` says what the marks are while there are calls in progress.
  `MarksGrow` is the lemma for a new node (only the last child of the target can
  be concerned), `WhiteParted` the one for the end of an entity, where `CallPath` shows
  that the node is no longer open and `EntityRead` that it has a child.

`Contents`, `Answer` and `Below` are recursive functions over the tree. That they
exist follows as in `XSDContent_proofs`, from the last node to the first for
the texts (`ReadingIsDefined`) and from the first to the last for the nodes above
one (`AboveIsDefined`).

**`ExternalSubset_proofs`**, for every vocabulary, every family of subsets and any
room for at least two calls.

* `TypeCorrect`: `TypeOK`. The step that parses the text of an included section calls
  without asking for room. That there is some is not inductive by itself:
  `SoundFrame` says that only the call that the stack begins with meets sections, because
  what a section collects holds none and the text of a reference is internal content.
  `FlattenType` is the lemma that the translation of a text is a text.

**`XPathSteps_proofs`**, for every set of documents that are trees in document order and
every set of expressions.

* `TypeCorrect`: `TypeOK`: node-sets hold nodes of the document, each once. Node
  tests, predicates and filters keep candidates in their order (`Keeps`), and outside
  of predicates every axis stays in the document (`AxisNodesType`). What a sequence of
  predicates, or of candidates, leaves is a recursive function over their number
  (`FilteredKeeps`, `AddAllSteps`), treated by `UptoInduction`.
* `OrderCorrect`: `ChildPathsInDocumentOrder`. Increasing node-sets are not enough:
  a child of a node may come after the next node of the set. The invariant `ChildrenInRow`
  says that each node comes, with all that is below it, before the next (`Before`), and
  that what a step has found comes before what it has still to start from.
  `ChildrenBefore` is the lemma about trees that carries it to the children.
* `DownwardCorrect`: `DownwardPathsSelect`: what a union of paths that only go down
  selects is what XPath 1.0 says, with every test, predicate (positions, `last()`,
  attributes, neighbours) and filter, relative or absolute, with `//`. The invariant
  says it of each moment (`FoundNow`): what a step has found, with what it will find
  from the nodes it has not started from, is what XPath reaches with this step
  (`Reached`); and `ChosenNow`: what is selected is the union over the paths so far.
  The argument has three layers. A candidate's place among its candidates is
  the number of nodes of the set up to it, because candidates of a downward axis come in
  document order; so one predicate leaves the same nodes on both sides, and by
  induction so does a sequence of them. The nodes that the code collects for an axis,
  by descending, are those that XPath defines by the parents (`Subtree`, by `Least`).
  And the root element, which the code adds after a leading `//` because it has no
  document node, is exactly what XPath finds from that node (`RootAdded`).

  The proof attempt corrected the property. The code compares `@*='v'` and
  `@node()='v'` with the first attribute only; `Looks` excluded `*` alone, and
  no run had a predicate with `node()`. Both are excluded now. For the same reason
  `NamesAreNames` says what the grammar of names does: `*`, `node()` and
  `text()` are not names.

Only model-checked, and why:

* `Terminates` of `Entities`: liveness under fairness.
* `SubsetMeaning`, `XPathParser`, `XPathValues` are built from `RECURSIVE`
  operators, about which nothing can be proved; a recursive function, as in
  `XSDContent`, can be reasoned about with `Least`.
* `UndeclaredIsReported` and the other properties that the code does not have are
  not theorems; the configurations below show the counterexamples.

## Disagreements with the documentation

The violated run `upward` is the finding in `PROJECT.json`. More configurations,
not among the runs, show where a property ceases to hold; each checks a property
that TLC finds violated:

| configuration | shows |
|---|---|
| `MCDocument_second.cfg` | a parse of a second object takes the static validator from the first one, whose validate() then uses the other DTD |
| `MCEntities_rehash.cfg` | checkForRecursion inserts into the table it iterates over; after a rehash a circle is accepted |
| `MCDTDValidation_again.cfg` | a second validate() rejects a valid document with an ID |
| `MCDocument_xsd.cfg` | validate(xsd) replaces the document's validator by none (or the schema's) |
| `MCDocument_reparse.cfg` | after a re-parse that throws, the old tree is there and the validator refers to a DTD that is not |
| `MCDocument_reentrant.cfg` (with `-continue`) | a resolver that parses resets root flag (`OneRoot`) and counters (`NestingWithinLimit`) of the waiting parse |
| `MCEntities_empty.cfg` | an entity with an empty text is expanded to its own name until the limit |
| `MCEntities_undeclared.cfg` | the recursion check makes undeclared entities look declared |
| `MCDTDValidation_stale.cfg` | a reference to an ID of an earlier call is accepted |
| `MCDTDValidation_implied.cfg` | an absent `#IMPLIED` attribute is added with an empty value, which a second call may reject |
| `MCDTDValidation_twice.cfg` | an attribute that is declared twice is checked against the default of its first declaration |
| `MCDTDValidation_pcdata.cfg` | `(#PCDATA)` accepts empty-element tags between the text |
| `MCDTDValidation_selfroot.cfg` | the name of a self-closing root is not compared with the DOCTYPE |

Others need no file of their own: in the configuration of a run, check this
property instead, where it says so with other values of a constant.

| configuration | property | shows |
|---|---|---|
| `cache` | `FirstDeclarationBinds` | the last declaration of an entity binds, not the first |
| `schema`, `Schemas <- OneSequence` | `SequencesOrdered` | children of a sequence in another order are accepted |
| `schema`, `Schemas <- Never` | `AcceptedMeansCounted` | `maxOccurs="0"` is read as unbounded |
| `schema`, `Schemas <- Derived` | `AcceptedMeansCounted` | the facets of a base type of the schema do not count |
| `schema`, `Schemas <- Repeated` | `RejectedMeansInvalid` | a sequence that names an element twice: the children of both are counted for each, and rejected |
| `schema`, `Schemas <- EmptyBranch` | `RejectedMeansInvalid` | empty content is rejected although one branch of the choice may be empty |
| `paths`, `Expressions <- RootPredicates` | `PathsSelect` | `//*[@k]` selects the root element without an attribute k |
| `paths`, `Expressions <- NotEqual` | `PathsSelect` | `!=` on a node-set is the negation of `=` |
| `grammar` | `EveryValueAsSpecified` | values that differ from XPath 1.0, listed below |
| `subset` | `NestedAsWritten` | a section in an included section is read before what precedes it |
| `subset` | `CirclesEnd` | a parameter entity that refers to itself, or to none, is read until the stack ends |
| `tree` | `ContentsAlwaysCurrent` | getContents answers the old text after an edit of a text or of an inner element |
| `tree` | `AllWellFormedParsed` | an entity whose text has an element after something else is refused |

The other differences that the properties of these runs name:

* DTD subsets: the last declaration of a parameter entity binds; a reference in
  a declaration is replaced one level deep; the text of an entity of the external
  subset ends at its first `>`; a section that holds only sections throws, as
  does an empty entity; an attribute list before its element is refused.
* Documents: the prefixes of the root are not checked; below it the prefix `xml`
  must be declared.
* White space: a character reference after a content leaves its mark, where
  the text of an entity takes it back.
* XPath grammar: `text()` or `node()` at the start of a relative path is read as
  a function; `//` alone is accepted; a path after a filter has one step; `/`
  followed by an operator throws; numbers do not begin with a dot.
* XPath values: relational operators take the first node of a set; unions, paths
  after a filter, `sum()` and `name()` lose attributes; a division by zero is
  +Infinity whatever the sign; unions come left operand first; a wrong number
  of arguments gives a default; numbers are read and spelled as C++ does.

The properties of the passing runs are stated so that these cases are outside of
them, by a condition in the property (`DownwardPath`, `Entangled`) or by the values
the run is given (`Redeclare`, `MaxCalls`, the schemas); the tables above are what lies
on the other side of each such condition. In `PROJECT.json` a hazard names only the
properties that would notice it; one that the code does not survive names
none, and its note names the configuration that shows it.

## What is not modelled

CDATA sections in the content that a DTD checks; the XML declaration; namespaces
in schemas and paths; indexing of nodes by name and number. Arena scopes are
objects that nest by construction. Character sources, character tables,
encodings, file formats and stringify are sequential code on bytes, with no
control that a model would tell apart. `PROJECT.json` lists each with its reason.

A callback that parses while the DTD is being read is left out of `Document`:
it destroys the validator that is running, and the behaviour is undefined.

## Plan

1. Done: `Document` with its proofs, `Entities`, `EntityMapper` with
   `EntityTable`, `DTDValidation` with `ContentModel`, `XSDContent`, `XPathSteps`.
2. Done: `ExternalSubset`, `ElementTree` with `TreeBuilder`, `XPathLexer`,
   `XPathParser`, `XPathValues`.
3. Done: `EntityMapper_proofs`, `Entities_proofs`, `DTDValidation_proofs`,
   `XSDContent_proofs`, `TreeBuilder_proofs`, `ExternalSubset_proofs`,
   `XPathSteps_proofs`, the failed parse and the object on its own in
   `Document_proofs`.
4. Done: `DownwardPathsSelect` in `XPathSteps_proofs`; `TreeAsWritten` and
   `WellFormedIsParsed` in `TreeBuilder_proofs`, with the meaning of a text as
   recursive functions over the depth of its entities.
5. Left: `DeclaredAsWritten` and `LegalIsRead`, with the meaning of a subset as
   recursive functions over the depth of its references in the same way.
