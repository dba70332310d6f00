\* Every text of a few tokens, every spelling of small expressions, and the
\* values of those that have one.
SPECIFICATION ValuesSpec
CONSTANTS
  Letters = {"a", "and", "or", "div", "mod", "child", "attribute", "ancestor", "parent", "self", "text", "count", "node", "descendant",
    "r", "b", "c", "x", "true", "false", "f", "position", "last", "lang", "string", "number", "boolean", "not", "sum", "round",
    "floor", "ceiling", "normalize-space", "string-length", "name", "local-name", "concat", "translate", "substring",
    "contains", "starts-with", "substring-before", "substring-after"}
  Digits = {"0", "1", "2", "3", "4", "100000"}
  Texts <- SmallTexts
  Meanings <- SmallMeanings
  Valued <- SmallValued
  Elements <- SmallElements
  Halves <- SmallHalves
INVARIANTS TypeOK ParsedAsWritten GrammarIsParsed ValuesTypeOK ValuesAsSpecified
PROPERTIES LongestTokens
CHECK_DEADLOCK FALSE
