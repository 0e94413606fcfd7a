\* Every line of up to five lexemes, some of them after malformed ones, and in a
\* sourced file.
CONSTANTS
  Lexemes = {"a", ">&", "<", "|", "&"}
  MaxLexemes = 5
  MaxParses = 2
SPECIFICATION Spec
INVARIANTS
  ActsAsGrammar
  ReportedOnce
  EndsWithItsInput
PROPERTIES
  TokensAreUsed
