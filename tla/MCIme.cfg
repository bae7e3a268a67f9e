CONSTANTS
  SIZE = 10
  CURSOR1 <- White
  CURSOR2 <- Black
  Romaji <- RomajiRules
  Kanji <- KanjiRules
  Letter = {97, 107}
  NL = 10
  Spellings <- Words
SPECIFICATION MCSpec
INVARIANTS WholeCharacters RulesReached
PROPERTY ImplementsEditor
CHECK_DEADLOCK FALSE
