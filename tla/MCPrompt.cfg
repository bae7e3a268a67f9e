\* "[" starts a long escape sequence, and ends one; "A" ends one; "1" does
\* neither.
CONSTANTS
  Cap = 3
  Visible = {"[", "1", "A"}
  Intro = {"["}
  Final = {"[", "A"}
  MaxKeys = 5
  Char <- MCChar
  Input <- MCInput
  Limit = 8
  Address = {"p", "q"}
  NoBlock = NoBlock
CHECK_DEADLOCK FALSE
SPECIFICATION MCSpec
INVARIANTS TypeOK ReturnsWhatIsTyped BlockOwned
PROPERTY ImplementsSession
