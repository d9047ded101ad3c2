CONSTANTS
  c1 = c1
  c2 = c2
  k1 = k1
  Conn = {c1, c2}
  Script <- MCScript
  Stray <- MCStray
  Key = {k1}
  HeaderSize = 4
  DefaultCounter = FALSE
  NoConn = NoConn
  Listener = Listener
  Sync = {c1}
  MaxTokens = 3
  LineBound = 6
SPECIFICATION Spec
CHECK_DEADLOCK FALSE
INVARIANT TypeOK
INVARIANT WholeValues
INVARIANT ExecutedOnce
INVARIANT AnswerToEach
INVARIANT AtRest
INVARIANT TokenizeFindsWords
PROPERTY Answered
PROPERTY HangupFrees
PROPERTY StopHeeded
