\* Two tokens, so that a close event can name the wrong one; bodies that fit,
\* that are too long, and that are longer than what is drained.
SPECIFICATION Spec
CONSTANTS
  Tokens = {t1, t2}
  NoToken = NoToken
  MAX_BODY = 1
  MAX_DRAIN = 3
  BodyBound = 4
INVARIANTS TypeOK EndMatchesCause
PROPERTIES EventLogSpec SilentClientEnds
