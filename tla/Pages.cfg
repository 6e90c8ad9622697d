\* each page by itself: two rounds, so that there is a newer run to follow; two reads at
\* once, so that one overtakes the other; an opening of each hunt, or one and a cancellation
CONSTANTS
  MaxRounds = 2
  Slots = {1, 2}
  MaxOpens = 2
  MaxFails = 1
  Cards = {c1}
  Polls = {1, 2}
  MaxMoves = 3
  MaxLost = 1
  CaseList = {k1, k2}
  Frames = 3
  MaxAsks = 2
  MaxChoices = 2
SPECIFICATION Spec
INVARIANTS
  AnswerBelongs
PROPERTIES
  PageSettles
  PollHeals
\* a page whose hunt is over and whose analyst is gone does nothing more
CHECK_DEADLOCK FALSE
