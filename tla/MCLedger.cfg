SPECIFICATION FairSpec
CONSTANTS
  Poster = {p1, p2}
  Key = {k1, k2}
  Period = {m1}
  Body = {b1, b2}
  Stamp = {s1}
  None = None
INVARIANTS TypeOK GapFree OncePerKey AnswerIsPosted DivergenceOnlyByRace ReversalMirrorsOriginal
PROPERTIES SealStopsLaterCalls JournalPromise EveryCallEnds
