SPECIFICATION FairSpec
CONSTANTS
  h1 = h1
  h2 = h2
  z = z
  Genesis = Genesis
  None = None
  Honest = {h1, h2}
  Faulty = {}
  StakeH1 = 1
  StakeH2 = 1
  StakeZ = 0
  SuperMajority = {{h1, h2}}
  HonestVote = {{h1}, {h2}, {h1, h2}}
  FaultyRounds = {}
  Tag = {1}
  Equivocation = FALSE
  LaterQcs = TRUE
  MaxRound = 3
  MaxRestarts = 0
  HANDLED_PROPOSAL_CACHE_SIZE = 1
  Leader <- MCLeader
  Block <- MCBlock
  BlockRound <- MCBlockRound
  BlockQc <- MCBlockQc
PROPERTY RoundsAdvance
