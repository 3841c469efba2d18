SPECIFICATION Spec
CONSTANTS
  h1 = h1
  h2 = h2
  z = z
  Genesis = Genesis
  None = None
  Honest = {h1}
  Faulty = {z}
  StakeH1 = 3
  StakeH2 = 0
  StakeZ = 1
  SuperMajority = {{h1}, {h1, z}}
  HonestVote = {{h1}, {h1, z}}
  FaultyRounds = {3, 4}
  Tag = {1}
  Equivocation = TRUE
  LaterQcs = FALSE
  MaxRound = 4
  MaxRestarts = 0
  HANDLED_PROPOSAL_CACHE_SIZE = 1
  Leader <- MCLeader
  Block <- MCBlock
  BlockRound <- MCBlockRound
  BlockQc <- MCBlockQc
INVARIANTS
  Agreement
  QcUnique
  TipsExtendCommits
