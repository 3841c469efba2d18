SPECIFICATION CrashSpec
CONSTANTS
  h1 = h1
  h2 = h2
  z = z
  Genesis = Genesis
  None = None
  Honest = {h1, h2}
  Faulty = {z}
  StakeH1 = 3
  StakeH2 = 1
  StakeZ = 1
  SuperMajority = {{h1, h2}, {h1, z}, {h1, h2, z}}
  HonestVote = {{h1}, {h1, h2}, {h1, z}, {h2, z}, {h1, h2, z}}
  FaultyRounds = {1, 2}
  Tag = {1, 2}
  Equivocation = TRUE
  LaterQcs = TRUE
  MaxRound = 2
  MaxRestarts = 1
  HANDLED_PROPOSAL_CACHE_SIZE = 1
  Leader <- MCLeader
  Block <- MCBlock
  BlockRound <- MCBlockRound
  BlockQc <- MCBlockQc
INVARIANT VoteOnce
