SPECIFICATION Spec
CONSTANTS
    P = 40961
    W = 3
    GENERATOR = 3
    LOG_DEGREE = 4
    LOG_BLOWUP = 1
    LOG_FINAL_POLY_LEN = 1
    LOG_ARITIES <- MCArities
    NUM_QUERIES = 5
    POW_BITS = 2
    MAX_ROUNDS = 6
    SEEDS = {1, 2}
INVARIANTS
    ForgeriesFail
    CorruptionsLand
    PositionsMove
    ChainEnds
    ChallengeDecided
CHECK_DEADLOCK FALSE
