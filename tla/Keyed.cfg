CONSTANTS
    Keys = {0, 1, 6}
    Values = {x, y}
    Null = null
    hash_table_primes <- MCPrimes
    TrieKeys <- MCTrieKeys
    Salts <- MCSalts
    HashBits = 3
    Params <- MCParams
SPECIFICATION MCSpec
VIEW View
INVARIANTS KeyedIterationsExact TrieUseCountsExact BloomNoFalseNegatives
  
