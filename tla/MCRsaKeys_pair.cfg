CONSTANT MaxGen = 2
SPECIFICATION Spec
INVARIANT KeyPairMatches
