SPECIFICATION Spec
CONSTANTS
  CACHE_SET_DEPTH = 2
  CACHE_WAYS = 2
  AddrMod = 5
  Uncached <- MCUncached
  IoWords = {io1, io2}
  NoWord = NoWord
INVARIANTS TypeOK ReadReturnsWord MemRequestStable
