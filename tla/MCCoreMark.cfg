SPECIFICATION Spec
CONSTANT Parameters <- MCParameters
CONSTANT InitState <- core_init_state
CONSTANT CountsOf <- CountsOfBench
CONSTANT Corrupted <- CorruptedText
CONSTANT TextAfter <- TextAfterBench
CONSTANT InitMatrix <- core_init_matrix
CONSTANT MatrixTest <- matrix_test
CONSTANT MatrixAfter <- MatricesAfterTest
INVARIANT TypeOK
INVARIANT ScanStaysInBlock
INVARIANT BlocksDisjoint
INVARIANT NoHeaderLost
INVARIANT ReturnsSorted
INVARIANT InputsRestored
INVARIANT KnownCrcs
