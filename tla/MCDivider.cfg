SPECIFICATION DivSpec
CONSTANTS
  WIDTH = 4
  Power <- MCPower
INVARIANTS DivTypeOK ResultCorrect
