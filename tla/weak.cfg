\* Every graph of up to eight edges over five nodes.
SPECIFICATION Spec
CONSTANTS
  biggestNode = 4
  Pairs <- Ways
INVARIANTS QueuesLinked IncludesOwnNodes LeavesNumbering
