SPECIFICATION Spec
CONSTANTS
  Cidrs <- MCCidrs
  Tables <- MCTables
  ClassLists <- MCClassLists
  HeaderSizes = {19, 21}
  LastClass = 3
  Keys = {1, 2, 3, 4}
  NoKey = 0
  MaxItems = 2
INVARIANTS
  FindReadsTheTable
  CIDRsKeepTheirSpelling
  NextClassIsFree
  ClassExistsReadsTheTable
  AnswersAreSetAlgebra
  ListIsSorted
  ReceiverIsKept
CHECK_DEADLOCK FALSE
