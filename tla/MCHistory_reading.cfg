SPECIFICATION Spec
CONSTANTS
  p1 = p1
  p2 = p2
  p3 = p3
  p4 = p4
  ann = ann
  bea = bea
  cid = cid
  Nothing = Nothing
  Payment = {p1, p2, p3, p4}
  Account = {ann, bea, cid}
  Sender <- MCSender
  Receiver <- MCReceiver
  Reader = ann
  PageSize = 1
  MaxTime = 2
  MaxLoads = 4
  MaxPage = 4
SYMMETRY Symmetry
INVARIANTS
  SkippedForAReason
  PagesPartition
  OpensWhatItLists
CHECK_DEADLOCK FALSE
