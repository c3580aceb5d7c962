SPECIFICATION Spec
CONSTANTS
  l1 = l1
  l2 = l2
  n1 = n1
  n2 = n2
  n3 = n3
  n4 = n4
  Null = Null
  Lists <- TwoLists
  Node <- FourNodes
  Data = {1, 2}
  MaxRecyclable = {0, 2}
INVARIANTS WalkAgrees BackLinks NodesApart
SYMMETRY Names
CHECK_DEADLOCK FALSE
