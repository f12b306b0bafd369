CONSTANTS
  v = v  w = w  ann = ann  bob = bob  eve = eve
  NULL = NULL  Nothing = nothing  Carried = {nothing}
  Requests = {v, w}
  Executions = {}
  Needed <- TwoThenOne
  Requester <- AskedBy
  Reviewers = {ann, bob, eve}
  Calls = {c1, c2}
SPECIFICATION TurnSpec
SYMMETRY OthersAlike
INVARIANTS Reviewed OnePendingInTurn
PROPERTIES DecisionsStandInTurn
