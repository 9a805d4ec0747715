SPECIFICATION Spec
CONSTANTS
  submit = submit
  knorr = knorr
  Procs = {submit, knorr}
  Tool <- MCTool
  Values = {"a", "b"}
  Found <- MCFound
  Keep = 2
  Cap = 2
  Every = 2
  MaxWrites = 9
  MaxFaults = 1
INVARIANTS
  OthersFind
  FileBounded
CHECK_DEADLOCK FALSE
