SPECIFICATION Spec
CONSTANTS
  base = base
  derived = derived
  good = good
  bad = bad
  Revs = {base, derived}
  StructureOf <- MCStructureOf
  ParamsOf <- MCParamsOf
  ParentOf <- MCParentOf
  Binds = {good, bad}
  Fate <- MCFate
  Envs = {v1, v2}
  Orders = {1}
  Evaluators = {e1, e2}
  Dirs = {d1, d2}
  None = None
  Failure = Failure
  Faults = {"kill", "orphan"}
SYMMETRY Symmetry
CHECK_DEADLOCK FALSE
INVARIANTS TypeOK RefsComplete FailuresJustified OutcomeOfRequest
PROPERTY MemoTable
