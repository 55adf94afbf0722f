\* One run, two contents, four commits, two change sets, two pull requests.
SPECIFICATION Spec
CONSTANTS
  None = None
  Publishers = {p1}
  Targets <- MCTargets
  Methods = {"merge", "squash"}
  MaxRuns = 1
  MaxContents = 2
  MaxCommits = 4
  MaxChanges = 2
  MaxPulls = 2
INVARIANTS VerifiedLands NothingTwice DeploysReviewed
PROPERTIES CommitsKept BranchesGrow
