SPECIFICATION FairSpec
CONSTANTS
  t1 = t1
  t2 = t2
  coord = coord
  worker = worker
  c1 = c1
  c2 = c2
  All = all
  Server = server
  Tasks <- MCTasks
  Deps <- MCDeps
  Handles <- MCHandles
  Commands <- MCCommands
  Owner <- MCOwner
  Budgets <- MCBudgets
INVARIANTS
  OpenQuestionHoldsTask
  DependenciesCameFirst
  OneLiveDispatch
PROPERTIES
  MailIsKept
  MailIsGiven
CHECK_DEADLOCK FALSE
