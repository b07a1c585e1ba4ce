SPECIFICATION FairSpec
CONSTANTS
  t1 = t1
  t2 = t2
  Threads = {t1, t2}
  TypeOf <- MCTypeOf
  Strings <- MCStrings
  Names <- MCNames
  Valid <- MCValid
  Types <- MCTypes
  Absent = Absent
  Texts <- MCTexts
  Vals <- MCVals
  FromStr <- MCFromStr
  Fails = Fails
  BadCast = Fails
  Numbers = {"1", "2"}
  Default = Default
  Docs <- MCDocs
  Hook <- MCHook
  None = None
  Throwing <- MCThrowing
  MaxOps = 2
INVARIANT SurvivesWriting
PROPERTY SameVariable
PROPERTY VisitSeesAll
PROPERTY LoadApplied
PROPERTY OperationsReturn
CHECK_DEADLOCK FALSE
