SPECIFICATION Spec
CONSTANTS
  a = a
  b = b
  dot = dot
  Names = {a, b, dot}
  Hidden = {dot}
  LocalOnly = {b}
  None = None
  Keyword = Keyword
  InitialClouds <- MCClouds
  MaxId = 6
  MaxDepth = 2
  MaxChanges = 3
  MaxErrors = 1
  Modes = {"container", "name", "id"}
  Folder = a
  GivenId = 2
  PageSize = 1
  MaxStarts = 2
INVARIANT TypeOK
INVARIANT IndexAgrees
INVARIANT SameFolder
 
PROPERTY NamesStayDistinct
CHECK_DEADLOCK FALSE
