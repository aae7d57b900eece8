SPECIFICATION PipelineSpec
CONSTANTS
  Database = "public"
  PgLike = {"pgboss"}
  Values = {"a", "b", "c"}
  Chars <- MCChars
  NameChars = 8
  Sources <- MCSources
  MaxValues = 2
  ScanLimit = 3
  Budgets = {10, 24, 35, 40, 60}
  Statements <- MCStatements
  HiddenColumns = {"ctid"}
  MaxRefreshes = 2
INVARIANTS
  
  PipelineInv
  SelectionFits
  
  
PROPERTY
  StableUpToValues
