CONSTANTS
  Identifiers <- MCIdentifiers
  Lower <- MCLower
  QueryExpressions <- MCQueryExpressions
  TableExpressions <- MCTableExpressions
  Statements <- MCAllStatements
  Depth <- MCDepth
  Scripts <- MCScripts
SPECIFICATION Spec
INVARIANTS
  TypeOK
  NamesAreFree
  ScopesEndWithStatement
  LocalIncludesExternal
