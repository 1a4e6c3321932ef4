CONSTANTS
  Identifiers <- MCIdentifiers
  Lower <- MCLower
  QueryExpressions <- MCQueryExpressions
  TableExpressions <- MCTableExpressions
  Statements <- MCAllStatements
  Depth <- MCDepth
  Scripts <- MCRespellingScripts
SPECIFICATION Spec
INVARIANT
  SpellingDoesNotMatter
