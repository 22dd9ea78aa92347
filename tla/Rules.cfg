CONSTANTS
  Schemas <- MCSchemas
  Relationships = TRUE
  Autofill = TRUE
  Methods <- MCMethods
  Templates <- MCTemplates
  Catalog <- MCCatalog
  Lost <- LostRules
  Normalization <- MCNormalization
  SchemaIssues <- BodySchemaIssues
  Drafts <- MCDrafts
  Repairs <- MCRepairs
  Instants <- MCInstants
SPECIFICATION Spec
INVARIANTS
  TypeOK
  ValidMeetsTheTable
  AcceptedStaysAccepted
  ChoiceIsFree
CHECK_DEADLOCK FALSE
PROPERTIES
  ValidIsSent
  RepairsConverge
