CONSTANTS
  Ids <- const_Ids
  Beginnings <- const_Beginnings
  Said <- const_Said
  Extractions <- const_Extractions
  JobsOf <- const_JobsOf
  Curators <- const_Curators
  Texts <- const_Texts
  Fact <- const_Fact
  Tag <- const_Tag
  ConstraintTexts <- const_ConstraintTexts
  Categories <- const_Categories
  Every = 1
  MaxWrites = 1
  Null = Null

SPECIFICATION Spec

INVARIANT CleanMeansCurrent HandlersTakeTurns
PROPERTY DeletedForAnother ConstraintsStay OnlyOutrunVectorsAreStale

CHECK_DEADLOCK FALSE
