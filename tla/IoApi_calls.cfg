SPECIFICATION Spec
INVARIANTS
  TypeOK
  PerformsAsDocumented
  LinksAndCompletesItsOwn
  RepeatsNothingElse
