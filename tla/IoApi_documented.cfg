SPECIFICATION Spec
INVARIANT PerformsItsOperation
