\* May the profile say "ready" with facts that nobody collected?
SPECIFICATION Spec
INVARIANTS NothingUncollectedPasses
