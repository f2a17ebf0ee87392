SPECIFICATION Spec
INVARIANT JoinsStarted
