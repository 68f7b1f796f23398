SPECIFICATION Spec
CONSTANT Docs <- ExampleDocs
INVARIANT DocumentedTakesEffect
CHECK_DEADLOCK FALSE
