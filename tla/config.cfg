SPECIFICATION Spec
CONSTANT Docs <- VariedDocs
INVARIANTS
    TypeOK
    SavedIsLoaded
\* the program has read its configuration and looked a name up
CHECK_DEADLOCK FALSE
