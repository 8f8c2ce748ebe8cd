-------------------------- MODULE MCKnowledgeFacts --------------------------
\* Small instances of KnowledgeFacts: documents that take each other's paths.
EXTENDS KnowledgeFacts

CONSTANTS p1, p2, c1

Command(doc, path, shared) == [doc |-> doc, path |-> path, shared |-> shared, content |-> c1]

MCCommands == {Command(0, p1, TRUE), Command(1, p2, TRUE), Command(1, p1, FALSE)}
\* The document of p1 goes to p2, and another takes its place.
MCBatches == {<<Command(1, p2, TRUE), Command(0, p1, TRUE)>>}
MCFresh == {Command(0, NoPath, TRUE)}

=============================================================================
