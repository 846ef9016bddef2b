SPECIFICATION Spec
PROPERTIES
    RunsAreAccountedFor RequestsAreAnswered FloorSettles
\* A worker may have nothing left to do.
CHECK_DEADLOCK FALSE
