CHECK_DEADLOCK FALSE
SPECIFICATION Spec
CONSTANT OtherWork = TRUE
INVARIANT DestructorWaits
