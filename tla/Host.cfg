CONSTANT Absent = Absent
SPECIFICATION Spec
INVARIANTS ReturnsFinalAnswer ParseAsSpecified
PROPERTIES CallsReturn
CHECK_DEADLOCK FALSE
