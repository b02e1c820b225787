CONSTANT NumPages = 5
SPECIFICATION Spec
INVARIANTS ListSound
PROPERTIES AbstractSpec
