SPECIFICATION Spec
INVARIANTS OneList
