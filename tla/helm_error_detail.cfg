SPECIFICATION Spec
INVARIANT ErrorDetailIsFirstErrorLine
