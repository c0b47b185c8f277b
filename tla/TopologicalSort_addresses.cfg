SPECIFICATION Spec
CONSTANT Graphs <- AddressesOfVariable
INVARIANT AllOperandsDeclared
\* the constructor returns: no step after "sorted" or the failed assertion
CHECK_DEADLOCK FALSE
