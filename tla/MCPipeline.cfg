CONSTANT ByteBits = 1
CONSTANT Fuel = 60
CONSTANT Inlined <- MCInlined
CONSTANT Corpus <- MCCorpus
CONSTANT Cases <- MCCases
SPECIFICATION Spec
INVARIANT TypeOK BehaviourPreserved LoweringFaithful SSAForm
CHECK_DEADLOCK FALSE
