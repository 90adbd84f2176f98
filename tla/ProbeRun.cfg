SPECIFICATION Spec
CONSTANT Inputs <- MCInputs
INVARIANTS AttemptsExact PhasesAgree StopHonest
PROPERTY Terminates
