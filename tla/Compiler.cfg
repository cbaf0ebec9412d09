\* Bodies of up to three statements, matches of up to three arms.
CONSTANTS
    Scrutinees <- MatchTypes
    Ints = {0, 1, 2}
    IntLiterals = {0, 1}
    MaxArms = 3
    Fuel = 6
    StepFuel = 400
    Statements <- Bodies1
    Methods = {"", "f"}
    MaxStatements = 3
    MaxCalled = 2
    TestedPrograms <- TestPrograms
    EquationTypes <- EqTypes
    LayoutTypes <- Layouts
    Numbers <- Operands1
SPECIFICATION Spec
CHECK_DEADLOCK FALSE
INVARIANTS VerdictIsRight FirstMatchRuns UnifyIsExact LayoutIsSound ArithmeticIsExact PrivateStaysPrivate AcceptedNeverPanics CallsAreAnswerable CompiledAgrees ResumeIsTransparent
