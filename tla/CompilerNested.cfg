\* Two loops in a row, each with an if and else.
CONSTANTS
    Scrutinees <- MatchTypes
    Ints = {0, 1, 2}
    IntLiterals = {0, 1}
    MaxArms = 0
    Fuel = 6
    StepFuel = 400
    Statements <- Bodies1
    Methods = {"", "f"}
    MaxStatements = 2
    MaxCalled = 2
    TestedPrograms <- TestPrograms
    EquationTypes <- EqTypes
    LayoutTypes <- Layouts
    Numbers <- Operands1
SPECIFICATION Spec
CHECK_DEADLOCK FALSE
INVARIANT BlocksAreNested
