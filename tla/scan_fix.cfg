SPECIFICATION ScanSpec
CONSTANTS
    Setups <- PublishSetups
    Persons <- MCPersons
    Named <- MCNamed
    Operator = "you"
    Marker = Touched
INVARIANTS FixCloses
CHECK_DEADLOCK FALSE
