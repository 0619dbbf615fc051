CONSTANTS
    Item <- MCItem
    Cap = 6
SPECIFICATION Spec
INVARIANTS
    IInv
    ChartKeepsShape
    ChartKeepsSpike
PROPERTY IsWindow
