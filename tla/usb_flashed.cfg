CONSTANTS
    Sticks = {"s"}
    Own = {"own"}
    Extra = {"extra"}
    Tells <- MCTells
    DropsWhileBusy = TRUE
SPECIFICATION Spec
INVARIANT FlashedServesNothing
