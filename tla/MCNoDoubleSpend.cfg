CONSTANT MaxEvents = 4
SPECIFICATION SessionSpec
INVARIANT NoDoubleSpend
