CONSTANTS
  Tables <- SmallTables
SPECIFICATION Spec
INVARIANTS UndoInvertsApply KeyIsTheView OutcomesAddUp TotalsAreBest ReplayIsExact
