\* A document with two definitions that want the same name, hoisted twice.
SPECIFICATION NamesSpec
CONSTANTS
  Documents <- MCDocuments
  MaxHoists = 2
CHECK_DEADLOCK FALSE
INVARIANT
  ComponentsKeepTheirMeaning
