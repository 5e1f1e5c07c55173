SPECIFICATION MCSpec
CONSTANTS
  Messages <- MCMessages
  MaxWrites = 2
  Modules = {"m1", "m2"}
  OpIds = {"o1", "o2"}
  Sends = {"o1"}
  OpNames = {"a", "b"}
  Owners <- TwoOwners
  Offers <- OneOffer
CHECK_DEADLOCK FALSE
INVARIANTS FramingTransparent LengthsReadBack IntegersReadBack TypesOrdered ClassesDefinedBeforeUse ElementsReadBack TablesAgree VerdictJustified
