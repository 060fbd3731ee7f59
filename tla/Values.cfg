\* Registers at the edges of every bound, of lists and status bits, of signed and
\* of convertible values, and every tenth of an hour; every percentage.
SPECIFICATION Spec
CONSTANTS
  nullptr = nullptr
  NoValue = NoValue
  Raw8 <- Raw8Tested
  Raw16 <- Raw16Tested
  Minutes <- MinutesTested
  Percents <- PercentsTested
INVARIANTS TypeOK FindsExactlyTheFilter WritesWhatKnxMeans ShowsTheRegister
PROPERTY ShownComesBack
