CONSTANTS
  Hellos <- MCHellos
  data_offset = 54
  HistogramCPUs = {h1, h2}
  Durations <- MCDurations
  MaxSamples = 2
SPECIFICATION FunctionsSpec
INVARIANTS NameExact NameNeverWrong HistogramReported
SYMMETRY CPUSymmetry
PROPERTIES CountsNeverDecrease
CHECK_DEADLOCK FALSE
