CONSTANTS
  Inputs <- MCInputs
  MaxUnsigned = 15
  MaxInteger = 7
  Scalars = {"true"}
  Strings = {1, 2}
  Rejections <- MCRejections
  MaxRead = 9
  DumpBytes = {31, 34, 127, 128, 144, 160, 194, 224, 237, 240, 244}
  MaxBytes = 4
  BufferSize = 16
  Integers <- MCIntegers
  Sources <- MCSources
  Writers <- MCWriters
  Samples <- MCSamples
  Operations <- MCOperations
  Pointers <- MCPointers
  Values <- MCValues
  Targets <- MCTargets
  Texts <- MCTexts
  MaxNodes = 3
  MaxIndex = 13
  MaxSigned = 7
SPECIFICATION Spec
INVARIANTS WholeTokens NothingSkipped Verdict BuiltAsMeant WrittenIsRead BytesExact PathsExact PatchesExact
CHECK_DEADLOCK FALSE
