\* Heap memory is zero, as the kernel hands it out.
SPECIFICATION ReadSpec
CONSTANTS
  InitLength = 4
  NumHeaders = 2
  MaxHeaders = 2
  Lines = {"line"}
  Heap = {"nul"}
PROPERTY KeptConnectionParses
