SPECIFICATION Spec
CONSTANTS
  Bytes = {0, 1, 9, 15, 16, 25, 80, 127, 128, 144, 153, 154, 240, 255}
  Addresses = {0, 8192, 49152, 57343, 65284, 65287, 65295, 65408, 65535}
  Words = {0, 1, 255, 4095, 32768, 49167, 65535}
  StackWords = {0, 57328, 65534}
  Pcs = {0, 336, 65535}
INVARIANTS CpusAgree BlockAgrees DecimalResult
CHECK_DEADLOCK FALSE
