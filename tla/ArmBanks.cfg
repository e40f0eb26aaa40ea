SPECIFICATION BanksSpec
CONSTANTS
  v1 = v1
  v2 = v2
  Mode = {"User", "System", "FIQ", "IRQ", "Supervisor"}
  Reg = {8, 14}
  Value = {v1, v2}
  Thrower = {"Supervisor"}
SYMMETRY Symmetry
INVARIANT BanksTypeOK
PROPERTY ImplementsRegisterFiles
