SPECIFICATION Spec
CONSTANTS
  f1 = f1 f2 = f2 c1 = c1 c2 = c2 t1 = t1 t2 = t2
  Flow = {f1, f2} Callback = {c1, c2} Task = {t1}
  None = None
  MaxFaults = 1 MaxNotes = 1
SYMMETRY Symmetry
INVARIANTS  StateOnce TokenOfLastConsent
CHECK_DEADLOCK FALSE
