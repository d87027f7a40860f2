CONSTANTS
  None = None
  Plain = Plain
  Noisy = Noisy
  Pal = Pal
  Ntsc = Ntsc
  Files <- ThreeOrOne
  Styles = {Plain, Noisy}
  Values = {Pal, Ntsc}
  MaxGestures = 2
  MaxSections = 4
SPECIFICATION SpecWithStates
INVARIANT DocumentConsistent
PROPERTIES UndoIsExact ListActsOnSelection
