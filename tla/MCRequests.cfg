SPECIFICATION Spec
CONSTANTS
  k1 = k1
  k2 = k2
  On = On
  Mode = Mode
  Name = Name
  Temp = Temp
  NoChar = NoChar
  Nothing = Nothing
  Client = {k1, k2}
  Char = {On, Mode, Name, Temp}
  Description <- MCDescription
  Initial <- MCInitial
  Items <- MCItems
  Reading = {0, 41}
  MaxItems = 2
INVARIANTS TypeOK UnitIsTold AnnouncedIsValue AnswersAreTrue
SYMMETRY Symmetry
