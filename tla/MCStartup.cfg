CONSTANTS
  Name = {1, 2, 3}
  Menus <- MCMenus
  Lines = {0, 1, 2, 9}
  Addresses = {9}
SPECIFICATION Spec
INVARIANTS TypeOK MenuIsWhatYouGet
PROPERTY UnattendedStartEnds
