CONSTANTS
  Version <- MCVersion
  Api <- MCApi
  Broken = {3}
  Packages <- MCPackages
  Original <- MCOriginal
  Installed = 1
  Blank = Blank
  Part = Part
  Missing = Missing
  Uploads <- MCUploads
  MaxUses = 1
SPECIFICATION FairSpec
INVARIANTS TypeOK Recoverable StartsWhole RunsWhole
PROPERTY ComesUp
