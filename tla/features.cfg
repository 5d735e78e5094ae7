SPECIFICATION Spec
CONSTANTS
  Char <- SomeChars
  Digits = {"0", "1"}
  Letters = {"a", ".", "1"}
  Atoms = {"a", "any", "dot", "digit"}
  MaxItems = 2
  MaxText = 3
  InitialFiles <- BootFiles
  Uploads <- NewFiles
  MaxUploads = 2
  Flows <- SomePackets
  Junk <- SomeJunk
  MaxUrl = 4
  MaxPosInfo = 16
  UintRange = 16
  NoFile = NoFile
INVARIANTS FeaturesTypeOK RecognisesAsDescribed FeaturesCurrent
PROPERTY UploadApplied
CHECK_DEADLOCK FALSE
