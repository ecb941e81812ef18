SPECIFICATION Spec
CONSTANTS
  Slugs <- TwoSlugs
  Stored <- MCStored
  Objects <- MCObjects
  VaultNames <- MCVaultNames
  None = None
  MaxEdits = 1
INVARIANTS
  TypeOK
  AdmissionIsExact
  AdmittedIsListed
  ListedAsWritten
  AdmittedFires
