SPECIFICATION Spec
CONSTANTS
  PAGE_SIZE_WORDS = 2
  NUMBER_OF_PAGES = 2
  Images <- MCImages
  Faults <- MCFaults
INVARIANTS
  ProgramsWithoutCard
  SuccessIsReal
  FlagTellsCard

  
