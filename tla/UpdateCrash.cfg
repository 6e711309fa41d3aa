\* Two chained updates, each approved at most twice, two kills, one patch of
\* the prose that fits and one that would change the protected block.
SPECIFICATION FairSpec
CONSTANTS
  Contents <- MCContents
  Proposals = {"p1", "p2"}
  Old <- MCOld
  New <- MCNew
  Texts <- MCTexts
  Blocks <- MCBlocks
  Draft <- MCDraft
  Hashes <- MCHashes
  Facts <- MCFacts
  Acknowledgements <- MCAcknowledgements
  Inputs <- MCInputs
  Data <- MCData
  PatchRequests <- MCPatchRequests
  PromptLimit = 3
  OwnerTexts <- MCContents
  MaxApprovals = 2
  MaxKills = 2
INVARIANTS RecordsAgree InterruptedIsRepairable
PROPERTIES OverwritesOnlyOld FinishedAsApproved InterruptionEnds
