SPECIFICATION FairWatchSpec
CONSTANTS
  NumClients = 2
  Secrets = {a, b, c}
  NoSecret = missing
  Settings = {listening, limiting}
  usual = usual
  other = other
  Values = {usual, other}
  Startups <- OneDiffers
  MaxEdits = 2
INVARIANTS ServesValid ServesWhatRuns
PROPERTY Converges
