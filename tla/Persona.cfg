CONSTANTS
  Tokens <- MCTokens
  Bare <- MCBare
  Rank <- MCRank
  Width <- MCWidth
  Punctuation <- MCPunctuation
  NameStop = {"rose"}
  NameParticles = {"of", "the"}
  WikiStop = {"the", "of"}
  PhraseParticles = {"of", "the"}
  Openers = {"the"}
  Stems <- MCStems
  Title <- MCTitle
  MaxNames = 2
  MaxChars = 5
  Pages <- MCPages
  Anchor <- MCAnchor
  Numbered = {"v1c3"}
  Bot <- MCBot
  Profiles <- MCProfiles
  Dossiers <- MCDossiers
  Scenes <- MCScenes
  Chats <- MCChats
  Recalls <- MCRecalls
  Distillates <- MCDistillates
  Lines <- MCLines
  Writes <- MCWrites
  MaxClaimed = 3
  MaxUnknown = 1
SPECIFICATION Spec
INVARIANT TypeOK
INVARIANT InScope
INVARIANT PosersProtected
INVARIANT LineIsFit
PROPERTY CastGrounded
