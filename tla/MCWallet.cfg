CONSTANTS
  WordBits = 3
  ByteBits = 2
  Short = 3
  Long = 6
  EntropyBytes = 4
  Wordlist <- MCWordlist
  FirstHashByte <- MCFirstHashByte
  Hardened = 4
  IndexSize = 8
  Entropies <- MCEntropies
  Offered <- MCOffered
  Checked <- MCChecked
  Names = {"Default", "savings"}
  Paths <- MCPaths
  DefaultPath <- MCDefaultPath
  Passwords = {"pw"}
  None = None
  MaxWallets = 2
  MaxAccounts = 3
SPECIFICATION Spec
INVARIANTS
  FileRecoverable
  FileBehind
  PathsApart
  LongPhrasesExact
