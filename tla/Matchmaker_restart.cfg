CONSTANTS
  alice = alice
  bob = bob
  lobby = lobby
  Blank = blank
  blank = blank
  Usernames <- MCUsernames
  LobbyNames <- MCLobbyNames
  TokenLife = 2
  TicksPerSecond = 2
  MaxTime = 4
  MaxUsers = 2
  MaxLobbies = 2
  MaxRestarts = 1
SPECIFICATION Spec
INVARIANTS
  NoTokenOutlivesSession
PROPERTIES
  ExpiredSessionIsRemoved
  ImplementsDirectory
