CONSTANTS
  alice = alice
  bob = bob
  lobby = lobby
  Blank = blank
  blank = blank
  None = None
  Me = alice
  Usernames <- MCUsernames
  LobbyNames <- MCLobbyNames
  TokenLife = 1
  TicksPerSecond = 1
  MaxTime = 2
  MaxUsers = 3
  MaxLobbies = 1
  MaxRestarts = 0
SPECIFICATION SessionSpec
INVARIANTS
  SessionTypeOK
  ViewMatchesServer
  RelaysAgree
PROPERTIES
  ViewCatchesUp
  ImplementsClientView
