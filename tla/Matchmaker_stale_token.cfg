CONSTANTS
  alice = alice
  bob = bob
  lobby = lobby
  Blank = blank
  blank = blank
  Usernames <- MCUsernames
  LobbyNames <- MCLobbyNames
  TokenLife = 2
  TicksPerSecond = 1
  MaxTime = 3
  MaxUsers = 2
  MaxLobbies = 2
  MaxRestarts = 1
SPECIFICATION Spec
INVARIANT TokenNamesItsUser
