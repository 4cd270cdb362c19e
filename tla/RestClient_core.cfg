CONSTANT LobbyIds <- MCLobbyIds
SPECIFICATION Spec
CHECK_DEADLOCK FALSE
INVARIANTS
  TypeOK
  CheckinFollowsConnection
  ConnectedOnlyWithRelay
  RequestsCarryToken
  RelayStopsWithLink
PROPERTIES
  MutexIsReleased
  LoggedInClientChecksIn
  ImplementsClientView
