CONSTANT LobbyIds <- MCOneLobby
SPECIFICATION Spec
CHECK_DEADLOCK FALSE
INVARIANT CheckinSendIsNonBlocking
