SPECIFICATION HistorySpec
CONSTANTS
    telegram = telegram
    user = user
    webUser = webUser
    chat1 = chat1
    chat2 = chat2
    ticalChat = ticalChat
    Sessions = {telegram, user, webUser}
    Chats = {chat1, chat2, ticalChat}
    Routes <- MCBoth
    Keep = 3
    LoadLimit = 4
    MaxActive = 1
    MaxRounds = 1
    StoreFails = TRUE
    MaxTurns = 3
SYMMETRY
    Symmetry
INVARIANTS
    SeesItsMessage
PROPERTIES
    StoredWhileItFits
    AppendsOnlyNew
