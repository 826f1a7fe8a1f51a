SPECIFICATION HistorySpec
CONSTANTS
    telegram = telegram
    user = user
    webUser = webUser
    chat1 = chat1
    chat2 = chat2
    ticalChat = ticalChat
    Sessions = {telegram}
    Chats = {chat1}
    Routes <- MCOneChat
    Keep = 3
    LoadLimit = 5
    MaxActive = 1
    MaxRounds = 0
    StoreFails = FALSE
    MaxTurns = 6
PROPERTY
    EveryTurnStored
