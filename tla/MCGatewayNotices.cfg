\* Two sessions in the home channel of one platform, another platform, three
\* processes.
CONSTANTS
    s1 = s1
    s2 = s2
    group = group
    home = home
    far = far
    p = p
    q = q
    NoChat = NoChat
    Sessions <- MCSessions
    Chats <- MCChats
    Platforms <- MCPlatforms
    ChatOf <- MCChatOf
    PlatformOf <- MCPlatformOf
    HomeOf <- MCHomeOf
    Silenced = {}
    UpdateChat = group
    MaxLives = 3
SPECIFICATION NoticesSpec
INVARIANTS
  ResultNotLost
  AnswersAQuestion
  ToldOnce
  InChatStaysInChat
CHECK_DEADLOCK FALSE
