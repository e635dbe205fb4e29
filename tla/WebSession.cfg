SPECIFICATION Spec
CONSTANTS
  Tabs = {a, b}
  Keys = {k1}
  None = None
  Chats <- MCChats
  Channels <- MCChannels
  Titles <- MCTitles
  Threads <- MCThreads
  ChannelLists <- MCChannelLists
  ThreadLists <- MCThreadLists
SYMMETRY MCSymmetry
INVARIANTS TypeOK OneLogin LoggedOut BuiltInOrder ActsWhereShown
