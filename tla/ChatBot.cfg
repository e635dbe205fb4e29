SPECIFICATION FairSpec
CONSTANTS
  p1 = p1
  p2 = p2
  p3 = p3
  academico = academico
  wikipedia = wikipedia
  Posts = {p1, p2, p3}
  Bot <- BotOf
  Others = {o1}
  Bots = {academico, wikipedia}
  Gateways = 2
  None = None
INVARIANT TypeOK
INVARIANT WholeExchanges
INVARIANT HistorySequential
INVARIANT KeptUnlessOverlapped
INVARIANT HeardAsAnswered
PROPERTY PostsEnd
