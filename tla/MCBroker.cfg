SPECIFICATION Spec
CONSTANTS
  s1 = s1
  s2 = s2
  p1 = p1
  p2 = p2
  news = news
  sport = sport
  Subscribers = {s1, s2}
  Publishers = {p1, p2}
  Topics = {news, sport}
  NoTopic = NoTopic
  Wants <- MCWants
  Posts <- MCPosts
  Leaves <- MCLeaves
  ToBroker = ToBroker
  NoPid = NoPid
  Capacity = 2
INVARIANTS
  TypeOK
  InOrderOnce
  NothingMissed
PROPERTIES
  AllArrives
CHECK_DEADLOCK FALSE
