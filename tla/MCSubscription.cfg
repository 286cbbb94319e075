\* Three servers: display names that may collide, one that looks like a numbered
\* one, and every odd URI.
SPECIFICATION Spec
CONSTANTS
  Accounts = {u1}
  Servers = {s1, s2, s3}
  Names <- SomeNames
  NoURI = NoURI
  s1 = s1
  Links <- SomeLinks
INVARIANTS TypeOK ListMatches NamesDistinct ProxiesComplete
PROPERTIES OnlyNamesakesMove
