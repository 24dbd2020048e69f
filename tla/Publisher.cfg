CONSTANTS
  c1 = c1
  c2 = c2
  c3 = c3
  A = A
  B = B
  None = None
  Channels = {c1, c2}
  NullChannel = NullChannel
  Symbols = {A, B}
  StreamIds = {1, 2}
  MaxClients = 2
  Creators = {A}
  OneStreamPerItem = {c1}
  MaxListed = 2
SPECIFICATION FairSpec
INVARIANTS TypeOK RecordsAgree WantedIsTold ToldIsWanted
 
