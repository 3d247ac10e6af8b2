CONSTANTS
  MaxClients = 3
  MaxFd = 2
  Backlog = 1
  epoll_num = 2
  BUFLEN = 5
  MaxLines = 2
  Lens = {1, 3}
SPECIFICATION FairSpec
INVARIANTS NeverBlocks OnlyDeadLeak 
PROPERTY EveryoneServed
CHECK_DEADLOCK FALSE
