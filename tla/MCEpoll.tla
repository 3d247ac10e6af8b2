------------------------------- MODULE MCEpoll -------------------------------
(* Three runs of the client, room for two connections, and two events per    *)
(* epoll_wait, so that events wait for one another.                          *)
EXTENDS Epoll
=============================================================================
