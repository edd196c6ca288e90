------------------------------- MODULE Sockets -------------------------------
(***************************************************************************)
(* The clients, the TCP sockets and the epoll instance, as far as the      *)
(* server sees them.  None of this is code of the repository: it is the    *)
(* environment of the reactor, modelled from the calls epollevent.c,       *)
(* connobj.c and server.c make and from what Linux does for them.          *)
(*                                                                         *)
(* A client is one TCP connection.  Unread bytes are abstracted to whether *)
(* there are any, free space in the send buffer likewise.  Closing a       *)
(* descriptor takes it out of the epoll set; descriptors are the lowest    *)
(* free ones, so they are reused.  Readiness is edge-triggered for the     *)
(* clients and level-triggered for the listening socket.                   *)
(***************************************************************************)
EXTENDS Naturals, FiniteSets, FiniteSetsExt

CONSTANTS
  Clients,     \* the connections made to the server
  Fds,         \* the descriptors left to the process for its clients
  MaxSends,    \* bound: times each client sends
  MayReset,    \* whether clients may reset their connection
  None         \* no client, no registration

ASSUME SocketAssumption ==
  /\ IsFiniteSet(Clients) /\ None \notin Clients
  /\ IsFiniteSet(Fds) /\ Fds \subseteq Nat \ {0}
  /\ MaxSends \in Nat
  /\ MayReset \in BOOLEAN

VARIABLES
  sock,        \* the server's end of every connection
  fdtab,       \* which connection a descriptor refers to
  reg,         \* what epoll_ctl registered for a descriptor
  ready        \* descriptors with an edge epoll_wait has not reported

socketVars == <<sock, fdtab, reg, ready>>

Socket ==
  [state : {"new", "backlog", "open", "closed"},
   sends : 0..MaxSends,    \* what the client may still send
   data  : BOOLEAN,        \* bytes the server has not read
   fin   : BOOLEAN,        \* the client closed its sending side
   rst   : BOOLEAN,        \* the client reset the connection
   err   : BOOLEAN,        \* SO_ERROR is pending
   room  : BOOLEAN]        \* the send buffer takes bytes

SocketsInit ==
  /\ sock = [k \in Clients |->
               [state |-> "new", sends |-> MaxSends, data |-> FALSE,
                fin |-> FALSE, rst |-> FALSE, err |-> FALSE, room |-> TRUE]]
  /\ fdtab = [f \in Fds |-> None]
  /\ reg   = [f \in Fds |-> None]
  /\ ready = {}

Backlog == {k \in Clients : sock[k].state = "backlog"}
FreeFds == {f \in Fds : fdtab[f] = None}
Open(f) == f \in Fds /\ fdtab[f] # None

\* What poll says of socket k: readable also at its end, writable also after
\* a reset, which is a hang-up.
Poll(k) ==
  LET s == sock[k]
  IN  {e \in {"IN", "OUT", "RDHUP", "HUP", "ERR"} :
         \/ e = "IN"    /\ (s.data \/ s.fin \/ s.rst)
         \/ e = "OUT"   /\ (s.room \/ s.rst)
         \/ e = "RDHUP" /\ (s.fin \/ s.rst)
         \/ e = "HUP"   /\ s.rst
         \/ e = "ERR"   /\ s.err}

\* HUP and ERR are reported whether or not they were asked for.
Wanted(f, events) == Poll(fdtab[f]) \cap (events \cup {"HUP", "ERR"})
Reportable == {f \in ready : Wanted(f, reg[f].events) # {}}

-----------------------------------------------------------------------------
(* Calls of the server.                                                    *)

sys_accept(k, f) ==
  /\ sock' = [sock EXCEPT ![k].state = "open"]
  /\ fdtab' = [fdtab EXCEPT ![f] = k]
  /\ UNCHANGED <<reg, ready>>

\* accept and close again, in one call of the server
sys_refuse(k) ==
  /\ sock' = [sock EXCEPT ![k].state = "closed"]
  /\ UNCHANGED <<fdtab, reg, ready>>

sys_close(f) ==
  /\ sock' = [sock EXCEPT ![fdtab[f]].state = "closed"]
  /\ fdtab' = [fdtab EXCEPT ![f] = None]
  /\ reg'   = [reg EXCEPT ![f] = None]
  /\ ready' = ready \ {f}

\* EPOLL_CTL_ADD and EPOLL_CTL_MOD look at the socket at once.
sys_ctl(f, event) ==
  /\ reg' = [reg EXCEPT ![f] = event]
  /\ ready' = IF Wanted(f, event.events) # {} THEN ready \cup {f} ELSE ready
  /\ UNCHANGED <<sock, fdtab>>

-----------------------------------------------------------------------------
(* Steps of the clients.                                                   *)

\* Something happened on the connection of k: its descriptor becomes ready
\* if the registration asks for one of these events.
Edge(k, events) ==
  ready' = ready \cup {f \in Fds : /\ fdtab[f] = k /\ reg[f] # None
                                   /\ events \cap (reg[f].events \cup {"HUP"}) # {}}

Alive(k) == sock[k].state \in {"backlog", "open"} /\ ~ sock[k].rst

Connect(k) ==
  /\ sock[k].state = "new"
  /\ sock' = [sock EXCEPT ![k].state = "backlog"]
  /\ UNCHANGED <<fdtab, reg, ready>>

Send(k) ==
  /\ Alive(k) /\ ~ sock[k].fin /\ sock[k].sends > 0
  /\ sock' = [sock EXCEPT ![k].data = TRUE, ![k].sends = @ - 1]
  /\ Edge(k, {"IN"})
  /\ UNCHANGED <<fdtab, reg>>

\* A FIN wakes every waiter, whatever it asked for.
Finish(k) ==
  /\ Alive(k) /\ ~ sock[k].fin
  /\ sock' = [sock EXCEPT ![k].fin = TRUE]
  /\ Edge(k, {"IN", "OUT", "RDHUP", "HUP"})
  /\ UNCHANGED <<fdtab, reg>>

Reset(k) ==
  /\ MayReset /\ Alive(k)
  /\ sock' = [sock EXCEPT ![k].rst = TRUE, ![k].err = TRUE]
  /\ Edge(k, {"IN", "OUT", "RDHUP", "HUP", "ERR"})
  /\ UNCHANGED <<fdtab, reg>>

\* The client read what the server sent.
Drain(k) ==
  /\ Alive(k) /\ ~ sock[k].room
  /\ sock' = [sock EXCEPT ![k].room = TRUE]
  /\ Edge(k, {"OUT"})
  /\ UNCHANGED <<fdtab, reg>>

ClientStep == \E k \in Clients : Connect(k) \/ Send(k) \/ Finish(k) \/ Reset(k) \/ Drain(k)

=============================================================================
