------------------------------ MODULE MCReactor ------------------------------
(* Model-checking instance of the reactor.                                 *)
EXTENDS Reactor

\* Clients, ConnObjs and data threads are interchangeable; used by safety
\* runs only.
Interchangeable == Permutations(Clients) \cup Permutations(Conns) \cup Permutations(Senders)
=============================================================================
