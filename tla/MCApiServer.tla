------------------------------ MODULE MCApiServer ------------------------------
(* Small instances of ApiServer for TLC. *)
EXTENDS ApiServer, TLC

CONSTANTS alice, bob, curl, ip1, ip2, ip3

Agent(version) == [name |-> curl, version |-> version]
Entry(ip, port) == [host |-> ip, port |-> port]
Caller(id, agent, direct) ==
  [declared |-> id, agent |-> agent, direct |-> direct, forwardedFor |-> None, forwarded |-> None]

\* Two declared consumers with the same agent, forwarded by two proxies for one
\* address, and a caller without either at the first proxy's address.
TwoAddresses ==
  {[Caller(alice, Agent(1), ip1) EXCEPT !.forwardedFor = <<None, Entry(ip3, 80), Entry(ip2, 81)>>],
   [Caller(bob, Agent(2), ip2) EXCEPT !.forwarded = <<Entry(ip3, 82)>>],
   Caller(None, None, ip1)}

\* Two declared consumers behind one address, one of which moves.
SharedAddress ==
  {Caller(alice, Agent(1), ip1), Caller(bob, Agent(1), ip1), Caller(bob, Agent(1), ip2)}

HandlerSymmetry == Permutations(Handlers)
=============================================================================
