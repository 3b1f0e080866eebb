-------------------------------- MODULE MCTls --------------------------------
(* One request and its neighbours: each differs from it in one thing; and a *)
(* request that asks for what a CA has.                                     *)
EXTENDS Tls

HostA == Address("a", 16)
HostB == Address("b", 16)
Base == Request("s", List(<<"d">>), List(<<HostA, HostB>>), List(<<"server">>))
Neighbours ==
  { Base, Request("s", Nil, Nil, Nil), [Base EXCEPT !.Subject = "t"], [Base EXCEPT !.DNSNames = Nil],
    [Base EXCEPT !.DNSNames = List(<<"d", "e">>)],
    [Base EXCEPT !.IPAddresses = List(<<HostB, HostA>>)], [Base EXCEPT !.IPAddresses = List(<<HostA>>)],
    [Base EXCEPT !.IPAddresses = List(<<Address("a", 4), HostB>>)],
    [Base EXCEPT !.DNSNames = List(<<>>)],
    [Base EXCEPT !.ExtKeyUsage = List(<<"client">>)] }
==============================================================================
