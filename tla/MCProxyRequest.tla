---------------------------- MODULE MCProxyRequest ----------------------------
(* Bytes of three bits: a domain name of six or seven bytes makes a text    *)
(* of eight or nine, too long for its length byte.                          *)
EXTENDS ProxyRequest

CONSTANTS a, b, c

MCRoutes == {<<a>>, <<a, b, c>>}

Asks(cmd, type, host) ==
  [methods |-> <<2, 0>>, cmd |-> cmd, atyp |-> type, host |-> host,
   port |-> <<0, 7>>, data |-> <<6, 5>>]

MCClients ==
  {Asks(1, 1, <<1, 0, 0, 1>>), 
   [Asks(1, 4, [i \in 1 .. 16 |-> i % 3]) EXCEPT !.methods = <<0>>, !.data = <<>>],
   Asks(1, 3, <<2>>), Asks(1, 3, <<1, 2, 3, 4, 5, 6>>),
   Asks(1, 3, <<1, 2, 3, 4, 5, 6, 7>>), Asks(2, 3, <<2>>), Asks(1, 2, <<2>>),
   [Asks(1, 3, <<2>>) EXCEPT !.methods = <<2>>],
   [Asks(1, 3, <<2>>) EXCEPT !.methods = <<>>]}
=============================================================================
