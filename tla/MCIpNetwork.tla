----------------------------- MODULE MCIpNetwork -----------------------------
(* Small networks: a ring of three with unequal numbers of hosts, and four *)
(* switches whose links come in no order, one of them with three links.    *)
EXTENDS IpNetwork

MCNetworks ==
    { [hosts |-> <<1, 2, 0>>, links |-> << <<1, 2>>, <<2, 3>>, <<3, 1>> >>],
      [hosts |-> <<1, 1, 1, 1>>,
       links |-> << <<3, 2>>, <<1, 2>>, <<2, 4>>, <<4, 3>> >>],
      [hosts |-> <<2>>, links |-> <<>>] }
==============================================================================
