---------------------------- MODULE MCReceivers ----------------------------
(* Constants of the run receivers. *)
EXTENDS ReceiversProps

\* One worker, and a channel to it that holds one of the two hosts; a worker
\* for each host; a list that has to be refused; IPMI; two receivers that are
\* closed one after the other; a pool without workers, and one that cannot be
\* made.
MCConfig ==
  LET Of(r, h, f, n) == [receivers |-> r, hosts |-> h, fanout |-> f,
                         readings |-> n] IN
  {Of({"redfish"}, <<"h1", "h2">>, 1, 1),
   Of({"redfish"}, <<"h1", "h2">>, 4, 1),
   Of({"redfish"}, <<"h1", "h1">>, 2, 1),
   Of({"ipmi"}, <<"h1">>, 1, 2),
   Of({"redfish", "ipmi"}, <<"h1">>, 1, 0),
   Of({"redfish"}, <<"h1">>, 0, 1),
   Of({"redfish", "ipmi"}, <<"h1">>, -1, 0)}
=============================================================================
