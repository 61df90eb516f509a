-------------------------- MODULE ReceiverConfigs --------------------------
(***************************************************************************)
(* What NewRedfishReceiver and NewIPMIReceiver make of a configuration: a  *)
(* setting of a client entry goes before the one for all, and every entry  *)
(* is unfolded to its hosts.  Decoding JSON and durations is left out.     *)
(***************************************************************************)
EXTENDS Component, HostList, Integers, FiniteSets

Failed == [ok |-> FALSE]

(* A setting is a sequence of at most one value.  An entry has settings,   *)
(* the parts it disables, the metrics it excludes, its hosts, and options  *)
(* for ipmi-sensors.                                                       *)
Setting(cfg, c, name) == c[name] \o cfg[name]
HasSettings(cfg, c) ==
  \A name \in {"endpoint", "username", "password"} : Setting(cfg, c, name) # <<>>

ExcludedOwn(cfg, c) == c.exclude   \* mutant: the list for all clients is lost
IsExcluded(cfg, c) == cfg.exclude \cup c.exclude

(* strings.ReplaceAll(pattern, "%h", host): not every pattern has a %h. *)
Address(pattern, host) ==
  IF pattern.perHost THEN <<pattern.name, host>> ELSE <<pattern.name>>

RedfishPart == {"sensors", "thermal", "power", "processor"}

RedfishClient(cfg, c, host) ==
  [hostname |-> host,
   endpoint |-> Address(Head(Setting(cfg, c, "endpoint")), host),
   username |-> Head(Setting(cfg, c, "username")),
   password |-> Head(Setting(cfg, c, "password")),
   do |-> RedfishPart \ (cfg.disable \cup c.disable), excluded |-> IsExcluded(cfg, c)]

(* The number of clients, and that no host is named by two entries: within *)
(* an entry Expand has removed duplicates.                                 *)
NumClients(hosts) ==
  Cardinality(UNION {{i} \X hosts[i] : i \in DOMAIN hosts})
IsDuplicate(hosts) == \E i, j \in DOMAIN hosts : i # j /\ hosts[i] \cap hosts[j] # {}

NewRedfishReceiver(cfg) ==
  LET entries == DOMAIN cfg.clients
      hosts == [i \in entries |-> Expand(cfg.clients[i].hosts)]
      number == NumClients(hosts)
  IN IF \/ \E i \in entries : \/ ~HasSettings(cfg, cfg.clients[i])
                              \/ ~IsHostList(cfg.clients[i].hosts)
        \/ number = 0
        \/ IsDuplicate(hosts)
     THEN Failed
     ELSE [ok |-> TRUE,
           clients |-> UNION {{RedfishClient(cfg, cfg.clients[i], h) : h \in hosts[i]} :
                                i \in entries},
           fanout |-> IF number < cfg.fanout THEN number ELSE cfg.fanout]

-----------------------------------------------------------------------------
(* Options that set what the receiver sets itself.  The long form of       *)
(* fanout is looked for with a leading blank and so is never found.        *)
Reserved == {"-u", "--username", "-p", "--password", "-h", "--hostname", "-D",
             "--driver-type", "-F", "--fanout", "--always-prefix",
             "--comma-separated-output", "--no-header-output"}
Refused == Reserved \ {"--fanout"}

(* IPMI2HostMapping: where several hosts share an address, one of them is  *)
(* left over (the last in the order of Expand; here any).                  *)
Mapping(pattern, hosts) ==
  [a \in {Address(pattern, h) : h \in hosts} |->
     CHOOSE h \in hosts : Address(pattern, h) = a]

DriverType(cfg, c) == IF c.driver # "" THEN c.driver ELSE cfg.driver

IpmiClient(cfg, c) ==
  [mapping |-> Mapping(Head(Setting(cfg, c, "endpoint")), Expand(c.hosts)),
   username |-> Head(Setting(cfg, c, "username")),
   password |-> Head(Setting(cfg, c, "password")),
   fanout |-> IF c.fanout # 0 THEN c.fanout ELSE cfg.fanout,
   driver |-> DriverType(cfg, c), options |-> c.options,
   excluded |-> IsExcluded(cfg, c)]

NewIPMIReceiver(cfg) ==
  LET entries == {cfg.clients[i] : i \in DOMAIN cfg.clients} IN
    IF \/ \E c \in entries : \/ ~HasSettings(cfg, c)
                             \/ DriverType(cfg, c) \notin {"LAN", "LAN_2_0"}
                             \/ ~Head(Setting(cfg, c, "endpoint")).protocol
                             \/ ~IsHostList(c.hosts)
                             \/ c.options \cap Refused # {}
       \/ \A c \in entries : Expand(c.hosts) = {}
    THEN Failed
    ELSE [ok |-> TRUE, clients |-> {IpmiClient(cfg, c) : c \in entries}]
-----------------------------------------------------------------------------
Ends == {Number(0, 1), Number(8, 1), Number(8, 2), Number(9, 2), Number(10, 2),
         Number(11, 3)}
Ranges == [lo : Ends, hi : Ends]
PartOf(ranges) == [prefix |-> "n", ranges |-> ranges, suffix |-> ""]
HostLists ==
  {<<>>, <<PartOf(<<>>)>>} \cup {<<PartOf(<<r>>)>> : r \in Ranges}
  \cup {<<PartOf(<<[lo |-> Number(8, 1), hi |-> Number(9, 1)], r>>)>> : r \in Ranges}
Pattern == [name |-> "p", perHost |-> TRUE, protocol |-> TRUE]
Entry ==
  [endpoint : {<<>>, <<[Pattern EXCEPT !.perHost = FALSE]>>},
   username : {<<"own">>}, password : {<<>>, <<"own">>},
   disable : {{}, {"power"}}, exclude : {{}, {"m"}}, hosts : HostLists,
   driver : {"", "LAN", "OTHER"}, fanout : {0, 3},
   options : {{}, {"-x"}, {"--username"}, {"--fanout"}}]
Other == [endpoint |-> <<>>, username |-> <<>>, password |-> <<>>, disable |-> {},
          exclude |-> {}, driver |-> "", fanout |-> 0, options |-> {},
          hosts |-> <<PartOf(<<[lo |-> Number(8, 1), hi |-> Number(8, 1)]>>)>>]

Patterns == {<<>>, <<Pattern>>, <<[Pattern EXCEPT !.protocol = FALSE]>>}
Fanouts == {-1, 0, 1, 2}
ConfigOf(p, fanout, clients) ==
  [endpoint |-> p, username |-> <<"all">>, password |-> <<"all">>, disable |-> {"thermal"},
   exclude |-> {"all"}, fanout |-> fanout, driver |-> "LAN_2_0", clients |-> clients]

ConfigInit ==
  \E kind \in {"newRedfish", "newIpmi"}, c \in Entry, p \in Patterns,
     more \in {<<>>, <<Other>>}, fanout \in Fanouts :
    /\ kind = "newRedfish" => c.driver = "" /\ c.fanout = 0 /\ c.options = {}
    /\ kind = "newIpmi" => c.disable = {} /\ c.endpoint = <<>> /\ fanout = 2
    /\ st = [kind |-> kind, cfg |-> ConfigOf(p, fanout, <<c>> \o more)]
-----------------------------------------------------------------------------
(* What the pool of workers relies on: every host of the list is polled by *)
(* exactly one client, and what is disabled or excluded for all is so for  *)
(* every host; there are not more workers than hosts, and at least one     *)
(* exactly if the configuration asks for one: a fanout of 0 or less is not *)
(* refused and leaves nobody who polls (NewRedfishReceiver).               *)
RedfishConfigIsSound ==
  Is("newRedfish") =>
    LET r == NewRedfishReceiver(st.cfg) IN
      r.ok => /\ {c.hostname : c \in r.clients}
                   = UNION {Expand(st.cfg.clients[i].hosts) : i \in DOMAIN st.cfg.clients}
              /\ \A c, d \in r.clients : c.hostname = d.hostname => c = d
              /\ r.fanout <= Cardinality(r.clients)
              /\ r.fanout >= 1 <=> st.cfg.fanout >= 1
              /\ \A c \in r.clients : /\ st.cfg.disable \cap c.do = {}
                                      /\ st.cfg.exclude \subseteq c.excluded

(* What an address answers is reported for a host of the same entry that   *)
(* has that address, and where hosts have addresses of their own none is   *)
(* left without one (NewIPMIReceiver, IPMI2HostMapping).                   *)
AnswersFindTheirHost ==
  Is("newIpmi") =>
    LET r == NewIPMIReceiver(st.cfg) IN
      r.ok => \A c \in r.clients : \E i \in DOMAIN st.cfg.clients :
                LET e == st.cfg.clients[i]
                    pattern == Head(Setting(st.cfg, e, "endpoint"))
                IN /\ \A a \in DOMAIN c.mapping :
                        /\ c.mapping[a] \in Expand(e.hosts)
                        /\ Address(pattern, c.mapping[a]) = a
                   /\ pattern.perHost => \A h \in Expand(e.hosts) :
                        \E a \in DOMAIN c.mapping : c.mapping[a] = h

(* Padding is kept: the hosts of a list whose lower end starts with zero   *)
(* have numbers of that width, one for every number of the range, so that  *)
(* the sorted names are in the order of the numbers (hostlist.Expand).     *)
PaddingIsKept ==
  st.kind \in {"newRedfish", "newIpmi"} =>
    \A i \in DOMAIN st.cfg.clients : \A k \in DOMAIN st.cfg.clients[i].hosts :
      LET part == st.cfg.clients[i].hosts[k] IN
        IsHostList(<<part>>) =>
          \A j \in DOMAIN part.ranges :
            LET r == part.ranges[j]
                hosts == RangeHosts(part, r)
            IN /\ Cardinality(hosts) = r.hi.value - r.lo.value + 1
               /\ StartsWithZero(r.lo) =>
                    \A h \in hosts : h.number.width = r.lo.width

(* The configurations that the constructors accept, and the lists of hosts *)
(* in them, are what the rounds of the receivers rely on.                  *)
ConfigsAreSound == RedfishConfigIsSound /\ AnswersFindTheirHost /\ PaddingIsKept
=============================================================================
