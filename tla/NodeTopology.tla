---------------------------- MODULE NodeTopology ----------------------------
(***************************************************************************)
(* schema/cluster.go: which sockets, cores and memory domains the threads  *)
(* of a job are on.  A topology gives each of them the sequence of its     *)
(* hardware threads; threads are numbered from 0, all others from 1.       *)
(***************************************************************************)
EXTENDS Component, Integers, SequencesExt

Of(parts, t) == {p \in DOMAIN parts : t \in ToSet(parts[p])}

(* InitTopologyMaps: the maps from the threads upward. *)
CoreToSocket(topo, c) == UNION {Of(topo.socket, t) : t \in ToSet(topo.core[c])}
CoresPerSocket(topo, s) == {c \in DOMAIN topo.core : s \in CoreToSocket(topo, c)}

(* An id without threads, or whose first thread is on no socket, has       *)
(* none; {} stands for no entry in memoryDomainToSocket.                   *)
MemoryDomainToSocket(topo, d) ==
  IF d \notin DOMAIN topo.memoryDomain \/ topo.memoryDomain[d] = <<>> THEN {}
  ELSE LET sockets == Of(topo.socket, topo.memoryDomain[d][1]) IN
         IF sockets = {} THEN {} ELSE {Min(sockets)}

(* The parts that a list has members of, and whether it has as many of     *)
(* each as there are.                                                      *)
Ids(list, Parts(_), Size(_)) ==
  LET ids == UNION {Parts(list[i]) : i \in DOMAIN list} IN
    [ids |-> ids,
     exclusive |-> \A p \in ids :
                     Cardinality({i \in DOMAIN list : p \in Parts(list[i])}) = Size(p)]

GetFromHWThreads(parts, hwthreads) ==
  Ids(hwthreads, LAMBDA t : Of(parts, t), LAMBDA p : Len(parts[p]))

GetSocketsFromHWThreads(topo, hwthreads) == GetFromHWThreads(topo.socket, hwthreads)
GetCoresFromHWThreads(topo, hwthreads) == GetFromHWThreads(topo.core, hwthreads)
GetMemoryDomainsFromHWThreads(topo, hwthreads) ==
  GetFromHWThreads(topo.memoryDomain, hwthreads)

GetSocketsFromCoresOwn(topo, cores) ==   \* mutant: the threads of the socket are counted
  Ids(cores, LAMBDA c : CoreToSocket(topo, c), LAMBDA s : Len(topo.socket[s]))

GetSocketsFromCores(topo, cores) ==
  Ids(cores, LAMBDA c : CoreToSocket(topo, c),
      LAMBDA s : Cardinality(CoresPerSocket(topo, s)))

GetMemoryDomainsBySocket(topo, domains) ==
  IF \E i \in DOMAIN domains : MemoryDomainToSocket(topo, domains[i]) = {}
  THEN [ok |-> FALSE]
  ELSE [ok |-> TRUE,
        groups |-> [s \in UNION {MemoryDomainToSocket(topo, domains[i]) :
                                   i \in DOMAIN domains} |->
                      Only(domains, {d \in ToSet(domains) :
                                       MemoryDomainToSocket(topo, d) = {s}})]]

Sockets == {<<<<0, 1, 2, 3>>>>, <<<<0, 1>>, <<2, 3>>>>, <<<<0, 2>>, <<3, 1>>>>, <<<<0>>, <<2, 3>>>>}
Domains == Sockets \cup {<<<<>>, <<3, 2>>, <<0, 1>>>>}
Lists(S) ==
  {<<0, 1, 2, 3>>}
  \cup UNION {{q \in [1..n -> S] : \A i, j \in 1..n : q[i] = q[j] => i = j} : n \in 0..3}

TopologyInit ==
  \E s \in Sockets, c \in {<<<<0>>, <<1>>, <<2>>, <<3>>>>, <<<<0, 1>>, <<2, 3>>>>,
                           <<<<0, 2>>, <<1, 3>>>>},
     d \in Domains, list \in Lists(0..3) :
    st = [kind |-> "topology", topo |-> [socket |-> s, core |-> c, memoryDomain |-> d],
          list |-> list]
-----------------------------------------------------------------------------
(* A job is called exclusive on the parts it uses only when it has all     *)
(* their threads, and the answers agree: the cores of its threads are on   *)
(* the sockets of its threads, and have them for themselves when it does.  *)
(* Domains are grouped without loss (the topology maps; a list names no    *)
(* thread twice).                                                          *)
ExclusiveIsAll ==
  Is("topology") =>
    LET topo == st.topo
        job == ToSet(st.list)
        sockets == GetSocketsFromHWThreads(topo, st.list)
        cores == GetCoresFromHWThreads(topo, st.list)
        domains == GetMemoryDomainsFromHWThreads(topo, st.list)
        viaCores == GetSocketsFromCores(topo, SetToSeq(cores.ids))
        groups == GetMemoryDomainsBySocket(topo, SetToSeq(domains.ids))
        All(parts, r) == r.exclusive <=> \A p \in r.ids : ToSet(parts[p]) \subseteq job
    IN /\ All(topo.socket, sockets) /\ All(topo.core, cores)
       /\ All(topo.memoryDomain, domains)
       /\ sockets.ids \subseteq viaCores.ids
       /\ sockets.exclusive /\ viaCores.ids = sockets.ids => viaCores.exclusive
       /\ groups.ok =>
            \A d \in domains.ids :
              \E s \in DOMAIN groups.groups :
                /\ d \in ToSet(groups.groups[s])
                /\ ToSet(topo.memoryDomain[d]) \cap ToSet(topo.socket[s]) # {}
=============================================================================
