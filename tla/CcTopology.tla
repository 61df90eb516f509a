----------------------------- MODULE CcTopology -----------------------------
(***************************************************************************)
(* ccTopology: the tree of hardware objects of this host, read from hwloc, *)
(* and the copy of it that another host rebuilds from JSON.  hwloc (not    *)
(* under src) is a configuration c: packages with cores with threads, NUMA *)
(* nodes that are memory children of the machine, of the packages or of    *)
(* groups below them, and one PCI device.  An object of hwloc is a tuple   *)
(* that starts with its type.                                              *)
(***************************************************************************)
EXTENDS Component, Integers, SequencesExt

Many(n, Op(_)) == [i \in 1..n |-> Op(i)]
HasGroups(c) == c.numa = "group"

HwChildren(c, o) ==   \* external: arity and children
  LET cores(p) == Many(c.cores, LAMBDA k : <<"core", p, k>>) IN
    CASE o[1] = "machine" -> Many(c.packages, LAMBDA p : <<"package", p>>)
      [] o[1] = "package" -> IF HasGroups(c) THEN <<<<"group", o[2]>>>> ELSE cores(o[2])
      [] o[1] = "group" -> cores(o[2])
      [] o[1] = "core" -> Many(c.threads, LAMBDA t : <<"pu", o[2], o[3], t>>)
      [] OTHER -> <<>>

HwMemory(c, o) ==   \* external: memory_arity and memory children
  CASE o[1] = c.numa -> <<<<"numa", IF o[1] = "machine" THEN 1 ELSE o[2]>>>>
    [] OTHER -> <<>>

HwNumas(c) ==   \* external: hwloc_get_obj_by_depth, with the parent
  IF c.numa = "machine" THEN <<<<"numa", 1>>>>
  ELSE Many(c.packages, LAMBDA p : <<"numa", p>>)
HwParent(c, o) == IF c.numa = "machine" THEN <<"machine">> ELSE <<c.numa, o[2]>>

Pci == <<"pci", 0>>
OsDevice == <<"osdev", 0>>   \* its parent is the PCI device

Id(c, o) ==
  CASE o[1] = "pu" -> ((o[2] - 1) * c.cores + o[3] - 1) * c.threads + o[4] - 1
    [] o[1] = "core" -> o[3] - 1
    [] o[1] \in {"package", "numa", "group"} -> o[2] - 1
    [] OTHER -> 0

CpuSet(c, node) ==   \* external: the threads of a NUMA node
  {Id(c, <<"pu", p, k, t>>) : p \in (IF c.numa = "machine" THEN 1..c.packages
                                     ELSE {node + 1}),
                              k \in 1..c.cores, t \in 1..c.threads}

(* An object points to the one of hwloc, of which only the set of threads  *)
(* of a NUMA node is read later.                                           *)
NULL == {}
Dummy == [type |-> "max", id |-> 0, children |-> <<>>, memory |-> <<>>, cpuset |-> NULL]
ConvertObject(c, o) ==
  [type |-> o[1], id |-> Id(c, o), children |-> <<>>, memory |-> <<>>,
   cpuset |-> IF o[1] = "numa" THEN CpuSet(c, Id(c, o)) ELSE NULL]

(* Only PCI devices of two classes are kept. *)
SkipPciDevice(c, o) == o[1] = "pci" /\ ~c.pciKept
-----------------------------------------------------------------------------
(* Traversing an object gives the object and what is appended to the list  *)
(* of all objects meanwhile: the object itself comes after those below it. *)
RECURSIVE TraverseObject(_, _)

Listed(c, objs) == [i \in DOMAIN objs |-> TraverseObject(c, objs[i])]
Unlisted(c, objs) ==
  [i \in DOMAIN objs |-> [obj |-> ConvertObject(c, objs[i]), listed |-> <<>>]]

AdditionalMachineOps(c) ==
  Unlisted(c, (IF c.pciKept /\ c.pciNode < 0 THEN <<Pci>> ELSE <<>>) \o <<OsDevice>>)
AdditionalPackageOps(c, o) ==
  Listed(c, SelectSeq(HwNumas(c), LAMBDA n : HwParent(c, n) = o))
AdditionalNumaOps(c, o) ==
  Unlisted(c, IF c.pciKept /\ c.pciNode = Id(c, o) THEN <<Pci>> ELSE <<>>)

TraverseObject(c, o) ==
  LET kids == Listed(c, HwChildren(c, o))
      memory == Listed(c, HwMemory(c, o))
      more == CASE o[1] = "machine" -> AdditionalMachineOps(c)
                [] o[1] = "package" -> AdditionalPackageOps(c, o)
                [] o[1] = "numa" -> AdditionalNumaOps(c, o)
                [] OTHER -> <<>>
      Objs(s) == [i \in DOMAIN s |-> s[i].obj]
      obj == [ConvertObject(c, o) EXCEPT !.children = Objs(kids \o more),
                                         !.memory = Objs(memory)]
      below == kids \o memory \o more
  IN IF SkipPciDevice(c, o) THEN [obj |-> Dummy, listed |-> <<>>]
     ELSE [obj |-> obj,
           listed |-> Append(FlattenSeq([i \in DOMAIN below |-> below[i].listed]), obj)]

LocalTopology(c) ==
  LET t == TraverseObject(c, <<"machine">>)
  IN [root |-> t.obj, objects |-> t.listed]

RECURSIVE AddObjectChildren(_)
AddObjectChildren(o) ==   \* mutant: the memory children are forgotten
  <<o>> \o FlattenSeq([i \in DOMAIN o.children |-> AddObjectChildren(o.children[i])])

RECURSIVE AddObject(_)
AddObject(o) ==
  LET below == o.children \o o.memory
  IN <<o>> \o FlattenSeq([i \in DOMAIN below |-> AddObject(below[i])])

(* JSON has no fields of the structures of C: the pointer is NULL then.    *)
RECURSIVE Unmarshalled(_)
Unmarshalled(o) ==
  [o EXCEPT !.children = [i \in DOMAIN @ |-> Unmarshalled(@[i])],
            !.memory = [i \in DOMAIN @ |-> Unmarshalled(@[i])],
            !.cpuset = NULL]

RemoteTopology(root) == [root |-> Unmarshalled(root), objects |-> AddObject(Unmarshalled(root))]
-----------------------------------------------------------------------------
ObjectIds(objects) == [i \in DOMAIN objects |-> objects[i].id]
OfType(objects, type) == SelectSeq(objects, LAMBDA o : o.type = type)
GetTypeObjectIds(t, type) == ObjectIds(OfType(t.objects, type))

RECURSIVE GetChildrenIdsOfType(_, _)
GetChildrenIdsOfType(o, type) ==
  (IF o.type = type THEN <<o.id>> ELSE <<>>)
  \o FlattenSeq([i \in DOMAIN o.children |-> GetChildrenIdsOfType(o.children[i], type)])

GetDies(t) ==
  IF GetTypeObjectIds(t, "die") = <<>> THEN GetTypeObjectIds(t, "package")
  ELSE GetTypeObjectIds(t, "die")

GetPciDevices(t) ==
  LET owners == SelectSeq(t.objects,
                  LAMBDA o : o.type \in {"machine", "package", "die", "numa"})
  IN FlattenSeq([i \in DOMAIN owners |-> ObjectIds(OfType(owners[i].children, "pci"))])

GetHwthreadsOfSocket(t, socket) ==
  LET sockets == SelectSeq(t.objects, LAMBDA o : o.type = "package" /\ o.id = socket)
  IN FlattenSeq([i \in DOMAIN sockets |-> GetChildrenIdsOfType(sockets[i], "pu")])

GetNumaNodeOfPciDevice(t) ==
  LET nodes == SelectSeq(t.objects, LAMBDA o : o.type = "numa"
                                               /\ OfType(o.children, "pci") # <<>>)
  IN IF nodes = <<>> THEN -1 ELSE nodes[1].id

(* The threads of every NUMA node are looked up, whatever node is asked    *)
(* for, until there are as many as a node has.  hwloc_bitmap_weight reads  *)
(* the set through its pointer.                                            *)
Crash == <<-1>>

RECURSIVE Collect(_, _, _)
Collect(pus, set, out) ==
  LET found == IF pus # <<>> /\ Head(pus) \in set THEN Append(out, Head(pus)) ELSE out
  IN IF pus = <<>> \/ Len(found) = Cardinality(set) THEN found
     ELSE Collect(Tail(pus), set, found)

GetHwthreadsOfMemoryDomain(t, memoryDomain) ==
  LET nodes == OfType(t.objects, "numa") IN
    IF \E i \in DOMAIN nodes : nodes[i].cpuset = NULL THEN Crash
    ELSE FoldLeft(LAMBDA out, node :
                    Collect(GetTypeObjectIds(t, "pu"), node.cpuset, out),
                  <<>>, nodes)

CpuInfo(t) ==
  LET Count(type) == Len(GetTypeObjectIds(t, type)) IN
    [threads |-> Count("pu"), smt |-> Count("pu") \div Count("core"),
     sockets |-> Count("package"), dies |-> Len(GetDies(t)),
     cores |-> Count("core"), domains |-> Count("numa")]
-----------------------------------------------------------------------------
CcTopologyInit ==
  \E c \in [packages : 1..2, cores : 1..3, threads : 1..2, pciKept : BOOLEAN,
            numa : {"machine", "package", "group"}, pciNode : -1..1] :
    st = [kind |-> "hwloc", machine |-> c, topology |-> LocalTopology(c)]

(* A host sends its topology as JSON, the tree without the list, and the   *)
(* next one rebuilds it.                                                   *)
SendTopology ==
  /\ Is("hwloc")
  /\ st' = [st EXCEPT !.topology = RemoteTopology(@.root)]
-----------------------------------------------------------------------------
(* A topology that is rebuilt from JSON, whose list of objects comes about *)
(* in another order, answers every question as the topology of the host    *)
(* does, however often it was sent, but for one: the threads of a memory   *)
(* domain are read through a pointer that JSON does not carry, so that a   *)
(* copy ends the program.  The threads of the sockets are all threads,     *)
(* each once; those of a memory domain of the host hold the first one's,   *)
(* whichever is asked for (traverseObject, addObject and the queries).     *)
CopiesAnswerAlike ==
  Is("hwloc") =>
    LET here == LocalTopology(st.machine)
        copy == st.topology
    IN /\ \A type \in {"pu", "core", "package", "numa", "die"} :
            GetTypeObjectIds(here, type) = GetTypeObjectIds(copy, type)
       /\ CpuInfo(here) = CpuInfo(copy)
       /\ GetPciDevices(here) = GetPciDevices(copy)
       /\ GetNumaNodeOfPciDevice(here) = GetNumaNodeOfPciDevice(copy)
       /\ GetTypeObjectIds(here, "pu") =
            FlattenSeq([p \in 1..st.machine.packages |-> GetHwthreadsOfSocket(copy, p - 1)])
       /\ \A d \in ToSet(GetTypeObjectIds(here, "numa")) :
            /\ CpuSet(st.machine, 0) \subseteq ToSet(GetHwthreadsOfMemoryDomain(here, d))
            /\ GetHwthreadsOfMemoryDomain(copy, d) =
                 IF copy = here THEN GetHwthreadsOfMemoryDomain(here, d) ELSE Crash
=============================================================================
