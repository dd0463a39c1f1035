-------------------------- MODULE IncrementalRoute --------------------------
(***************************************************************************)
(* Incremental global routing (src/grt/src/GlobalRouter.cpp) on top of the *)
(* netlist of dbNetlist: GlobalRouter keeps a Net with its own copy of the *)
(* pins of every net it routes, and the routes; while an IncrementalGRoute *)
(* exists, the callbacks of the block mark nets dirty, and updateRoutes()  *)
(* reroutes those.  The routing of a net is abstracted to the pins that it *)
(* connects.  Resizer and AntennaRepair create and destroy the             *)
(* IncrementalGRoute; between two of them anybody edits the netlist.       *)
(***************************************************************************)
EXTENDS dbNetlist

CONSTANTS
  Designs,    \* blocks that the program may have read
  Moves,      \* places an instance may be moved to
  MaxEdits    \* bound: calls that change the block, and those that throw

ASSUME DesignsAssumption == \A b \in Designs : Sound(b)

ASSUME MaxEditsAssumption == MaxEdits \in Nat

VARIABLES
  db_net_map,     \* the pins of the Net of every dbNet, or NoNet
  dirty_nets,     \* nets to be rerouted
  routes,         \* the pins that the route of every dbNet connects
  kind,           \* whether addNet() skips the net: special, or with wires
  registered,     \* an IncrementalGRoute exists
  missed,         \* nets that were changed without being marked, or that a
                  \* globalRoute() which threw did not read, since they were routed
  skipped,        \* nets that addNet() skipped in the last globalRoute()
  failed,         \* the last globalRoute() threw
  crashed,        \* updateDirtyNets() used a null or a dangling pointer
  edits           \* calls that changed the block or threw

grt == <<db_net_map, dirty_nets, routes, kind, registered, missed, skipped, failed, crashed>>

NoPin == <<Null, << >>>>
NoNet == {NoPin}
Kinds == {"signal", "special", "wired"}

\* makeItermPins(), makeBtermPins(): a pin is where its instance puts it.
Place(b, t) ==
  IF t \in BTerms THEN << >>
  ELSE BBox(b, CHOOSE i \in Insts : t \in Elements(b.iterms[i]))

Pins(b, n) == {<<t, Place(b, t)>> : t \in {u \in Terms : b.links.net[u] = n}}

Routable(pins) == Cardinality(pins) > 1

\* addNet() takes the nets that are not special and have no wires.
Skipped(b, k) == {n \in b.live \cap Nets : k[n] # "signal"}
Added(b, k) == (b.live \cap Nets) \ Skipped(b, k)

\* initNetlist(): addNet() of every net.
initNetlist(b, k) ==
  [n \in Nets |-> IF n \in Added(b, k) THEN Pins(b, n) ELSE NoNet]

\* findRouting() of all nets: those with one pin or none get no route.
findRouting(map) == [n \in Nets |-> IF Routable(map[n]) THEN map[n] ELSE {}]

\* A design was read and routed: nothing reroutes nets before globalRoute().
RInit ==
  /\ block \in Designs /\ call = Idle /\ edits = 0
  /\ kind \in [Nets -> Kinds]
  /\ \A n \in Nets : kind[n] # "signal" => n \in block.live
  /\ db_net_map = initNetlist(block, kind)
  /\ routes = findRouting(db_net_map)
  /\ dirty_nets = {} /\ missed = {}
  /\ skipped = Skipped(block, kind)
  /\ registered = FALSE /\ failed = FALSE /\ crashed = FALSE

-----------------------------------------------------------------------------
(* Calls of the netlist and the callbacks (GRouteDbCbk) they make. *)

\* A call that changes the block starts, or a call throws; a loop or the
\* router goes on.
Counted == ~ crashed /\ edits < MaxEdits /\ edits' = edits + 1
Uncounted == ~ crashed /\ UNCHANGED edits

\* A call that touches the nets S: its callbacks mark those in M, if an
\* IncrementalGRoute listens.
Marks(S, M) ==
  LET marked == IF registered THEN M ELSE {}
  IN /\ dirty_nets' = dirty_nets \cup marked
     /\ missed' = missed \cup (S \ marked)
     /\ UNCHANGED <<db_net_map, routes, kind, registered, skipped, failed, crashed>>

Touched(S) == Marks(S, S)

\* The net of a terminal, as a set.
NetOf(t) == {block.links.net[t]} \ {Null}

\* Mutant: only the new net is marked, not the one the terminal leaves.
rConnect_new(t, n) ==
  Counted /\ Connect(t, n) /\ Touched(IF block' = block THEN {} ELSE {n})

\* inDb...PreDisconnect() of the old net, inDb...PostConnect() of the new one.
rConnect(t, n) ==
  /\ Counted /\ Connect(t, n)
  /\ Touched(IF t \in ITerms /\ NetOf(t) = {n} THEN {} ELSE NetOf(t) \cup {n})

rDisconnect(t) == Counted /\ Disconnect(t) /\ Touched(NetOf(t))

rDestroyBTerm(t) == Counted /\ DestroyBTerm(t) /\ Touched(NetOf(t))

rCreateBTerm(n, name) == Counted /\ CreateBTerm(n, name) /\ Touched({n})

rCreateInst(m, name) == Counted /\ CreateInst(m, name) /\ UNCHANGED grt

InstNets(i) == UNION {NetOf(t) : t \in Elements(block.iterms[i])}

\* instItermsDirty() leaves out the special nets.
instItermsDirty(i) == Marks(InstNets(i), {n \in InstNets(i) : kind[n] # "special"})

\* inDbPostMoveInst()
rMove(i, x) ==
  /\ Counted /\ call = Idle /\ block.x[i] # x
  /\ Returns(setOrigin(block, i, x))
  /\ instItermsDirty(i)

\* inDbInstSwapMasterAfter(), if the master was replaced.
rSwapMaster(i, m) ==
  /\ Counted /\ SwapMaster(i, m)
  /\ IF Equivalent(m, block.master[i]) THEN instItermsDirty(i) ELSE UNCHANGED grt

\* Mutant: inDbNetCreate() does not call addNet().
rCreateNet_unadded(name) ==
  /\ Counted /\ CreateNet(name, TRUE)
  /\ LET n == Head(block.free["net"])
     IN /\ kind' = [kind EXCEPT ![n] = "signal"]
        /\ skipped' = skipped \ {n}
        /\ missed' = IF registered THEN missed \ {n} ELSE missed \cup {n}
  /\ UNCHANGED <<db_net_map, dirty_nets, routes, registered, failed, crashed>>

\* inDbNetCreate(): addNet() of a net that has no pins, wires or flags yet.
rCreateNet(name) ==
  /\ Counted /\ CreateNet(name, TRUE)
  /\ LET n == Head(block.free["net"])
     IN /\ kind' = [kind EXCEPT ![n] = "signal"]
        /\ skipped' = skipped \ {n}
        /\ IF registered
           THEN db_net_map' = [db_net_map EXCEPT ![n] = {}] /\ missed' = missed \ {n}
           ELSE missed' = missed \cup {n} /\ UNCHANGED db_net_map
  /\ UNCHANGED <<dirty_nets, routes, registered, failed, crashed>>

rDestroyNet(n) == Counted /\ DestroyNet(n) /\ UNCHANGED grt

rDestroyNet_iterm == Uncounted /\ DestroyNet_iterm /\ Touched(NetOf(call.itr))

rDestroyNet_bterms == Uncounted /\ DestroyNet_bterms /\ UNCHANGED grt

rDestroyNet_bterm == Uncounted /\ DestroyNet_bterm /\ Touched(NetOf(call.itr))

\* Mutant: removeNet() leaves the net in dirty_nets_.
removeNet_dirty(n) ==
  /\ db_net_map' = [db_net_map EXCEPT ![n] = NoNet]
  /\ routes' = [routes EXCEPT ![n] = {}]
  /\ UNCHANGED dirty_nets

removeNet(n) ==
  /\ db_net_map' = [db_net_map EXCEPT ![n] = NoNet]
  /\ routes' = [routes EXCEPT ![n] = {}]
  /\ dirty_nets' = dirty_nets \ {n}

\* inDbNetDestroy(): removeNet()
rDestroyNet_end ==
  /\ Uncounted /\ DestroyNet_end
  /\ IF registered
     THEN /\ removeNet(call.obj)
          /\ missed' = missed \ {call.obj} /\ skipped' = skipped \ {call.obj}
     ELSE /\ missed' = missed \cup {call.obj}
          /\ UNCHANGED <<db_net_map, routes, dirty_nets, skipped>>
  /\ UNCHANGED <<kind, registered, failed, crashed>>

rDestroyInst(i) == Counted /\ DestroyInst(i) /\ UNCHANGED grt

rDestroyInst_iterm ==
  /\ Uncounted /\ DestroyInst_iterm
  /\ Touched(NetOf(block.iterms[call.obj][call.k]))

rDestroyInst_end == Uncounted /\ DestroyInst_end /\ UNCHANGED grt

\* dbNet::setSpecial() and clearSpecial(), dbWire::create() and destroy(), of
\* which the router is not told.  A net that is special and has wires counts
\* as special; without the flag it is one with wires.
SetKind(n, k) ==
  /\ Counted /\ call = Idle /\ kind[n] # k
  /\ kind' = [kind EXCEPT ![n] = k]
  /\ UNCHANGED <<vars, db_net_map, dirty_nets, routes, registered, missed, skipped,
                 failed, crashed>>

-----------------------------------------------------------------------------
(* GlobalRouter and IncrementalGRoute. *)

\* clear() and what addNet() was called for before globalRoute() ended:
\* dirty_nets_ is not cleared, and a destroyed net in it stays unseen.
Read(map) ==
  /\ db_net_map' = map
  /\ missed' = {n \in Nets : IF n \in block.live
                             THEN n \in Added(block, kind) /\ map[n] # Pins(block, n)
                             ELSE n \in missed \cap dirty_nets}
  /\ skipped' = Skipped(block, kind)
  /\ UNCHANGED <<vars, dirty_nets, kind, registered, crashed>>

\* globalRoute(): clear(), initNetlist() and findRouting() of all nets.  The
\* error on congestion (GRT 118) comes after the routes were stored.
globalRoute ==
  /\ Uncounted /\ call = Idle /\ ~ registered
  /\ Read(initNetlist(block, kind))
  /\ routes' = findRouting(db_net_map')
  /\ failed' = FALSE

\* addNet() of the nets up to bad, for which makeItermPins() or makeBtermPins()
\* throws after some of its pins.
addNet_throws(bad, pins) ==
  [n \in Nets |-> IF n = bad THEN pins
                  ELSE IF n[2] < bad[2] THEN initNetlist(block, kind)[n] ELSE NoNet]

\* What db_net_map_ may hold when globalRoute() throws: nothing before
\* initNetlist(), all nets in findRouting().
Interrupted ==
  {[n \in Nets |-> NoNet], initNetlist(block, kind)} \cup
  UNION {{addNet_throws(n, pins) : pins \in SUBSET Pins(block, n)} :
         n \in Added(block, kind)}

globalRoute_throws(map) ==
  /\ Counted /\ call = Idle /\ ~ registered
  /\ Read(map)
  /\ routes' = [n \in Nets |-> {}]
  /\ failed' = TRUE

\* incrementalParasiticsBegin(): new IncrementalGRoute.
incrementalParasiticsBegin ==
  /\ Uncounted /\ call = Idle /\ ~ registered
  /\ registered' = TRUE
  /\ UNCHANGED <<vars, db_net_map, dirty_nets, routes, kind, missed, skipped, failed, crashed>>

incrementalParasiticsEnd ==
  /\ Uncounted /\ call = Idle /\ registered
  /\ registered' = FALSE
  /\ UNCHANGED <<vars, db_net_map, dirty_nets, routes, kind, missed, skipped, failed, crashed>>

Routed == {n \in Live(Nets) : routes[n] # {}}

\* repairAntennas(): checkAntennaViolations() makes a wire for every routed
\* net, marks the nets S with violations, and removes the wire again, all
\* before the IncrementalGRoute exists.
repairAntennas(S) ==
  /\ Uncounted /\ call = Idle /\ ~ registered
  /\ S # {} /\ \A n \in Routed : kind[n] # "wired"
  /\ registered' = TRUE
  /\ dirty_nets' = dirty_nets \cup S
  /\ UNCHANGED <<vars, db_net_map, routes, kind, missed, skipped, failed, crashed>>

\* checkAntennaViolations() throws at net n, which has a wire already (GRT 221)
\* or keeps the one that was made (GRT 68).
repairAntennas_throws(S, n) ==
  /\ Counted /\ call = Idle /\ ~ registered
  /\ n \notin S
  /\ dirty_nets' = dirty_nets \cup S
  /\ kind' = [kind EXCEPT ![n] = IF @ = "signal" THEN "wired" ELSE @]
  /\ UNCHANGED <<vars, db_net_map, routes, registered, missed, skipped, failed, crashed>>

\* updateDirtyNets(), findRouting() and mergeResults() of the nets D: a net
\* that has one pin or none left is not in the new routes and keeps its old one.
Rerouted(D) ==
  /\ db_net_map' = [n \in Nets |-> IF n \in D THEN Pins(block, n) ELSE db_net_map[n]]
  /\ routes' = [n \in Nets |-> IF n \in D /\ Routable(db_net_map'[n])
                               THEN db_net_map'[n] ELSE routes[n]]

Usable(n) == db_net_map[n] # NoNet /\ n \in block.live

\* updateDirtyRoutes() with the nets D dirty.  The error on congestion (GRT
\* 232) comes after dirty_nets_ was cleared.
updateDirtyRoutes(D) ==
  /\ Uncounted /\ call = Idle /\ D # {}
  /\ \A n \in D : Usable(n)
  /\ Rerouted(D)
  /\ dirty_nets' = {} /\ missed' = missed \ D
  /\ UNCHANGED <<vars, kind, registered, skipped, failed, crashed>>

\* updateDirtyNets() made the pins of the nets R again, in no certain order,
\* and throws at one of them; or findRouting() throws after the last one.
updateDirtyRoutes_throws(D) ==
  /\ Counted /\ call = Idle
  /\ \E R \in SUBSET {n \in D : Usable(n)} :
       \E bad \in R : \E pins \in SUBSET Pins(block, bad) :
         db_net_map' = [n \in Nets |-> IF n = bad THEN pins
                                       ELSE IF n \in R THEN Pins(block, n)
                                       ELSE db_net_map[n]]
  /\ dirty_nets' = D
  /\ UNCHANGED <<vars, routes, kind, registered, missed, skipped, failed, crashed>>

\* db_net_map_[db_net] is null, or db_net is an object that was destroyed.
updateDirtyRoutes_crash(D) ==
  /\ Uncounted /\ call = Idle /\ \E n \in D : ~ Usable(n)
  /\ dirty_nets' = D
  /\ crashed' = TRUE
  /\ UNCHANGED <<vars, db_net_map, routes, kind, registered, missed, skipped, failed>>

\* updateRoutes() of an IncrementalGRoute, and ensureWireParasitic(), which
\* makes one of its own and marks the net of the driver.
updateRoutes ==
  \/ registered /\ updateDirtyRoutes(dirty_nets)
  \/ registered /\ updateDirtyRoutes_throws(dirty_nets)
  \/ registered /\ updateDirtyRoutes_crash(dirty_nets)

ensureWireParasitic(n) ==
  \/ updateDirtyRoutes(dirty_nets \cup {n})
  \/ updateDirtyRoutes_throws(dirty_nets \cup {n})
  \/ updateDirtyRoutes_crash(dirty_nets \cup {n})

Edit ==
  \/ \E name \in Names["net"] : rCreateNet(name)
  \/ \E n \in Live(Nets) :
       \/ \E name \in Names["bterm"] : rCreateBTerm(n, name)
       \/ \E t \in Live(Terms) : rConnect(t, n)
       \/ \E k \in Kinds : SetKind(n, k)
       \/ rDestroyNet(n)
  \/ \E m \in Masters :
       \/ \E name \in Names["inst"] : rCreateInst(m, name)
       \/ \E i \in Live(Insts) : rSwapMaster(i, m)
  \/ \E t \in Live(Terms) : rDisconnect(t)
  \/ \E t \in Live(BTerms) : rDestroyBTerm(t)
  \/ \E i \in Live(Insts) :
       \/ rDestroyInst(i)
       \/ \E x \in Moves : rMove(i, x)

\* The turns of the loops of the two destroy().
Destroy ==
  \/ rDestroyNet_iterm \/ rDestroyNet_bterms \/ rDestroyNet_bterm \/ rDestroyNet_end
  \/ rDestroyInst_iterm \/ rDestroyInst_end

Route ==
  \/ globalRoute \/ incrementalParasiticsBegin \/ incrementalParasiticsEnd
  \/ \E map \in Interrupted : globalRoute_throws(map)
  \/ \E S \in SUBSET Routed :
       \/ repairAntennas(S)
       \/ \E n \in Routed : repairAntennas_throws(S, n)
  \/ updateRoutes
  \/ \E n \in Live(Nets) : ensureWireParasitic(n)

RNext == Edit \/ Destroy \/ Route

RSpec == RInit /\ [][RNext]_<<vars, grt, edits>>

-----------------------------------------------------------------------------
\* Type invariant.
RTypeOK ==
  /\ BlockType(block)
  /\ dirty_nets \subseteq Nets /\ missed \subseteq Nets /\ skipped \subseteq Nets
  /\ kind \in [Nets -> Kinds]
  /\ DOMAIN db_net_map = Nets /\ DOMAIN routes = Nets
  /\ \A n \in Nets : \A p \in db_net_map[n] \cup routes[n] :
       p = NoPin \/ p[1] \in Terms
  /\ {registered, failed, crashed} \subseteq BOOLEAN /\ edits \in 0 .. MaxEdits

\* Whatever is edited while an IncrementalGRoute exists, and whatever throws:
\* a net that is not dirty has the pins of the database, in their places, and
\* a route that connects them, or none since a globalRoute() threw.  Excepted
\* are the nets that were changed without being marked, because nobody
\* listened or because moves and swaps do not mark special nets, whether or
\* not the flag is cleared later, and those that globalRoute() did not read.
RoutesCurrent ==
  \A n \in Nets \ (dirty_nets \cup missed) :
    db_net_map[n] # NoNet =>
      /\ db_net_map[n] = Pins(block, n)
      /\ Routable(db_net_map[n]) =>
           routes[n] = db_net_map[n] \/ (failed /\ routes[n] = {})

\* The router's copy of the netlist and the routes, with their types.
RoutesSound == RTypeOK /\ RoutesCurrent

\* The router refers to a destroyed dbNet only if it was destroyed unseen: a
\* dbNet made later in the same slot would be taken for it.
NoDeadNets ==
  \A n \in Nets :
    n \in dirty_nets \/ db_net_map[n] # NoNet \/ routes[n] # {} =>
      n \in block.live \cup missed

\* updateDirtyNets() meets a net without a Net only if the net was made or
\* destroyed unseen, if a globalRoute() that threw did not reach it, or if
\* addNet() skipped it: nothing keeps the callbacks from marking special nets
\* and nets with wires dirty, whether or not they still are that.
CrashHasCause ==
  crashed => \E n \in dirty_nets : ~ Usable(n) /\ n \in missed \cup skipped
=============================================================================
