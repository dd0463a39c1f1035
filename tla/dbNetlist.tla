------------------------------ MODULE dbNetlist ------------------------------
(***************************************************************************)
(* The netlist of a block under the calls of its interface.  A call of     *)
(* connect(), disconnect(), create() or swapMaster() is one step.  The     *)
(* loops of dbNet::destroy() and dbInst::destroy() take one step per       *)
(* terminal, because the callbacks of the block (dbBlockCallBackObj) run   *)
(* between the turns and read the netlist as it is then; call is the       *)
(* destroy() that is running.  The callbacks of the repository do not      *)
(* change the netlist, so no other call starts before it is done.          *)
(***************************************************************************)
EXTENDS dbBlock, FiniteSets

VARIABLES
  block,    \* the block, a record of dbBlock
  call      \* the destroy() that is running

vars == <<block, call>>

Idle == [fn |-> "none"]

Init == block = Empty /\ call = Idle

\* A step of a call that returns at once.
Returns(b) == block' = b /\ UNCHANGED call

-----------------------------------------------------------------------------
(* Calls of one step. *)

Live(S) == S \cap block.live

\* dbNet::create(block, name, skipExistingCheck)
CreateNet(name, skip) ==
  /\ call = Idle
  /\ skip \/ ~ HasMember(block, "net", name)
  /\ Room(block, "net", 1)
  /\ Returns(Net_create(block, name))

CreateBTerm(n, name) ==
  /\ call = Idle
  /\ ~ HasMember(block, "bterm", name)
  /\ Room(block, "bterm", 1)
  /\ Returns(BTerm_create(block, n, name))

CreateInst(m, name) ==
  /\ call = Idle
  /\ ~ HasMember(block, "inst", name)
  /\ Room(block, "inst", 1) /\ Room(block, "iterm", Len(MTerms[m]))
  /\ Returns(Inst_create(block, m, name))

Connect(t, n) == call = Idle /\ Returns(connect(block, t, n))

Disconnect(t) == call = Idle /\ Returns(disconnect(block, t))

DestroyBTerm(t) == call = Idle /\ Returns(Term_destroy(block, t))

SwapMaster(i, m) == call = Idle /\ Returns(swapMaster(block, i, m))

-----------------------------------------------------------------------------
(* dbNet::destroy() *)

DestroyNet(n) ==
  /\ call = Idle
  /\ call' = [fn |-> "Net_destroy", obj |-> n, tbl |-> "iterm",
              itr |-> block.links.head[<<n, "iterm">>]]
  /\ UNCHANGED block

\* Mutant: the iterator is not advanced before disconnect().
DestroyNet_iterm_same ==
  /\ call.fn = "Net_destroy" /\ call.tbl = "iterm" /\ call.itr # Null
  /\ Returns(disconnect(block, call.itr))

\* ++iitr, then iterm->disconnect().
DestroyNet_iterm ==
  /\ call.fn = "Net_destroy" /\ call.tbl = "iterm" /\ call.itr # Null
  /\ call' = [call EXCEPT !.itr = block.links.next[@]]
  /\ block' = disconnect(block, call.itr)

\* The first loop is over: net_->getBTerms().begin().
DestroyNet_bterms ==
  /\ call.fn = "Net_destroy" /\ call.tbl = "iterm" /\ call.itr = Null
  /\ call' = [call EXCEPT !.tbl = "bterm",
                          !.itr = block.links.head[<<call.obj, "bterm">>]]
  /\ UNCHANGED block

\* dbBTerm::destroy(bitr): the next iterator is taken first.
DestroyNet_bterm ==
  /\ call.fn = "Net_destroy" /\ call.tbl = "bterm" /\ call.itr # Null
  /\ call' = [call EXCEPT !.itr = block.links.next[@]]
  /\ block' = Term_destroy(block, call.itr)

DestroyNet_end ==
  /\ call.fn = "Net_destroy" /\ call.tbl = "bterm" /\ call.itr = Null
  /\ call' = Idle
  /\ block' = Net_delete(block, call.obj)

-----------------------------------------------------------------------------
(* dbInst::destroy() *)

DestroyInst(i) ==
  /\ call = Idle
  /\ call' = [fn |-> "Inst_destroy", obj |-> i, k |-> 1]
  /\ UNCHANGED block

DestroyInst_iterm ==
  /\ call.fn = "Inst_destroy" /\ call.k <= Len(block.iterms[call.obj])
  /\ call' = [call EXCEPT !.k = @ + 1]
  /\ block' = Term_destroy(block, block.iterms[call.obj][call.k])

DestroyInst_end ==
  /\ call.fn = "Inst_destroy" /\ call.k > Len(block.iterms[call.obj])
  /\ call' = Idle
  /\ block' = Inst_delete(block, call.obj)

Destroying ==
  \/ DestroyNet_iterm \/ DestroyNet_bterms \/ DestroyNet_bterm \/ DestroyNet_end
  \/ DestroyInst_iterm \/ DestroyInst_end

Next ==
  \/ \E name \in Names["net"], skip \in BOOLEAN : CreateNet(name, skip)
  \/ \E n \in Live(Nets) :
       \/ \E name \in Names["bterm"] : CreateBTerm(n, name)
       \/ \E t \in Live(Terms) : Connect(t, n)
       \/ DestroyNet(n)
  \/ \E m \in Masters :
       \/ \E name \in Names["inst"] : CreateInst(m, name)
       \/ \E i \in Live(Insts) : SwapMaster(i, m)
  \/ \E t \in Live(Terms) : Disconnect(t)
  \/ \E t \in Live(BTerms) : DestroyBTerm(t)
  \/ \E i \in Live(Insts) : DestroyInst(i)
  \/ Destroying

Spec == Init /\ [][Next]_vars

-----------------------------------------------------------------------------
CallType ==
  \/ call = Idle
  \/ call \in [fn : {"Net_destroy"}, obj : Nets, tbl : {"iterm", "bterm"},
               itr : Terms \cup {Null}]
  \/ call \in [fn : {"Inst_destroy"}, obj : Insts, k : Nat]

\* Type invariant.
TypeOK == BlockType(block) /\ CallType

\* The lists are what they must be for a terminal to be taken off its list
\* by its own two ids: the head of a list is on its net and has no
\* predecessor, a neighbour is on the same list and points back, and only
\* the head has no predecessor.
ListsSound == HeadsSound(block.links) /\ NeighboursSound(block.links)

\* destroy() leaves no reference to an object whose slot the next create()
\* reuses: an id is handed out once, a terminal that is on a list is live, and
\* so is its net.
NoDangling == Slots(block) /\ Connected(block)

\* While dbNet::destroy() runs, its iterator is the head of the list it is on,
\* whatever the callbacks see in between, and the first list stays empty.
IteratorAtHead ==
  call.fn = "Net_destroy" =>
    /\ call.obj \in block.live
    /\ call.itr = block.links.head[<<call.obj, call.tbl>>]
    /\ call.tbl = "bterm" => block.links.head[<<call.obj, "iterm">>] = Null

\* getITerm() and findITerm() index _iterms by the _order_id of the mterm: the
\* terminals of an instance are those of its master, after every swapMaster().
PinsInOrder == call = Idle => \A i \in Live(Insts) : PinsOf(block, i)

PinName(b, i, t) == MTerms[b.master[i]][b.pin[t]]

SwapStep ==
  \A i \in Live(Insts) \cap block'.live :
    block'.master[i] # block.master[i] =>
      \A t \in Elements(block.iterms[i]) :
        /\ PinName(block', i, t) = PinName(block, i, t)
        /\ block'.links = block.links

\* swapMaster() keeps what is connected to a pin: a net that was on the pin
\* named a of the old master is on the pin named a of the new one.
SwapKeepsPins == [][SwapStep]_vars

\* The lists as sequences: the walk of every list.
Members == [s \in Lists |-> Walk(block.links, s)]

TL == INSTANCE TermLists WITH members <- Members

\* The doubly linked lists implement the lists of TermLists.
ListsRefined == TL!Spec
=============================================================================
