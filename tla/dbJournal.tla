----------------------------- MODULE dbJournal -----------------------------
(***************************************************************************)
(* The ECO mechanism of OpenDB (src/odb/src/db/dbJournal.cpp): between     *)
(* beginEco() and endEco() the calls that change a block append records to *)
(* its journal, and commitEco() on a copy of the block replays them.       *)
(*                                                                         *)
(* remote is the block that is edited and log its journal; master is the   *)
(* copy, which replays log record by record and has a journal mlog of its  *)
(* own (as in test/cpp/TestJournal.cpp), in which the calls that redo()    *)
(* makes are recorded again.  A record is what redo() pops of it; writing  *)
(* and reading the file keeps the bytes.  No callback reads between the    *)
(* steps of a call here, so every call is one step.                        *)
(***************************************************************************)
EXTENDS dbBlock, SequencesExt

CONSTANTS
  Images,     \* the blocks a pair of copies may start from
  Origins,    \* arguments of setOrigin()
  Orients,    \* arguments of setOrient()
  MaxCalls    \* bound: calls made on the remote block

ASSUME ImagesAssumption == \A b \in Images : Sound(b)

ASSUME MaxCallsAssumption == MaxCalls \in Nat

VARIABLES
  remote,     \* the block that is edited
  log,        \* its journal, then the pending one of the master
  master,     \* the copy
  mlog,       \* the journal of the master
  pos,        \* records of log that redo() has replayed
  phase,      \* where the exchange is
  calls,      \* calls made so far
  unlogged    \* the remote was changed in a way that log does not have

ecoVars == <<remote, log, master, mlog, pos, phase, calls, unlogged>>

\* beginEco() on both blocks, copies of each other.
EcoInit ==
  /\ remote \in Images /\ master = remote
  /\ log = << >> /\ mlog = << >> /\ pos = 0
  /\ phase = "record" /\ calls = 0 /\ unlogged = FALSE

-----------------------------------------------------------------------------
(* The records that calls append, in block b.  arg and name are what the     *)
(* record has besides the object.                                            *)

Record(op, o, arg) == <<[op |-> op, obj |-> o, arg |-> arg]>>

\* Mutant: the record is appended whether the terminal is connected or not.
disconnect_log_always(b, t) == Record("disconnect", t, Null)

disconnect_log(b, t) ==
  IF b.links.net[t] = Null THEN << >> ELSE Record("disconnect", t, Null)

\* Mutant: CONNECT is recorded before the terminal is taken off its old net.
connect_log_first(b, t, n) ==
  IF t \in BTerms THEN Record("connect", t, n)
  ELSE IF b.links.net[t] = n THEN << >>
  ELSE Record("connect", t, n) \o disconnect_log(b, t)

\* dbITerm::connect() calls disconnect(), which has a record of its own;
\* dbBTerm::connect() records CONNECT before it takes the terminal off.
connect_log(b, t, n) ==
  IF t \in BTerms THEN Record("connect", t, n)
  ELSE IF b.links.net[t] = n THEN << >>
  ELSE disconnect_log(b, t) \o Record("connect", t, n)

\* The logs of the elements of a sequence of objects, one after the other.
Each(Log(_), s) == FlattenSeq([k \in DOMAIN s |-> Log(s[k])])

iterms(b, n) == Walk(b.links, <<n, "iterm">>)
bterms(b, n) == Walk(b.links, <<n, "bterm">>)

BTerm_destroy_log(t) == Record("delete", t, Null)

\* Mutant: the record of the net comes before those of its terminals.
Net_destroy_log_first(b, n) ==
  Record("delete", n, Null)
    \o Each(LAMBDA t : disconnect_log(b, t), iterms(b, n))
    \o Each(BTerm_destroy_log, bterms(b, n))

Net_destroy_log(b, n) ==
  Each(LAMBDA t : disconnect_log(b, t), iterms(b, n))
    \o Each(BTerm_destroy_log, bterms(b, n))
    \o Record("delete", n, Null)

Inst_destroy_log(b, i) ==
  Each(LAMBDA t : disconnect_log(b, t), b.iterms[i]) \o Record("delete", i, Null)

\* dbNet::destroy() and dbInst::destroy(), to the end of their loops.
Net_destroy(b, n) ==
  Net_delete(FoldLeft(Term_destroy,
                      FoldLeft(disconnect, b, iterms(b, n)),
                      bterms(b, n)), n)

Inst_destroy(b, i) == Inst_delete(FoldLeft(Term_destroy, b, b.iterms[i]), i)

-----------------------------------------------------------------------------
(* Calls on the remote block. *)

EcoLive(S) == S \cap remote.live

Remote(b, recs) ==
  /\ phase = "record" /\ calls < MaxCalls
  /\ remote' = b
  /\ log' = log \o recs
  /\ calls' = calls + 1
  /\ UNCHANGED <<master, mlog, pos, phase>>

\* dbNet::create(); a name that exists is only accepted if skipExistingCheck
\* is set, which the record does not say.
EcoCreateNet(name, skip) ==
  /\ Room(remote, "net", 1)
  /\ skip \/ ~ HasMember(remote, "net", name)
  /\ Remote(Net_create(remote, name), Record("create net", Null, name))
  /\ unlogged' = (unlogged \/ HasMember(remote, "net", name))

EcoCreateBTerm(n, name) ==
  /\ Room(remote, "bterm", 1) /\ ~ HasMember(remote, "bterm", name)
  /\ Remote(BTerm_create(remote, n, name), Record("create bterm", n, name))
  /\ UNCHANGED unlogged

EcoCreateInst(m, name) ==
  /\ Room(remote, "inst", 1) /\ Room(remote, "iterm", Len(MTerms[m]))
  /\ ~ HasMember(remote, "inst", name)
  /\ Remote(Inst_create(remote, m, name), Record("create inst", m, name))
  /\ UNCHANGED unlogged

EcoDestroyNet(n) ==
  Remote(Net_destroy(remote, n), Net_destroy_log(remote, n)) /\ UNCHANGED unlogged

EcoDestroyBTerm(t) ==
  Remote(Term_destroy(remote, t), BTerm_destroy_log(t)) /\ UNCHANGED unlogged

EcoDestroyInst(i) ==
  Remote(Inst_destroy(remote, i), Inst_destroy_log(remote, i)) /\ UNCHANGED unlogged

EcoConnect(t, n) ==
  Remote(connect(remote, t, n), connect_log(remote, t, n)) /\ UNCHANGED unlogged

EcoDisconnect(t) ==
  Remote(disconnect(remote, t), disconnect_log(remote, t)) /\ UNCHANGED unlogged

\* The record is written before the masters are compared.
EcoSwapMaster(i, m) ==
  Remote(swapMaster(remote, i, m), Record("swap", i, m)) /\ UNCHANGED unlogged

EcoSetOrigin(i, x) ==
  /\ remote.x[i] # x
  /\ Remote(setOrigin(remote, i, x), Record("ORIGIN", i, x))
  /\ UNCHANGED unlogged

EcoSetOrient(i, o) ==
  /\ remote.orient[i] # o
  /\ Remote(setOrient(remote, i, o), Record("FLAGS", i, o))
  /\ UNCHANGED unlogged

\* setNonDefaultRule() records the type and the id of the rule where redo()
\* reads those of the net.
EcoSetRule(n, r) ==
  Remote(setNonDefaultRule(remote, n, r), Record("rule", Null, r)) /\ UNCHANGED unlogged

\* rename() has no record.
EcoRename(o, name) ==
  /\ ~ HasMember(remote, o[1], name)
  /\ Remote(rename(remote, o, name), << >>)
  /\ unlogged' = TRUE

-----------------------------------------------------------------------------
(* endEco(), writeEco(), readEco(), and commitEco() on the master. *)

endEco ==
  /\ phase = "record"
  /\ phase' = "redo" /\ pos' = 0
  /\ UNCHANGED <<remote, log, master, mlog, calls, unlogged>>

Popped(op) == phase = "redo" /\ pos < Len(log) /\ log[pos + 1].op = op

rec == log[pos + 1]

\* The call that redo() makes of a record, and what the master records of it.
\* Size bounds the tables of the master as well.
Master(b, recs) ==
  /\ master' = b
  /\ mlog' = mlog \o recs
  /\ pos' = pos + 1
  /\ UNCHANGED <<remote, log, phase, calls, unlogged>>

redo_createObject ==
  \/ /\ Popped("create net")
     /\ \/ HasMember(master, "net", rec.arg) /\ Master(master, << >>)
        \/ /\ ~ HasMember(master, "net", rec.arg) /\ Room(master, "net", 1)
           /\ Master(Net_create(master, rec.arg), <<rec>>)
  \/ /\ Popped("create bterm") /\ rec.obj \in master.live
     /\ \/ HasMember(master, "bterm", rec.arg) /\ Master(master, << >>)
        \/ /\ ~ HasMember(master, "bterm", rec.arg) /\ Room(master, "bterm", 1)
           /\ Master(BTerm_create(master, rec.obj, rec.arg), <<rec>>)
  \/ /\ Popped("create inst")
     /\ \/ HasMember(master, "inst", rec.arg) /\ Master(master, << >>)
        \/ /\ ~ HasMember(master, "inst", rec.arg)
           /\ Room(master, "inst", 1) /\ Room(master, "iterm", Len(MTerms[rec.obj]))
           /\ Master(Inst_create(master, rec.obj, rec.arg), <<rec>>)

redo_deleteObject ==
  /\ Popped("delete") /\ rec.obj \in master.live
  /\ \/ /\ rec.obj \in Nets
        /\ Master(Net_destroy(master, rec.obj), Net_destroy_log(master, rec.obj))
     \/ /\ rec.obj \in BTerms
        /\ Master(Term_destroy(master, rec.obj), BTerm_destroy_log(rec.obj))
     \/ /\ rec.obj \in Insts
        /\ Master(Inst_destroy(master, rec.obj), Inst_destroy_log(master, rec.obj))

redo_connectObject ==
  /\ Popped("connect") /\ rec.obj \in master.live /\ rec.arg \in master.live
  /\ Master(connect(master, rec.obj, rec.arg), connect_log(master, rec.obj, rec.arg))

redo_disconnectObject ==
  /\ Popped("disconnect") /\ rec.obj \in master.live
  /\ Master(disconnect(master, rec.obj), disconnect_log(master, rec.obj))

redo_swapObject ==
  /\ Popped("swap") /\ rec.obj \in master.live
  /\ Master(swapMaster(master, rec.obj, rec.arg), <<rec>>)

\* The word of flags is written into the object: no bounding box is computed
\* and nothing is recorded.
redo_updateFlags ==
  /\ Popped("FLAGS") /\ rec.obj \in master.live
  /\ Master([master EXCEPT !.orient[rec.obj] = rec.arg], << >>)

redo_updateOrigin ==
  /\ Popped("ORIGIN") /\ rec.obj \in master.live
  /\ Master(setOrigin(master, rec.obj, rec.arg),
            IF master.x[rec.obj] = rec.arg THEN << >> ELSE <<rec>>)

\* The record names an object of the master that does not exist: redo() goes
\* on with a slot of the free list.
redo_lost ==
  /\ phase = "redo" /\ pos < Len(log)
  /\ rec.op \in {"create bterm", "delete", "connect", "disconnect", "swap",
                 "FLAGS", "ORIGIN"}
  /\ rec.obj \notin master.live \/ (rec.op = "connect" /\ rec.arg \notin master.live)
  /\ phase' = "lost"
  /\ UNCHANGED <<remote, log, master, mlog, pos, calls, unlogged>>

\* redo_updateField() has no case for the type of a rule and leaves the rest
\* of the record to be read as END_ACTION and the next records.
redo_misaligned ==
  /\ Popped("rule")
  /\ phase' = "misaligned"
  /\ UNCHANGED <<remote, log, master, mlog, pos, calls, unlogged>>

commitEco_end ==
  /\ phase = "redo" /\ pos = Len(log)
  /\ phase' = "committed"
  /\ UNCHANGED <<remote, log, master, mlog, pos, calls, unlogged>>

\* The next exchange, from blocks that are copies again.
beginEco ==
  /\ phase = "committed" /\ remote = master /\ calls < MaxCalls
  /\ phase' = "record" /\ log' = << >> /\ mlog' = << >> /\ pos' = 0
  /\ unlogged' = FALSE
  /\ UNCHANGED <<remote, master, calls>>

redo ==
  \/ redo_createObject \/ redo_deleteObject \/ redo_connectObject
  \/ redo_disconnectObject \/ redo_swapObject \/ redo_updateFlags
  \/ redo_updateOrigin \/ redo_lost \/ redo_misaligned

EcoNext ==
  \/ \E name \in Names["net"], skip \in BOOLEAN : EcoCreateNet(name, skip)
  \/ \E n \in EcoLive(Nets) :
       \/ \E name \in Names["bterm"] : EcoCreateBTerm(n, name)
       \/ \E t \in EcoLive(Terms) : EcoConnect(t, n)
       \/ \E r \in Rules : EcoSetRule(n, r)
       \/ EcoDestroyNet(n)
  \/ \E m \in Masters :
       \/ \E name \in Names["inst"] : EcoCreateInst(m, name)
       \/ \E i \in EcoLive(Insts) : EcoSwapMaster(i, m)
  \/ \E t \in EcoLive(Terms) : EcoDisconnect(t)
  \/ \E t \in EcoLive(BTerms) : EcoDestroyBTerm(t)
  \/ \E i \in EcoLive(Insts) :
       \/ EcoDestroyInst(i)
       \/ \E x \in Origins : EcoSetOrigin(i, x)
       \/ \E o \in Orients : EcoSetOrient(i, o)
  \/ \E o \in EcoLive(Nets \cup BTerms \cup Insts) :
       \E name \in Names[o[1]] : EcoRename(o, name)
  \/ endEco \/ redo \/ commitEco_end \/ beginEco

EcoSpec == EcoInit /\ [][EcoNext]_ecoVars

-----------------------------------------------------------------------------
RecordType(r) ==
  \/ r.op = "create inst" /\ r.obj \in Masters
  \/ /\ r.op \in {"create net", "create bterm", "delete", "connect", "disconnect",
                  "swap", "ORIGIN", "FLAGS", "rule"}
     /\ r.obj \in Nets \cup Terms \cup Insts \cup {Null}

\* Type invariant.
EcoTypeOK ==
  /\ BlockType(remote) /\ BlockType(master)
  /\ \A k \in DOMAIN log : RecordType(log[k])
  /\ \A k \in DOMAIN mlog : RecordType(mlog[k])
  /\ pos \in 0 .. Len(log) /\ calls \in 0 .. MaxCalls
  /\ phase \in {"record", "redo", "committed", "lost", "misaligned"}
  /\ unlogged \in BOOLEAN

Reoriented(i) == \E k \in DOMAIN log : log[k].op = "FLAGS" /\ log[k].obj = i

\* commitEco() makes the master what the remote is: the same objects in the
\* same slots, connected in the same order, and the same slots free for the
\* next calls.  Two things are excepted: calls that leave no usable record,
\* and the bounding box of an instance that was turned.
CommitReproduces ==
  phase = "committed" /\ ~ unlogged =>
    /\ \A f \in DOMAIN remote \ {"bbox"} : master[f] = remote[f]
    /\ \A i \in Insts : ~ Reoriented(i) => master.bbox[i] = remote.bbox[i]

\* As long as every change was recorded, redo() finds each object that a
\* record names, whatever the records before it did to the master.
RedoFindsObjects == phase = "lost" => unlogged

\* Both blocks keep their type in a replay, which ends in a commit unless a
\* change was not recorded.
ReplaySound == EcoTypeOK /\ RedoFindsObjects

\* What the master records of the replay of a record, if nothing is lost.
Rejournaled(r) == IF r.op = "FLAGS" THEN << >> ELSE <<r>>

\* What the master records of a replay is the journal it replayed, except for
\* the flags, which redo() writes past the journal: a chain of copies loses
\* them at the second commit.
RejournalsSame ==
  phase = "committed" /\ ~ unlogged =>
    mlog = Each(Rejournaled, log)

\* redo() reads each record to its end, as its assertions on the END_ACTION
\* byte and on the index after it say.
RecordsAligned == phase # "misaligned"
=============================================================================
