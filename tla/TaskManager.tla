----------------------------- MODULE TaskManager -----------------------------
(***************************************************************************)
(* One process_tasks call of the task manager (spec.md 4.6) over the      *)
(* world events a tick dispatched, with the task identifiers and           *)
(* dependencies the processors give them (processors/src/processors/       *)
(* store_del_record.rs, controller.rs; spec.md 4.5 for the processors not  *)
(* in this repository) and the writes those processors send.  The task    *)
(* manager itself is not in this repository and follows spec.md 4.6.      *)
(*                                                                         *)
(* Hashes are modelled as the tuples they hash (DefaultHasher collisions   *)
(* only serialise more).  The store is what the executor sees: models      *)
(* registered, entity values, controllers recorded.                        *)
(***************************************************************************)
EXTENDS Naturals, Sequences, SequencesExt, FiniteSets

CONSTANTS
  Models, Entities, Vals, Addrs,
  IndexedModels,  \* models of the indexed namespaces (RegisterModel stores them)
  Namespaced,     \* EventProcessorConfig.namespaces is not empty
  Ticks,          \* possible event sequences a tick dispatches, in dispatch order
  MaxConcurrent,  \* max_concurrent_tasks
  MaxFailures,    \* bound: processor errors (RPC, database)
  Nil

VARIABLES
  tick,      \* the events this tick dispatched
  tpc,       \* Tasks -> "pending", "running", "done", "failed" or "cleared"
  store,     \* [reg, ents, ctrl]: what the processors' writes made
  failures,  \* processor errors so far
  mgr        \* process_tasks: "running", "ok" or "err"

vars == <<tick, tpc, store, failures, mgr>>

Tasks == DOMAIN tick

-----------------------------------------------------------------------------
(* Task identifiers: hash(model_selector) for RegisterModel,              *)
(* hash(keys[1], keys[2]) = hash(model, entity) for StoreSetRecord and    *)
(* StoreDelRecord, hash(data[0]) = hash(deployed address) for controllers.*)
ModelTaskId(ev) == <<ev.model>>
RecordTaskId(ev) == <<ev.model, ev.entity>>
ControllerTaskId(ev) == <<ev.addr>>

TaskIdentifier(ev) ==
  CASE ev.kind = "register"   -> ModelTaskId(ev)
    [] ev.kind \in {"set", "del"} -> RecordTaskId(ev)
    [] ev.kind = "controller" -> ControllerTaskId(ev)

(* A record write depends on hash(keys[1]): the RegisterModel task.       *)
TaskDependencies(ev) ==
  IF ev.kind \in {"set", "del"} THEN {<<ev.model>>} ELSE {}

(* RegisterModel stores the model when its namespace is indexed.          *)
ApplyRegister(st, ev) ==
  IF ev.model \in IndexedModels THEN [st EXCEPT !.reg = @ \cup {ev.model}] ELSE st

(* StoreSetRecord: set_entity once the model is loaded.                   *)
ApplySet(st, ev) ==
  IF ev.model \in st.reg THEN [st EXCEPT !.ents[ev.model, ev.entity] = ev.val] ELSE st

(* StoreDelRecord::process: db.model; a missing model is skipped when      *)
(* namespaces are configured (an error otherwise, see ReturnsError);       *)
(* then delete_entity.                                                     *)
ApplyDel(st, ev) ==
  IF ev.model \in st.reg THEN [st EXCEPT !.ents[ev.model, ev.entity] = Nil] ELSE st

(* ControllerProcessor::process: short calldata or no Cartridge magic     *)
(* returns Ok without a write; otherwise add_controller.                   *)
ApplyController(st, ev) ==
  IF ev.shape = "magic" THEN [st EXCEPT !.ctrl = @ \cup {ev.addr}] ELSE st

Apply(st, ev) ==
  CASE ev.kind = "register"   -> ApplyRegister(st, ev)
    [] ev.kind = "set"        -> ApplySet(st, ev)
    [] ev.kind = "del"        -> ApplyDel(st, ev)
    [] ev.kind = "controller" -> ApplyController(st, ev)

(* The processor returns an error: the model is missing and no namespace  *)
(* filter excuses it, or the username is not a short string.               *)
ReturnsError(st, ev) ==
  \/ ev.kind \in {"set", "del"} /\ ev.model \notin st.reg /\ ~Namespaced
  \/ ev.kind = "controller" /\ ev.shape = "badname"

(* The writes of the events applied one after the other in dispatch order. *)
RECURSIVE Sequential(_, _)
Sequential(st, evs) ==
  IF evs = <<>> THEN st ELSE Sequential(Apply(st, Head(evs)), Tail(evs))

EmptyStore == [reg |-> {}, ents |-> [x \in Models \X Entities |-> Nil], ctrl |-> {}]

-----------------------------------------------------------------------------
Running == {i \in Tasks : tpc[i] = "running"}
Failed == {i \in Tasks : tpc[i] = "failed"}
IdDrained(id) == \A k \in Tasks : TaskIdentifier(tick[k]) = id => tpc[k] = "done"

(* Mutant: max_concurrent_tasks is not enforced.                          *)
StartUnbounded(i) ==
  /\ mgr = "running" /\ tpc[i] = "pending" /\ Failed = {}
  /\ \A j \in 1..i - 1 : TaskIdentifier(tick[j]) = TaskIdentifier(tick[i]) => tpc[j] = "done"
  /\ \A d \in TaskDependencies(tick[i]) : IdDrained(d)
  /\ tpc' = [tpc EXCEPT ![i] = "running"]
  /\ UNCHANGED <<tick, store, failures, mgr>>

(* Mutant: a task waits only for a running task of its id, not for the    *)
(* ones enqueued before it.                                                *)
StartNoFifo(i) ==
  /\ mgr = "running" /\ tpc[i] = "pending" /\ Failed = {}
  /\ Cardinality(Running) < MaxConcurrent
  /\ \A j \in Running : TaskIdentifier(tick[j]) # TaskIdentifier(tick[i])
  /\ \A d \in TaskDependencies(tick[i]) : IdDrained(d)
  /\ tpc' = [tpc EXCEPT ![i] = "running"]
  /\ UNCHANGED <<tick, store, failures, mgr>>

(* A task starts when the manager is not draining after a failure, a slot *)
(* is free, the tasks of its id enqueued before it are done (the FIFO     *)
(* slot) and every dependency id has drained.                              *)
Start(i) ==
  /\ mgr = "running" /\ tpc[i] = "pending" /\ Failed = {}
  /\ Cardinality(Running) < MaxConcurrent
  /\ \A j \in 1..i - 1 : TaskIdentifier(tick[j]) = TaskIdentifier(tick[i]) => tpc[j] = "done"
  /\ \A d \in TaskDependencies(tick[i]) : IdDrained(d)
  /\ tpc' = [tpc EXCEPT ![i] = "running"]
  /\ UNCHANGED <<tick, store, failures, mgr>>

(* The processor completes and its writes reach the executor.             *)
Finish(i) ==
  /\ tpc[i] = "running"
  /\ ~ReturnsError(store, tick[i])
  /\ store' = Apply(store, tick[i])
  /\ tpc' = [tpc EXCEPT ![i] = "done"]
  /\ UNCHANGED <<tick, failures, mgr>>

(* The processor returns its own error.                                   *)
ProcessorError(i) ==
  /\ tpc[i] = "running"
  /\ ReturnsError(store, tick[i])
  /\ tpc' = [tpc EXCEPT ![i] = "failed"]
  /\ UNCHANGED <<tick, store, failures, mgr>>

(* An RPC or database call of the processor fails.                        *)
TransientError(i) ==
  /\ tpc[i] = "running"
  /\ failures < MaxFailures
  /\ failures' = failures + 1
  /\ tpc' = [tpc EXCEPT ![i] = "failed"]
  /\ UNCHANGED <<tick, store, mgr>>

(* process_tasks returns: Ok when every task is done; after a failure,    *)
(* once in-flight tasks drained, pending tasks are cleared and the error  *)
(* returned.                                                               *)
Return ==
  /\ mgr = "running" /\ Running = {}
  /\ \/ \A i \in Tasks : tpc[i] = "done"
        /\ mgr' = "ok" /\ UNCHANGED tpc
     \/ Failed # {}
        /\ mgr' = "err"
        /\ tpc' = [i \in Tasks |-> IF tpc[i] = "pending" THEN "cleared" ELSE tpc[i]]
  /\ UNCHANGED <<tick, store, failures>>

(* The engine goes on with the tick's commit or rollback.                  *)
Returned == mgr # "running" /\ UNCHANGED vars

Init ==
  /\ tick \in Ticks
  /\ tpc = [i \in Tasks |-> "pending"]
  /\ store = EmptyStore
  /\ failures = 0
  /\ mgr = "running"

Next ==
  \/ \E i \in Tasks : Start(i) \/ Finish(i) \/ ProcessorError(i) \/ TransientError(i)
  \/ Return \/ Returned

Spec == Init /\ [][Next]_vars

-----------------------------------------------------------------------------
TypeOK ==
  /\ tpc \in [Tasks -> {"pending", "running", "done", "failed", "cleared"}]
  /\ store.reg \subseteq Models /\ store.ctrl \subseteq Addrs
  /\ store.ents \in [Models \X Entities -> Vals \cup {Nil}]
  /\ Cardinality(Running) <= MaxConcurrent
  /\ mgr \in {"running", "ok", "err"}

(* When process_tasks returns Ok, however the tasks interleaved, the      *)
(* store is what applying the tick's events one by one in dispatch order  *)
(* gives (spec S3 and section 8 properties 2 and 3).                       *)
SequentialResult == mgr = "ok" => store = Sequential(EmptyStore, tick)
=============================================================================
