------------------------ MODULE ConditionController ------------------------
(***************************************************************************)
(* The two controllers that report on a CRD in a condition of their own:   *)
(* NonStructuralSchema of pkg/controller/nonstructuralschema and           *)
(* KubernetesAPIApprovalPolicyConformant of pkg/controller/apiapproval.    *)
(* They are one program up to what the condition is computed from, a       *)
(* schema or an annotation.                                                *)
(*                                                                         *)
(* Servers of different versions may compute different conditions.  So     *)
(* that they do not fight, each remembers by name, in lastSeen, what it    *)
(* last updated the condition for (the generation of the schema, or the    *)
(* annotation itself) and leaves that alone.  Several workers run.         *)
(***************************************************************************)
EXTENDS ObjectStore, FiniteSets

CONSTANTS
  Subjects,        \* the schemas, or the values of the annotation
  Conditions,      \* the conditions that describe them
  NoCondition,     \* none is needed
  Settings,        \* the settings, each a Setting: which controller runs, and
                   \* what may happen
  Unseen,          \* lastSeen has no entry
  MaxFaults        \* bound on lost watches, restarts and failed requests

VARIABLES
  queue,     \* [Servers -> SUBSET CRDs], the work queue
  task,      \* [Servers -> [CRDs -> Task]], the syncs under way
  lastSeen,  \* [Servers -> [CRDs -> Seen \cup {Unseen}]]
  faults,    \* how many faults have happened
  setting    \* that of the behaviour, which does not change

controllerVars == <<queue, task, lastSeen, faults>>
vars == <<storageVars, controllerVars, setting>>

\* calculate is what each server computes, byGeneration whether lastSeen holds
\* generations; deletes says if users delete CRDs and losesResponses if a status
\* update that was committed may be reported as failed, resyncs if the periodic
\* resync of the informer happens.
Setting ==
  [ calculate : [Servers -> [Subjects -> Conditions \cup {NoCondition}]],
    byGeneration : BOOLEAN, deletes : BOOLEAN, losesResponses : BOOLEAN,
    resyncs : BOOLEAN ]

Calculate == Settings[setting].calculate
ByGeneration == Settings[setting].byGeneration

CRD == [ name : CRDs, uid : Nat, rv : Nat, subject : Subjects, generation : Nat,
         condition : Conditions \cup {NoCondition} ]

Seen == Subjects \cup Nat

\* A sync sends an update and, when that was accepted, has yet to remember it.
Task == [step : {"idle", "update", "remember"}, crd : CRD \cup {NoCRD}]

Idle == [step |-> "idle", crd |-> NoCRD]

TypeOK ==
  /\ rv \in Nat
  /\ store \in [CRDs -> CRD \cup {NoCRD}]
  /\ cache \in [Servers -> [CRDs -> CRD \cup {NoCRD}]]
  /\ \A s \in Servers : \A e \in watch[s] :
       e.rv \in Nat /\ e.name \in CRDs /\ e.obj \in CRD \cup {NoCRD}
  /\ userWrites \in 0..MaxUserWrites
  /\ queue \in [Servers -> SUBSET CRDs]
  /\ task \in [Servers -> [CRDs -> Task]]
  /\ lastSeen \in [Servers -> [CRDs -> Seen \cup {Unseen}]]
  /\ faults \in 0..MaxFaults
  /\ setting \in DOMAIN Settings

Init ==
  /\ StorageInit
  /\ queue = [s \in Servers |-> {}]
  /\ task = [s \in Servers |-> [k \in CRDs |-> Idle]]
  /\ lastSeen = [s \in Servers |-> [k \in CRDs |-> Unseen]]
  /\ faults = 0
  /\ setting \in DOMAIN Settings

-----------------------------------------------------------------------------
(* The registry.                                                           *)

\* A schema is part of the spec, whose changes count generations.
Generation(crd) == IF ByGeneration THEN crd.generation + 1 ELSE crd.generation

Create(k) ==
  /\ UserWrite
  /\ store[k] = NoCRD
  /\ \E subject \in Subjects :
       Put(k, [name |-> k, uid |-> rv + 1, rv |-> rv + 1, subject |-> subject,
               generation |-> 1, condition |-> NoCondition])

Update(k) ==
  /\ UserWrite
  /\ store[k] # NoCRD
  /\ \E subject \in Subjects \ {store[k].subject} :
       Put(k, [store[k] EXCEPT !.subject = subject,
                               !.generation = Generation(store[k])])

\* A CRD is deleted and finalized.
Delete(k) ==
  /\ Settings[setting].deletes
  /\ UserWrite
  /\ store[k] # NoCRD
  /\ Write(k, NoCRD)

\* The other controllers update conditions of their own.
UpdateOther(k) ==
  /\ UserWrite
  /\ store[k] # NoCRD
  /\ Put(k, store[k])

\* A status update keeps spec and annotations; the ones sent here are those
\* of the stored version.
UpdateStatus(crd) == Put(crd.name, [store[crd.name] EXCEPT !.condition = crd.condition])

-----------------------------------------------------------------------------
(* The informer's handlers: what is added or updated is queued, what is     *)
(* deleted is forgotten.                                                   *)

Fault == faults < MaxFaults /\ faults' = faults + 1

Present(k, objects) == objects[k] # NoCRD

Forget(s, keys) ==
  lastSeen' = [lastSeen EXCEPT ![s] = [k \in CRDs |-> IF k \in keys THEN Unseen ELSE @[k]]]

Deliver(s) ==
  \E e \in watch[s] :
    /\ Receive(s, e)
    /\ IF e.obj = NoCRD
       THEN Forget(s, {e.name}) /\ UNCHANGED queue
       ELSE queue' = [queue EXCEPT ![s] = @ \cup {e.name}] /\ UNCHANGED lastSeen
    /\ UNCHANGED <<task, faults>>

\* A CRD that was deleted and created again in between is an updated one.
Relist(s) ==
  /\ Fault
  /\ List(s)
  /\ queue' = [queue EXCEPT ![s] = @ \cup (Changed(s) \cap Live)]
  /\ Forget(s, Changed(s) \ Live)
  /\ UNCHANGED task

Resync(s) ==
  /\ Settings[setting].resyncs
  /\ queue' = [queue EXCEPT ![s] = @ \cup {k \in CRDs : Present(k, cache[s])}]
  /\ UNCHANGED <<storageVars, task, lastSeen, faults>>

\* The server restarts: its first list adds every CRD.
Restart(s) ==
  /\ Fault
  /\ List(s)
  /\ queue' = [queue EXCEPT ![s] = Live]
  /\ task' = [task EXCEPT ![s] = [k \in CRDs |-> Idle]]
  /\ Forget(s, CRDs)

-----------------------------------------------------------------------------
(* The workers.                                                            *)

SetTask(s, k, t) == task' = [task EXCEPT ![s][k] = t]

Enqueue(s, k) == queue' = [queue EXCEPT ![s] = @ \cup {k}]

SeenOf(crd) == IF ByGeneration THEN crd.generation ELSE crd.subject

\* As if nothing were remembered.
NeverSeen(s, crd) == FALSE

\* As if it mattered only that something is.
SeenAny(s, crd) == lastSeen[s][crd.name] # Unseen

\* What was remembered was remembered for this CRD, or for a later one.
Covers(last, crd) ==
  /\ last # Unseen
  /\ IF ByGeneration THEN crd.generation <= last ELSE crd.subject = last

SeenBefore(s, crd) == Covers(lastSeen[s][crd.name], crd)

\* The condition is as this server would have it, or the server has had its say.
UpToDate(s, crd) == SeenBefore(s, crd) \/ Calculate[s][crd.subject] = crd.condition

Begin(s, k) ==
  LET crd == cache[s][k]
  IN  /\ task[s][k] = Idle
      /\ k \in queue[s]
      /\ queue' = [queue EXCEPT ![s] = @ \ {k}]
      /\ SetTask(s, k,
           IF crd = NoCRD \/ UpToDate(s, crd) THEN Idle
           ELSE [step |-> "update",
                 crd |-> [crd EXCEPT !.condition = Calculate[s][crd.subject]]])
      /\ UNCHANGED <<storageVars, lastSeen, faults>>

Updating(s, k) ==
  /\ task[s][k].step = "update"
  /\ UNCHANGED <<cache, userWrites, lastSeen>>

UpdateAccepted(s, k) ==
  /\ Updating(s, k)
  /\ Current(task[s][k].crd)
  /\ UpdateStatus(task[s][k].crd)
  /\ SetTask(s, k, [task[s][k] EXCEPT !.step = "remember"])
  /\ UNCHANGED <<queue, faults>>

\* NotFound or Conflict: deleted or changed in the meantime.
UpdateRefused(s, k) ==
  /\ Updating(s, k)
  /\ ~ Current(task[s][k].crd)
  /\ SetTask(s, k, Idle)
  /\ UNCHANGED <<rv, store, watch, queue, faults>>

\* Any other error queues the key again, and nothing is remembered.
UpdateFailed(s, k) ==
  /\ Updating(s, k)
  /\ Fault
  /\ SetTask(s, k, Idle)
  /\ Enqueue(s, k)
  /\ UNCHANGED <<rv, store, watch>>

ResponseLost(s, k) ==
  /\ Settings[setting].losesResponses
  /\ Updating(s, k)
  /\ Current(task[s][k].crd)
  /\ Fault
  /\ UpdateStatus(task[s][k].crd)
  /\ SetTask(s, k, Idle)
  /\ Enqueue(s, k)

\* The update is remembered under the name of the CRD, which the delete
\* handler may have forgotten since.
Remember(s, k) ==
  /\ task[s][k].step = "remember"
  /\ lastSeen' = [lastSeen EXCEPT ![s][k] = SeenOf(task[s][k].crd)]
  /\ SetTask(s, k, Idle)
  /\ UNCHANGED <<storageVars, queue, faults>>

Sync(s, k) ==
  \/ Begin(s, k)
  \/ UpdateAccepted(s, k) \/ UpdateRefused(s, k) \/ UpdateFailed(s, k) \/ ResponseLost(s, k)
  \/ Remember(s, k)

-----------------------------------------------------------------------------
UserNext ==
  /\ \E k \in CRDs : Create(k) \/ Update(k) \/ Delete(k) \/ UpdateOther(k)
  /\ UNCHANGED controllerVars

Next ==
  /\ \/ UserNext
     \/ \E s \in Servers, k \in CRDs : Sync(s, k)
     \/ \E s \in Servers : Deliver(s) \/ Resync(s) \/ Relist(s) \/ Restart(s)
  /\ UNCHANGED setting

Spec == Init /\ [][Next]_vars

\* Events are delivered, queued keys taken and syncs continued.
Fairness ==
  /\ \A s \in Servers : WF_vars(UNCHANGED setting /\ Deliver(s))
  /\ \A s \in Servers, k \in CRDs : WF_vars(UNCHANGED setting /\ Sync(s, k))

FairSpec == Spec /\ Fairness

-----------------------------------------------------------------------------
(* Invariants.                                                             *)

\* Every copy of an object bears the name of its key.
NameInv ==
  /\ \A k \in Live : store[k].name = k
  /\ \A s \in Servers : /\ \A k \in CRDs : Present(k, cache[s]) => cache[s][k].name = k
                        /\ \A e \in watch[s] : e.obj # NoCRD => e.obj.name = e.name

\* An update in flight has the condition that its server computes, is no newer
\* than the last write, and one that the store would accept was computed from
\* what is stored.
TaskInv ==
  \A s \in Servers, k \in CRDs :
    LET crd == task[s][k].crd
    IN  task[s][k].step = "update" =>
          /\ crd.name = k
          /\ crd.condition = Calculate[s][crd.subject]
          /\ crd.rv <= rv
          /\ Current(crd) => crd.subject = store[k].subject

ReportInv == StoreInv /\ NameInv /\ TaskInv

\* An update in flight is for what its server has not had a say on, and one that
\* the store would accept was computed from all that the server will be told.
SayInv ==
  \A s \in Servers, k \in CRDs :
    LET crd == task[s][k].crd
    IN  task[s][k].step = "update" =>
          /\ ~ Covers(lastSeen[s][k], crd)
          /\ Current(crd) => /\ cache[s][k] = store[k]
                             /\ crd.generation = store[k].generation

\* What will be remembered once an accepted update is.
Upcoming(s, k) ==
  IF task[s][k].step = "remember" THEN SeenOf(task[s][k].crd) ELSE lastSeen[s][k]

\* A deletion that the server is yet to be told of makes it forget.
WillForget(s, k) == \E e \in watch[s] : e.name = k /\ e.obj = NoCRD

\* Which servers may have a say yet on which CRD as it is stored.
MaySay(s, k) ==
  k \in Live /\ (WillForget(s, k) \/ ~ Covers(Upcoming(s, k), store[k]))

Undecided == {p \in Servers \X CRDs : MaySay(p[1], p[2])}

\* A user's write may give every server a say, and a fault one server a say on
\* every CRD; a controller's write takes one.
FightInv ==
  rv + Cardinality(Undecided)
    <= userWrites + Cardinality(Servers) * userWrites + Cardinality(CRDs) * faults

-----------------------------------------------------------------------------
(* Properties.                                                             *)

\* A condition is computed from a cached CRD and stored later: it describes
\* the schema or annotation stored then, in the words of some server.
DescribesStored ==
  \A k \in CRDs :
    store[k] # NoCRD /\ store'[k] # NoCRD /\ store'[k].condition # store[k].condition
      => \E s \in Servers : store'[k].condition = Calculate[s][store'[k].subject]

ConditionDescribesStored == [][DescribesStored]_store

\* Servers that would have different conditions do not fight: each writes the
\* condition at most once for what a user wrote, and once more for what it
\* forgot or was not told of in a fault.
ServersDoNotFight ==
  rv <= userWrites + Cardinality(Servers) * userWrites + Cardinality(CRDs) * faults

\* Unless CRDs are deleted or responses lost, which leaves a server to remember
\* what it should not or not to remember what it should, the condition comes to
\* describe the CRD.
Described(k) == \E s \in Servers : store[k].condition = Calculate[s][store[k].subject]

Told == ~ Settings[setting].deletes /\ ~ Settings[setting].losesResponses

ConditionSettles == Told => <>[](\A k \in Live : Described(k))

=============================================================================
