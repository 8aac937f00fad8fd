-------------------- MODULE CustomResourceHandler_proofs --------------------
(***************************************************************************)
(* Theorems about CustomResourceHandler, for every number of CRDs,         *)
(* versions and requests, and every bound on changes and storages: its     *)
(* types, that a stale storage is never overlooked, that none is           *)
(* forgotten, and that no request is served by one that was destroyed.     *)
(***************************************************************************)
EXTENDS CustomResourceHandler, SequenceTheorems, TLAPS

-----------------------------------------------------------------------------
(* What the actions do to the sequences.                                   *)

\* The notifications and the storages by their indices.
LEMMA Domains ==
  ASSUME TypeOK
  PROVE  /\ Len(notifications) \in Nat /\ DOMAIN notifications = 1..Len(notifications)
         /\ Len(storages) \in Nat /\ DOMAIN storages = 1..Len(storages)
         /\ \A n \in DOMAIN notifications : notifications[n] \in Notification
         /\ \A i \in DOMAIN storages : storages[i] \in Storage
<1>1. notifications \in Seq(Notification) /\ storages \in Seq(Storage)
  BY DEF TypeOK
<1>2. QED
  BY <1>1, LenProperties, ElementOfSeq

\* What is left of the notifications when the first is handled.
LEMMA Rest ==
  ASSUME TypeOK, Notified
  PROVE  /\ notifications' \in Seq(Notification)
         /\ 1 \in DOMAIN notifications
         /\ Head(notifications) = notifications[1]
         /\ \A n : n \in DOMAIN notifications' <=> n \in Nat \ {0} /\ n + 1 \in DOMAIN notifications
         /\ \A n \in DOMAIN notifications' : notifications'[n] = notifications[n + 1]
<1>1. notifications \in Seq(Notification) /\ notifications # <<>>
  BY DEF TypeOK, Notified
<1>2. notifications' = Tail(notifications)
  BY DEF Notified
<1>3. /\ Tail(notifications) \in Seq(Notification)
      /\ Len(Tail(notifications)) = Len(notifications) - 1
      /\ \A i \in 1..Len(Tail(notifications)) : Tail(notifications)[i] = notifications[i + 1]
      /\ Len(notifications) \in Nat \ {0}
  BY <1>1, HeadTailProperties, EmptySeq
<1>4. DOMAIN Tail(notifications) = 1..Len(Tail(notifications))
  BY <1>3, LenProperties
<1>5. DOMAIN notifications = 1..Len(notifications)
  BY <1>1, LenProperties
<1>6. Head(notifications) = notifications[1]
  BY <1>1
<1>7. QED
  BY <1>2, <1>3, <1>4, <1>5, <1>6

\* The others keep their order.
LEMMA LaterNotified ==
  ASSUME TypeOK, Notified
  PROVE  /\ DOMAIN notifications \in SUBSET Nat
         /\ \A m \in DOMAIN notifications : m # 1 =>
              m - 1 \in DOMAIN notifications' /\ notifications'[m - 1] = notifications[m]
<1>1. DOMAIN notifications = 1..Len(notifications) /\ Len(notifications) \in Nat
  BY Domains
<1>2. /\ \A n : n \in DOMAIN notifications' <=> n \in Nat \ {0} /\ n + 1 \in DOMAIN notifications
      /\ \A n \in DOMAIN notifications' : notifications'[n] = notifications[n + 1]
  BY Rest
<1>3. ASSUME NEW m \in DOMAIN notifications, m # 1
      PROVE  m - 1 \in DOMAIN notifications' /\ notifications'[m - 1] = notifications[m]
  <2>1. m \in Nat /\ m - 1 \in Nat \ {0} /\ (m - 1) + 1 = m
    BY <1>1, <1>3
  <2>2. m - 1 \in DOMAIN notifications'
    BY <1>2, <2>1
  <2>3. QED
    BY <1>2, <2>1, <2>2
<1>4. QED
  BY <1>1, <1>3

\* A change of the cache adds one notification at the end.
LEMMA Notify ==
  ASSUME TypeOK, NEW k \in CRDs, NEW new \in CRD \cup {NoCRD}, Change(k, new)
  PROVE  LET last == Len(notifications) + 1
         IN  /\ notifications' \in Seq(Notification)
             /\ last \in Nat /\ last \notin DOMAIN notifications
             /\ \A n \in DOMAIN notifications : last > n
             /\ DOMAIN notifications' = DOMAIN notifications \cup {last}
             /\ \A n \in DOMAIN notifications : notifications'[n] = notifications[n]
             /\ notifications'[last] = [old |-> cached[k], new |-> new]
<1> DEFINE n == [old |-> cached[k], new |-> new]
<1>1. notifications \in Seq(Notification) /\ cached[k] \in CRD \cup {NoCRD}
  BY DEF TypeOK
<1>2. n \in Notification
  BY <1>1 DEF Notification
<1>3. notifications' = Append(notifications, n)
  BY DEF Change
<1> HIDE DEF n
<1>4. /\ Append(notifications, n) \in Seq(Notification)
      /\ Len(Append(notifications, n)) = Len(notifications) + 1
      /\ \A i \in 1..Len(notifications) : Append(notifications, n)[i] = notifications[i]
      /\ Append(notifications, n)[Len(notifications) + 1] = n
  BY <1>1, <1>2, AppendProperties
<1>5. DOMAIN Append(notifications, n) = 1..(Len(notifications) + 1)
  BY <1>4, LenProperties
<1>6. DOMAIN notifications = 1..Len(notifications) /\ Len(notifications) \in Nat
  BY <1>1, LenProperties
<1>7. DOMAIN notifications' = DOMAIN notifications \cup {Len(notifications) + 1}
  BY <1>3, <1>5, <1>6
<1>8. n = [old |-> cached[k], new |-> new]
  BY DEF n
<1>9. QED
  BY <1>3, <1>4, <1>6, <1>7, <1>8

\* Storages are removed from the map by draining them.
LEMMA Removed ==
  ASSUME TypeOK, NEW stale \in SUBSET customStorage, RemoveStorages(stale)
  PROVE  /\ storages' \in Seq(Storage) /\ Len(storages') = Len(storages)
         /\ DOMAIN storages' = DOMAIN storages
         /\ customStorage' = customStorage \ stale
         /\ \A i \in DOMAIN storages :
              storages'[i] = IF i \in stale THEN [storages[i] EXCEPT !.state = "draining"]
                                            ELSE storages[i]
<1>1. Len(storages) \in Nat /\ DOMAIN storages = 1..Len(storages)
      /\ \A i \in DOMAIN storages : storages[i] \in Storage
  BY Domains
<1>2. /\ DOMAIN storages' = DOMAIN storages
      /\ \A i \in DOMAIN storages :
           storages'[i] = IF i \in stale THEN [storages[i] EXCEPT !.state = "draining"]
                                         ELSE storages[i]
  BY DEF RemoveStorages
<1>3. \A i \in DOMAIN storages : storages'[i] \in Storage
  BY <1>1, <1>2 DEF Storage
<1>4. storages' \in [1..Len(storages) -> Storage]
  BY <1>1, <1>2, <1>3 DEF RemoveStorages
<1>5. storages' \in Seq(Storage) /\ Len(storages') = Len(storages)
  BY <1>1, <1>4
<1>6. QED
  BY <1>2, <1>5 DEF RemoveStorages

\* One storage goes to the next state of its end.
LEMMA StateSet ==
  ASSUME TypeOK, NEW i \in DOMAIN storages,
         NEW state \in {"closed", "destroyed"}, SetState(i, state)
  PROVE  /\ storages' \in Seq(Storage) /\ Len(storages') = Len(storages)
         /\ DOMAIN storages' = DOMAIN storages
         /\ \A j \in DOMAIN storages :
              storages'[j] = IF j = i THEN [storages[i] EXCEPT !.state = state]
                                      ELSE storages[j]
<1>1. Len(storages) \in Nat /\ DOMAIN storages = 1..Len(storages)
      /\ \A j \in DOMAIN storages : storages[j] \in Storage
  BY Domains
<1>2. /\ DOMAIN storages' = DOMAIN storages
      /\ \A j \in DOMAIN storages :
           storages'[j] = IF j = i THEN [storages[i] EXCEPT !.state = state]
                                   ELSE storages[j]
  BY DEF SetState
<1>3. \A j \in DOMAIN storages : storages'[j] \in Storage
  BY <1>1, <1>2 DEF Storage
<1>4. storages' \in [1..Len(storages) -> Storage]
  BY <1>1, <1>2, <1>3 DEF SetState
<1>5. QED
  BY <1>1, <1>2, <1>4

\* A new storage is the last and is in the map.
LEMMA Added ==
  ASSUME TypeOK, NEW crd \in CRD, StorageOf(crd.uid) = {}, Add(crd)
  PROVE  LET last == Len(storages) + 1
         IN  /\ storages' \in Seq(Storage) /\ Len(storages') <= MaxStorages
             /\ last \in Nat /\ last \notin DOMAIN storages
             /\ DOMAIN storages' = DOMAIN storages \cup {last}
             /\ customStorage' = customStorage \cup {last}
             /\ \A i \in DOMAIN storages : storages'[i] = storages[i]
             /\ storages'[last] = [uid |-> crd.uid, version |-> crd.version,
                                   state |-> "serving"]
<1> DEFINE new == [uid |-> crd.uid, version |-> crd.version, state |-> "serving"]
<1>1. storages \in Seq(Storage)
  BY DEF TypeOK
<1>2. new \in Storage
  BY DEF Storage, CRD
<1>3. storages' = Append(storages, new) /\ Len(storages) < MaxStorages
  BY DEF Add
<1> HIDE DEF new
<1>4. /\ Append(storages, new) \in Seq(Storage)
      /\ Len(Append(storages, new)) = Len(storages) + 1
      /\ \A i \in 1..Len(storages) : Append(storages, new)[i] = storages[i]
      /\ Append(storages, new)[Len(storages) + 1] = new
  BY <1>1, <1>2, AppendProperties
<1>5. DOMAIN Append(storages, new) = 1..(Len(storages) + 1)
  BY <1>4, LenProperties
<1>6. DOMAIN storages = 1..Len(storages) /\ Len(storages) \in Nat
  BY <1>1, LenProperties
<1>7. DOMAIN storages' = DOMAIN storages \cup {Len(storages) + 1}
  BY <1>3, <1>5, <1>6
<1>8. new = [uid |-> crd.uid, version |-> crd.version, state |-> "serving"]
  BY DEF new
<1>9. Len(storages') <= MaxStorages
  BY <1>3, <1>4, <1>6, HandlerAssumption
<1>10. QED
  BY <1>3, <1>4, <1>6, <1>7, <1>8, <1>9 DEF Add


-----------------------------------------------------------------------------
(* Types.                                                                  *)

\* A change of the cache is one of a CRD to another or to none.
LEMMA InformerChanges ==
  ASSUME TypeOK, Informer
  PROVE  \E k \in CRDs, new \in CRD \cup {NoCRD} :
           Change(k, new) /\ (new # NoCRD => new.uid \in Uids(k))
<1>1. \A k \in CRDs : Uids(k) \in SUBSET Nat
  BY DEF Uids, TypeOK, CRD
<1>2. \A k \in CRDs, uid \in Nat, version \in Versions, served \in BOOLEAN :
        (served => version \notin Unnamed)
          => [uid |-> uid, version |-> version, served |-> served] \in CRD
  BY DEF CRD
<1>3. CASE \E k \in CRDs : Change(k, NoCRD)
  BY <1>3
<1>4. ASSUME NEW k \in CRDs, NEW uid \in Uids(k), NEW version \in Versions,
             NEW served \in BOOLEAN, served => version \notin Unnamed,
             Change(k, [uid |-> uid, version |-> version, served |-> served])
      PROVE  \E new \in CRD \cup {NoCRD} :
               Change(k, new) /\ (new # NoCRD => new.uid \in Uids(k))
  <2> DEFINE crd == [uid |-> uid, version |-> version, served |-> served]
  <2>1. crd \in CRD /\ crd.uid \in Uids(k) /\ Change(k, crd)
    BY <1>1, <1>2, <1>4
  <2> HIDE DEF crd
  <2>2. QED
    BY <2>1
<1>5. QED
  BY <1>3, <1>4 DEF Informer

\* A request goes on with its storage, or ends.
LEMMA RequestType ==
  ASSUME TypeOK, NEW r \in Requests
  PROVE  /\ Respond(r) => request' \in [Requests -> Request \cup {Idle}]
         /\ request[r] # Idle =>
              /\ \A step \in {"build", "served", "overrun"} :
                   Advance(r, step) => request' \in [Requests -> Request \cup {Idle}]
              /\ \A i \in Nat : Find(r, i) => request' \in [Requests -> Request \cup {Idle}]
<1>1. request \in [Requests -> Request \cup {Idle}]
  BY DEF TypeOK
<1>2. Respond(r) => request' \in [Requests -> Request \cup {Idle}]
  BY <1>1 DEF Respond
<1>3. ASSUME request[r] # Idle, NEW step \in {"build", "served", "overrun"}, Advance(r, step)
      PROVE  request' \in [Requests -> Request \cup {Idle}]
  <2>1. request[r] \in Request
    BY <1>1, <1>3
  <2>2. [request[r] EXCEPT !.step = step] \in Request
    BY <2>1 DEF Request
  <2>3. QED
    BY <1>1, <1>3, <2>2 DEF Advance
<1>4. ASSUME request[r] # Idle, NEW i \in Nat, Find(r, i)
      PROVE  request' \in [Requests -> Request \cup {Idle}]
  <2>1. request[r] \in Request
    BY <1>1, <1>4
  <2>2. [request[r] EXCEPT !.step = "found", !.storage = i] \in Request
    BY <2>1 DEF Request
  <2>3. QED
    BY <1>1, <1>4, <2>2 DEF Find
<1>5. QED
  BY <1>2, <1>3, <1>4

\* Every step keeps the types.
LEMMA NextType == TypeOK /\ [Next]_vars => TypeOK'
<1> SUFFICES ASSUME TypeOK, [Next]_vars PROVE TypeOK'
  OBVIOUS
<1>1. CASE Informer
  <2>1. PICK k \in CRDs, new \in CRD \cup {NoCRD} : Change(k, new)
    BY <1>1, InformerChanges
  <2>2. notifications' \in Seq(Notification)
    BY <2>1, Notify
  <2>3. changes' \in 0..MaxChanges
    BY <2>1, HandlerAssumption DEF Change, TypeOK
  <2>4. cached' \in [CRDs -> CRD \cup {NoCRD}]
    BY <2>1 DEF Change, TypeOK
  <2>5. QED
    BY <2>1, <2>2, <2>3, <2>4 DEF Change, TypeOK, storageVars
<1>2. CASE HandleUpdate
  <2> DEFINE n == Head(notifications)
             stale == {i \in customStorage : Stale(i, n.old, n.new)}
  <2>1. Notified /\ RemoveStorages(stale) /\ UNCHANGED listed
    BY <1>2 DEF HandleUpdate
  <2>2. stale \in SUBSET customStorage
    OBVIOUS
  <2> HIDE DEF stale
  <2>3. notifications' \in Seq(Notification)
    BY <2>1, Rest
  <2>4. storages' \in Seq(Storage) /\ Len(storages') = Len(storages)
        /\ DOMAIN storages' = DOMAIN storages /\ customStorage' = customStorage \ stale
    BY <2>1, <2>2, Removed
  <2>5. QED
    BY <2>1, <2>3, <2>4 DEF Notified, TypeOK
<1>3. CASE HandleDelete
  <2>1. notifications' \in Seq(Notification)
    BY <1>3, Rest DEF HandleDelete
  <2>2. \A uids \in listed' : uids \in SUBSET Nat /\ listed' = {uids}
    <3> DEFINE uids == {cached[k].uid : k \in {j \in CRDs : cached[j] # NoCRD}}
    <3>1. uids \in SUBSET Nat
      BY DEF TypeOK, CRD
    <3>2. listed' = {uids}
      BY <1>3 DEF HandleDelete
    <3> HIDE DEF uids
    <3>3. QED
      BY <3>1, <3>2
  <2>3. QED
    BY <1>3, <2>1, <2>2 DEF HandleDelete, Notified, TypeOK
<1>4. CASE RemoveDeadStorage
  <2>1. PICK uids \in listed :
          RemoveStorages({i \in customStorage : storages[i].uid \notin uids})
    BY <1>4 DEF RemoveDeadStorage
  <2> DEFINE stale == {i \in customStorage : storages[i].uid \notin uids}
  <2>2. stale \in SUBSET customStorage /\ RemoveStorages(stale)
    BY <2>1
  <2> HIDE DEF stale
  <2>3. storages' \in Seq(Storage) /\ Len(storages') = Len(storages)
        /\ DOMAIN storages' = DOMAIN storages /\ customStorage' = customStorage \ stale
    BY <2>2, Removed
  <2>4. QED
    BY <1>4, <2>3 DEF RemoveDeadStorage, informerVars, TypeOK
<1>5. ASSUME NEW i \in DOMAIN storages, TearDown(i)
      PROVE  TypeOK'
  <2>1. PICK state \in {"closed", "destroyed"} : SetState(i, state)
    BY <1>5 DEF TearDown, Close, Destroy
  <2>2. storages' \in Seq(Storage) /\ Len(storages') = Len(storages)
        /\ DOMAIN storages' = DOMAIN storages
    BY <2>1, StateSet
  <2>3. QED
    BY <2>1, <2>2 DEF SetState, informerVars, TypeOK
<1>6. ASSUME NEW r \in Requests, NEW k \in CRDs, Lookup(r, k)
      PROVE  TypeOK'
  <2>1. cached[k].uid \in Nat
    BY <1>6 DEF Lookup, TypeOK, CRD
  <2>2. [step |-> "resolve", name |-> k, uid |-> cached[k].uid, storage |-> 0] \in Request
    BY <2>1 DEF Request
  <2>3. QED
    BY <1>6, <2>2 DEF Lookup, TypeOK, informerVars, storageVars
<1>7. ASSUME NEW r \in Requests, Serve(r)
      PROVE  TypeOK'
  <2>1. customStorage \in SUBSET Nat
    BY Domains DEF TypeOK
  <2>2. CASE Resolve(r)
    <3>1. request' \in [Requests -> Request \cup {Idle}]
      BY <2>1, <2>2, RequestType DEF Resolve, At, StorageOf
    <3>2. QED
      BY <2>2, <3>1 DEF Resolve, TypeOK, informerVars, storageVars
  <2>3. CASE BuildFailed(r)
    <3>1. request' \in [Requests -> Request \cup {Idle}]
      BY <2>3, RequestType DEF BuildFailed
    <3>2. QED
      BY <2>3, <3>1 DEF BuildFailed, Building, TypeOK, informerVars
  <2>4. ASSUME NEW crd \in {cached[k] : k \in CRDs} \ {NoCRD}, Building(r, crd),
               StorageOf(crd.uid) = {}, Add(crd), Find(r, Len(storages) + 1)
        PROVE  TypeOK'
    <3>1. crd \in CRD
      BY DEF TypeOK
    <3>2. storages' \in Seq(Storage) /\ Len(storages') <= MaxStorages
          /\ DOMAIN storages' = DOMAIN storages \cup {Len(storages) + 1}
          /\ customStorage' = customStorage \cup {Len(storages) + 1}
      BY <2>4, <3>1, Added
    <3>3. request' \in [Requests -> Request \cup {Idle}]
      BY <2>4, Domains, RequestType DEF Building, At
    <3>4. QED
      BY <2>4, <3>2, <3>3 DEF Building, TypeOK, informerVars
  <2>5. ASSUME NEW crd \in {cached[k] : k \in CRDs} \ {NoCRD}, Building(r, crd),
               NEW i \in StorageOf(crd.uid), Find(r, i), UNCHANGED <<storages, customStorage>>
        PROVE  TypeOK'
    <3>1. request' \in [Requests -> Request \cup {Idle}]
      BY <2>1, <2>5, RequestType DEF Building, At, StorageOf
    <3>2. QED
      BY <2>5, <3>1 DEF Building, TypeOK, informerVars
  <2>6. CASE Build(r)
    BY <2>4, <2>5, <2>6 DEF Build
  <2>7. CASE Register(r) \/ Overrun(r) \/ Finish(r)
    <3>1. request' \in [Requests -> Request \cup {Idle}]
      BY <2>7, RequestType DEF Register, Overrun, Finish, At
    <3>2. QED
      BY <2>7, <3>1 DEF Register, Overrun, Finish, TypeOK, informerVars, storageVars
  <2>8. QED
    BY <1>7, <2>2, <2>3, <2>6, <2>7 DEF Serve
<1>8. CASE UNCHANGED vars
  BY <1>8 DEF vars, informerVars, storageVars, TypeOK
<1>9. QED
  BY <1>1, <1>2, <1>3, <1>4, <1>5, <1>6, <1>7, <1>8 DEF Next, Handle

\* The types hold initially.
LEMMA InitType == Init => TypeOK
<1> SUFFICES ASSUME Init PROVE TypeOK
  OBVIOUS
<1>1. notifications \in Seq(Notification) /\ storages \in Seq(Storage) /\ Len(storages) = 0
  BY EmptySeq DEF Init
<1>2. QED
  BY <1>1, HandlerAssumption DEF Init, TypeOK

\* The handler's state has its types, however requests, notifications and the
\* ends of storages overlap.
THEOREM TypeCorrect == Spec => []TypeOK
<1>1. TypeOK /\ [Next]_vars => TypeOK'
  BY NextType
<1>2. QED
  BY <1>1, InitType, PTL DEF Spec


-----------------------------------------------------------------------------
(* The history of the cache.                                               *)

\* The uid of a CRD is new or is that of the CRD it was.
LEMMA ChangeHistory ==
  ASSUME TypeOK, UidInv, NotificationInv, NEW k \in CRDs, NEW new \in CRD \cup {NoCRD},
         Change(k, new), new # NoCRD => new.uid \in Uids(k)
  PROVE  UidInv' /\ NotificationInv'
<1> DEFINE last == Len(notifications) + 1
<1>1. /\ last \in Nat /\ last \notin DOMAIN notifications
      /\ \A n \in DOMAIN notifications : last > n
      /\ DOMAIN notifications' = DOMAIN notifications \cup {last}
      /\ \A n \in DOMAIN notifications : notifications'[n] = notifications[n]
      /\ notifications'[last] = [old |-> cached[k], new |-> new]
  BY Notify
<1> HIDE DEF last
<1>2. /\ changes \in Nat /\ changes' = changes + 1
      /\ cached'[k] = new /\ new # cached[k]
      /\ \A j \in CRDs \ {k} : cached'[j] = cached[j]
      /\ \A j \in CRDs : cached[j] # NoCRD => cached[j] \in CRD /\ cached[j].uid \in Nat
  BY HandlerAssumption DEF Change, TypeOK, CRD
<1>3. new # NoCRD =>
        /\ new.uid \in Nat
        /\ \/ new.uid = changes + 1
           \/ cached[k] # NoCRD /\ new.uid = cached[k].uid
  BY DEF Uids, CRD
<1>4. \A n \in DOMAIN notifications : notifications[n].old # NoCRD =>
        notifications[n].old.uid \in Nat /\ notifications[n].old.uid <= changes
  BY Domains DEF Notification, CRD, UidInv
<1>5. UidInv'
  <2>1. \A j \in CRDs : cached'[j] # NoCRD => cached'[j].uid <= changes'
    BY <1>2, <1>3 DEF UidInv
  <2>2. \A i, j \in CRDs :
          cached'[i] # NoCRD /\ cached'[j] # NoCRD /\ cached'[i].uid = cached'[j].uid => i = j
    BY <1>2, <1>3 DEF UidInv
  <2>3. \A n \in DOMAIN notifications' :
          notifications'[n].old # NoCRD => notifications'[n].old.uid <= changes'
    BY <1>1, <1>2, <1>4 DEF UidInv
  <2>4. QED
    BY <2>1, <2>2, <2>3 DEF UidInv
<1>6. ASSUME NEW n \in DOMAIN notifications'
      PROVE  notifications'[n].old # notifications'[n].new
  BY <1>1, <1>2 DEF NotificationInv
<1>7. ASSUME NEW n \in DOMAIN notifications', notifications'[n].new # NoCRD
      PROVE  \/ \E j \in CRDs : cached'[j] = notifications'[n].new
             \/ \E m \in DOMAIN notifications' :
                  m > n /\ notifications'[m].old = notifications'[n].new
  <2>1. CASE n = last
    BY <1>1, <1>2, <2>1
  <2>2. CASE n \in DOMAIN notifications
    <3>1. CASE \E j \in CRDs : cached[j] = notifications[n].new
      BY <1>1, <1>2, <2>2, <3>1
    <3>2. CASE \E m \in DOMAIN notifications :
                 m > n /\ notifications[m].old = notifications[n].new
      BY <1>1, <2>2, <3>2
    <3>3. QED
      BY <1>1, <1>7, <2>2, <3>1, <3>2 DEF NotificationInv
  <2>3. QED
    BY <1>1, <2>1, <2>2
<1>8. ASSUME NEW n \in DOMAIN notifications', notifications'[n].new = NoCRD,
             NEW j \in CRDs, cached'[j] # NoCRD
      PROVE  cached'[j].uid # notifications'[n].old.uid
  <2>1. CASE n = last
    BY <1>1, <1>2, <1>8, <2>1 DEF UidInv
  <2>2. CASE n \in DOMAIN notifications
    <3>1. notifications[n].new = NoCRD /\ notifications[n].old # NoCRD
      BY <1>1, <1>8, <2>2 DEF NotificationInv
    <3>2. \A i \in CRDs : cached[i] # NoCRD => cached[i].uid # notifications[n].old.uid
      BY <2>2, <3>1 DEF NotificationInv
    <3>3. QED
      BY <1>1, <1>2, <1>3, <1>4, <1>8, <2>2, <3>1, <3>2
  <2>3. QED
    BY <1>1, <2>1, <2>2
<1>9. QED
  BY <1>5, <1>6, <1>7, <1>8 DEF NotificationInv

\* What the first notification brings, a later one takes away.
LEMMA NotifiedHistory ==
  ASSUME TypeOK, UidInv, NotificationInv, Notified
  PROVE  UidInv' /\ NotificationInv'
<1>1. /\ DOMAIN notifications \in SUBSET Nat
      /\ \A n : n \in DOMAIN notifications' <=> n \in Nat \ {0} /\ n + 1 \in DOMAIN notifications
      /\ \A n \in DOMAIN notifications' : notifications'[n] = notifications[n + 1]
      /\ \A m \in DOMAIN notifications : m # 1 =>
           m - 1 \in DOMAIN notifications' /\ notifications'[m - 1] = notifications[m]
  BY Rest, LaterNotified
<1>2. UNCHANGED <<cached, changes>>
  BY DEF Notified
<1>3. UidInv'
  BY <1>1, <1>2 DEF UidInv
<1>4. ASSUME NEW n \in DOMAIN notifications'
      PROVE  /\ notifications'[n].old # notifications'[n].new
             /\ notifications'[n].new = NoCRD =>
                  \A j \in CRDs : cached'[j] # NoCRD => cached'[j].uid # notifications'[n].old.uid
  BY <1>1, <1>2 DEF NotificationInv
<1>5. ASSUME NEW n \in DOMAIN notifications', notifications'[n].new # NoCRD
      PROVE  \/ \E j \in CRDs : cached'[j] = notifications'[n].new
             \/ \E m \in DOMAIN notifications' :
                  m > n /\ notifications'[m].old = notifications'[n].new
  <2>1. n \in Nat /\ n + 1 \in DOMAIN notifications /\ notifications'[n] = notifications[n + 1]
    BY <1>1
  <2>2. \/ \E j \in CRDs : cached[j] = notifications[n + 1].new
        \/ \E m \in DOMAIN notifications :
             m > n + 1 /\ notifications[m].old = notifications[n + 1].new
    BY <1>5, <2>1 DEF NotificationInv
  <2>3. ASSUME NEW m \in DOMAIN notifications, m > n + 1,
               notifications[m].old = notifications[n + 1].new
        PROVE  /\ m - 1 \in DOMAIN notifications' /\ m - 1 > n
               /\ notifications'[m - 1].old = notifications'[n].new
    BY <1>1, <2>1, <2>3
  <2>4. QED
    BY <1>2, <2>1, <2>2, <2>3
<1>6. QED
  BY <1>3, <1>4, <1>5 DEF NotificationInv

\* Every other step leaves the cache and the notifications alone.
LEMMA NextHistory ==
  ASSUME TypeOK, UidInv, NotificationInv, [Next]_vars
  PROVE  UidInv' /\ NotificationInv'
<1>1. CASE Informer
  BY <1>1, InformerChanges, ChangeHistory
<1>2. CASE Notified
  BY <1>2, NotifiedHistory
<1>3. CASE UNCHANGED informerVars
  BY <1>3 DEF informerVars, UidInv, NotificationInv
<1>4. [Next]_vars => Informer \/ Notified \/ UNCHANGED informerVars
  BY DEF Next, vars, Handle, HandleUpdate, HandleDelete, RemoveDeadStorage, TearDown, Close,
         Destroy, SetState, Lookup, Serve, Resolve, BuildFailed, Build, Building, Register,
         Finish, Overrun
<1>5. QED
  BY <1>1, <1>2, <1>3, <1>4


-----------------------------------------------------------------------------
(* The storages and who holds them.                                        *)

\* A storage stays that of the version it was built for.
KeepsStorages ==
  \A i \in DOMAIN storages :
    /\ i \in DOMAIN storages'
    /\ storages'[i].uid = storages[i].uid
    /\ storages'[i].version = storages[i].version

\* The three parts of the invariant that are about storages and requests.
HoldersInv == RequestInv /\ NoneForgotten /\ ServedByLiveStorage

\* Storages leave the map together, and drain.
LEMMA RemovedHolders ==
  ASSUME TypeOK, HoldersInv, NEW stale \in SUBSET customStorage, RemoveStorages(stale),
         UNCHANGED request
  PROVE  HoldersInv' /\ KeepsStorages
<1>1. /\ DOMAIN storages' = DOMAIN storages
      /\ customStorage' = customStorage \ stale
      /\ \A i \in DOMAIN storages :
           storages'[i] = IF i \in stale THEN [storages[i] EXCEPT !.state = "draining"]
                                         ELSE storages[i]
  BY Removed
<1>2. \A i \in DOMAIN storages :
        /\ storages'[i].uid = storages[i].uid
        /\ storages'[i].version = storages[i].version
        /\ storages'[i].state = IF i \in stale THEN "draining" ELSE storages[i].state
  BY <1>1, Domains DEF Storage
<1>3. customStorage \in SUBSET DOMAIN storages
  BY DEF TypeOK
<1>4. NoneForgotten'
  BY <1>1, <1>2, <1>3 DEF HoldersInv, NoneForgotten
<1>5. RequestInv'
  BY <1>1 DEF HoldersInv, RequestInv
<1>6. ServedByLiveStorage'
  BY <1>2 DEF HoldersInv, RequestInv, ServedByLiveStorage, At
<1>7. QED
  BY <1>1, <1>2, <1>4, <1>5, <1>6 DEF HoldersInv, KeepsStorages

\* A storage that is torn down is no longer in the map, and is destroyed when
\* no request uses it.
LEMMA TearDownHolders ==
  ASSUME TypeOK, HoldersInv, NEW i \in DOMAIN storages, TearDown(i)
  PROVE  HoldersInv' /\ KeepsStorages
<1>1. PICK state \in {"closed", "destroyed"} :
        /\ SetState(i, state)
        /\ storages[i].state # "serving"
        /\ state = "destroyed" => Users(i) = {}
  BY DEF TearDown, Close, Destroy
<1>2. /\ DOMAIN storages' = DOMAIN storages
      /\ \A j \in DOMAIN storages :
           storages'[j] = IF j = i THEN [storages[i] EXCEPT !.state = state]
                                   ELSE storages[j]
  BY <1>1, StateSet
<1>3. \A j \in DOMAIN storages :
        /\ storages'[j].uid = storages[j].uid
        /\ storages'[j].version = storages[j].version
        /\ storages'[j].state = IF j = i THEN state ELSE storages[j].state
  BY <1>2, Domains DEF Storage
<1>4. UNCHANGED <<customStorage, request>>
  BY <1>1 DEF SetState
<1>5. customStorage \in SUBSET DOMAIN storages
  BY DEF TypeOK
<1>6. NoneForgotten'
  BY <1>1, <1>2, <1>3, <1>4, <1>5 DEF HoldersInv, NoneForgotten
<1>7. RequestInv'
  BY <1>2, <1>4 DEF HoldersInv, RequestInv
<1>8. ServedByLiveStorage'
  <2>1. SUFFICES ASSUME NEW r \in Requests, At(r, "served")
                 PROVE  storages'[request[r].storage].state # "destroyed"
    BY <1>4 DEF ServedByLiveStorage, At
  <2>2. request[r].storage \in DOMAIN storages /\ storages[request[r].storage].state # "destroyed"
    BY <2>1 DEF HoldersInv, RequestInv, ServedByLiveStorage, At
  <2>3. request[r].storage = i => r \in Users(i)
    BY <2>1 DEF Users
  <2>4. QED
    BY <1>1, <1>3, <2>2, <2>3
<1>9. QED
  BY <1>2, <1>3, <1>6, <1>7, <1>8 DEF HoldersInv, KeepsStorages

\* A request ends, or goes on with a storage: it is served by one that was not
\* destroyed.
LEMMA RequestHolders ==
  ASSUME TypeOK, HoldersInv, NEW r \in Requests, UNCHANGED <<storages, customStorage>>,
         \/ Respond(r)
         \/ \E k \in CRDs : Lookup(r, k)
         \/ At(r, "resolve") /\ Advance(r, "build")
         \/ request[r] # Idle /\ \E i \in DOMAIN storages : Find(r, i)
         \/ /\ At(r, "found") /\ Advance(r, "served")
            /\ storages[request[r].storage].state \in {"serving", "draining"}
         \/ At(r, "served") /\ Advance(r, "overrun")
  PROVE  HoldersInv' /\ KeepsStorages
<1>1. request \in [Requests -> Request \cup {Idle}]
  BY DEF TypeOK
<1>2. \A q \in Requests \ {r} : request'[q] = request[q]
  BY <1>1 DEF Respond, Lookup, Advance, Find
<1>3. request'[r] # Idle /\ request'[r].step \in {"found", "served", "overrun"} =>
        /\ request'[r].storage \in DOMAIN storages
        /\ request'[r].step = "served" =>
             storages[request'[r].storage].state # "destroyed"
  <2>1. CASE Respond(r)
    BY <1>1, <2>1 DEF Respond
  <2>2. CASE \E k \in CRDs : Lookup(r, k)
    <3>1. request'[r].step = "resolve"
      BY <1>1, <2>2 DEF Lookup
    <3>2. QED
      BY <3>1
  <2>3. CASE request[r] # Idle /\ (At(r, "resolve") /\ Advance(r, "build"))
    <3>1. request[r] \in Request /\ request'[r] = [request[r] EXCEPT !.step = "build"]
      BY <1>1, <2>3 DEF Advance
    <3>2. request'[r].step = "build"
      BY <3>1 DEF Request
    <3>3. QED
      BY <3>2
  <2>4. CASE request[r] # Idle /\ \E i \in DOMAIN storages : Find(r, i)
    <3>1. PICK i \in DOMAIN storages : Find(r, i)
      BY <2>4
    <3>2. request[r] \in Request
          /\ request'[r] = [request[r] EXCEPT !.step = "found", !.storage = i]
      BY <1>1, <2>4, <3>1 DEF Find
    <3>3. request'[r].step = "found" /\ request'[r].storage = i
      BY <3>2 DEF Request
    <3>4. QED
      BY <3>3
  <2>5. ASSUME NEW step \in {"served", "overrun"}, Advance(r, step), request[r] # Idle,
               request[r].step \in {"found", "served"},
               step = "served" => storages[request[r].storage].state \in {"serving", "draining"}
        PROVE  /\ request'[r].storage \in DOMAIN storages
               /\ request'[r].step = "served" =>
                    storages[request'[r].storage].state # "destroyed"
    <3>1. request[r] \in Request /\ request'[r] = [request[r] EXCEPT !.step = step]
      BY <1>1, <2>5 DEF Advance
    <3>2. request'[r].step = step /\ request'[r].storage = request[r].storage
      BY <3>1 DEF Request
    <3>3. request[r].storage \in DOMAIN storages
      BY <2>5 DEF HoldersInv, RequestInv
    <3>4. QED
      BY <2>5, <3>2, <3>3
  <2>6. QED
    BY <2>1, <2>2, <2>3, <2>4, <2>5 DEF At
<1>4. RequestInv'
  BY <1>2, <1>3 DEF HoldersInv, RequestInv
<1>5. ServedByLiveStorage'
  BY <1>2, <1>3 DEF HoldersInv, ServedByLiveStorage, At
<1>6. QED
  BY <1>4, <1>5 DEF HoldersInv, NoneForgotten, KeepsStorages

\* The storage that a request builds is the only one of its uid in the map.
LEMMA AddedHolders ==
  ASSUME TypeOK, HoldersInv, NEW r \in Requests, NEW crd \in CRD, request[r] # Idle,
         StorageOf(crd.uid) = {}, Add(crd), Find(r, Len(storages) + 1)
  PROVE  HoldersInv' /\ KeepsStorages
<1> DEFINE last == Len(storages) + 1
<1>1. /\ last \in Nat /\ last \notin DOMAIN storages
      /\ DOMAIN storages' = DOMAIN storages \cup {last}
      /\ customStorage' = customStorage \cup {last}
      /\ \A i \in DOMAIN storages : storages'[i] = storages[i]
      /\ storages'[last] = [uid |-> crd.uid, version |-> crd.version, state |-> "serving"]
      /\ Find(r, last)
  BY Added
<1> HIDE DEF last
<1>2. customStorage \in SUBSET DOMAIN storages
  BY DEF TypeOK
<1>3. \A i \in customStorage : storages[i].uid # crd.uid
  BY DEF StorageOf
<1>4. NoneForgotten'
  <2>1. \A i \in DOMAIN storages' : storages'[i].state = "serving" <=> i \in customStorage'
    BY <1>1, <1>2 DEF HoldersInv, NoneForgotten
  <2>2. \A i, j \in customStorage' : storages'[i].uid = storages'[j].uid => i = j
    BY <1>1, <1>2, <1>3 DEF HoldersInv, NoneForgotten
  <2>3. QED
    BY <2>1, <2>2 DEF NoneForgotten
<1>5. /\ \A q \in Requests \ {r} : request'[q] = request[q]
      /\ request'[r].step = "found" /\ request'[r].storage = last
  <2>1. request \in [Requests -> Request \cup {Idle}] /\ request[r] \in Request
    BY DEF TypeOK
  <2>2. request'[r] = [request[r] EXCEPT !.step = "found", !.storage = last]
        /\ \A q \in Requests \ {r} : request'[q] = request[q]
    BY <1>1, <2>1 DEF Find
  <2>3. QED
    BY <2>1, <2>2 DEF Request
<1>6. RequestInv'
  BY <1>1, <1>5 DEF HoldersInv, RequestInv
<1>7. ServedByLiveStorage'
  BY <1>1, <1>5 DEF HoldersInv, RequestInv, ServedByLiveStorage, At
<1>8. QED
  BY <1>1, <1>4, <1>6, <1>7 DEF HoldersInv, KeepsStorages


-----------------------------------------------------------------------------
(* Stale storages.                                                         *)

\* A storage is the one of a cached CRD.
Current(i) == \E k \in CRDs : cached[k] # NoCRD /\ Matches(i, cached[k])

\* A notification is about the CRD of a storage.
NotifiedOf(i, n) ==
  \E crd \in {notifications[n].old, notifications[n].new} \ {NoCRD} :
    crd.uid = storages[i].uid

LEMMA StaleIsHandledOf ==
  StaleIsHandled <=>
    \A i \in customStorage :
      \/ \E n \in DOMAIN notifications : NotifiedOf(i, n)
      \/ \E uids \in listed : storages[i].uid \notin uids
      \/ Current(i)
BY DEF StaleIsHandled, ToBeHandled, NotifiedOf, Current

\* What is not yet handled of a change takes the place of the CRD it changed.
LEMMA ChangeStale ==
  ASSUME TypeOK, StaleIsHandled, NEW k \in CRDs, NEW new \in CRD \cup {NoCRD}, Change(k, new)
  PROVE  StaleIsHandled'
<1> DEFINE last == Len(notifications) + 1
<1>1. /\ DOMAIN notifications' = DOMAIN notifications \cup {last}
      /\ \A n \in DOMAIN notifications : notifications'[n] = notifications[n]
      /\ notifications'[last] = [old |-> cached[k], new |-> new]
  BY Notify
<1> HIDE DEF last
<1>2. /\ UNCHANGED <<listed, storages, customStorage>>
      /\ \A j \in CRDs \ {k} : cached'[j] = cached[j]
  BY DEF Change, storageVars, TypeOK
<1>3. SUFFICES ASSUME NEW i \in customStorage
               PROVE  \/ \E n \in DOMAIN notifications' : NotifiedOf(i, n)'
                      \/ \E uids \in listed' : storages'[i].uid \notin uids
                      \/ Current(i)'
  BY <1>2 DEF StaleIsHandled, ToBeHandled, NotifiedOf, Current
<1>4. CASE \E n \in DOMAIN notifications : NotifiedOf(i, n)
  BY <1>1, <1>2, <1>4 DEF NotifiedOf
<1>5. CASE \E uids \in listed : storages[i].uid \notin uids
  BY <1>2, <1>5
<1>6. ASSUME NEW j \in CRDs, cached[j] # NoCRD, Matches(i, cached[j])
      PROVE  \/ \E n \in DOMAIN notifications' : NotifiedOf(i, n)'
             \/ Current(i)'
  <2>1. CASE j = k
    <3>1. notifications'[last].old # NoCRD /\ notifications'[last].old.uid = storages'[i].uid
      BY <1>1, <1>2, <1>6, <2>1 DEF Matches
    <3>2. QED
      BY <1>1, <3>1 DEF NotifiedOf
  <2>2. CASE j # k
    BY <1>2, <1>6, <2>2 DEF Current, Matches
  <2>3. QED
    BY <2>1, <2>2
<1>7. QED
  BY <1>4, <1>5, <1>6, StaleIsHandledOf DEF Current

\* Handled notifications leave behind those of the storages they are about that
\* are the ones of what was notified.
LEMMA UpdateStale ==
  ASSUME TypeOK, NotificationInv, StaleIsHandled, HandleUpdate, KeepsStorages
  PROVE  StaleIsHandled'
<1> DEFINE old == notifications[1].old
           new == notifications[1].new
           stale == {i \in customStorage : Stale(i, old, new)}
<1>1. /\ Notified /\ 1 \in DOMAIN notifications /\ new # NoCRD
      /\ customStorage' = customStorage \ stale
      /\ UNCHANGED <<cached, listed>>
  BY Rest DEF HandleUpdate, RemoveStorages, Notified
<1>2. \A m \in DOMAIN notifications : m # 1 =>
        m - 1 \in DOMAIN notifications' /\ notifications'[m - 1] = notifications[m]
  BY <1>1, LaterNotified
<1>3. customStorage \in SUBSET DOMAIN storages
  BY DEF TypeOK
<1>4. SUFFICES ASSUME NEW i \in customStorage \ stale
               PROVE  \/ \E n \in DOMAIN notifications' : NotifiedOf(i, n)'
                      \/ \E uids \in listed' : storages'[i].uid \notin uids
                      \/ Current(i)'
  BY <1>1 DEF StaleIsHandled, ToBeHandled, NotifiedOf, Current
<1>5. storages'[i].uid = storages[i].uid /\ storages'[i].version = storages[i].version
  BY <1>3 DEF KeepsStorages
<1>6. ASSUME NEW m \in DOMAIN notifications, m # 1, NotifiedOf(i, m)
      PROVE  \E n \in DOMAIN notifications' : NotifiedOf(i, n)'
  BY <1>2, <1>5, <1>6 DEF NotifiedOf
<1>7. CASE \E uids \in listed : storages[i].uid \notin uids
  BY <1>1, <1>5, <1>7
<1>8. CASE Current(i)
  BY <1>1, <1>5, <1>8 DEF Current, Matches
<1>9. CASE NotifiedOf(i, 1)
  <2>1. storages[i].uid = new.uid /\ storages[i].version = new.version
    BY <1>9 DEF NotifiedOf, Stale, Matches
  <2>2. CASE \E k \in CRDs : cached[k] = new
    <3>1. Current(i)
      BY <1>1, <2>1, <2>2 DEF Current, Matches
    <3>2. QED
      BY <1>8, <3>1
  <2>3. ASSUME NEW m \in DOMAIN notifications, m > 1, notifications[m].old = new
        PROVE  \E n \in DOMAIN notifications' : NotifiedOf(i, n)'
    <3>1. NotifiedOf(i, m) /\ m # 1
      BY <1>1, <2>1, <2>3 DEF NotifiedOf
    <3>2. QED
      BY <1>6, <3>1
  <2>4. QED
    BY <1>1, <2>2, <2>3 DEF NotificationInv
<1>10. QED
  BY <1>6, <1>7, <1>8, <1>9, StaleIsHandledOf

\* The CRDs that are listed for a deletion do not have its uid.
LEMMA DeleteStale ==
  ASSUME TypeOK, NotificationInv, StaleIsHandled, HandleDelete
  PROVE  StaleIsHandled'
<1> DEFINE uids == {cached[k].uid : k \in {j \in CRDs : cached[j] # NoCRD}}
<1>1. /\ Notified /\ 1 \in DOMAIN notifications /\ notifications[1].new = NoCRD
      /\ UNCHANGED <<cached, storages, customStorage>>
      /\ listed = {} /\ listed' = {uids}
  BY Rest DEF HandleDelete, Notified
<1>2. \A m \in DOMAIN notifications : m # 1 =>
        m - 1 \in DOMAIN notifications' /\ notifications'[m - 1] = notifications[m]
  BY <1>1, LaterNotified
<1>3. SUFFICES ASSUME NEW i \in customStorage
               PROVE  \/ \E n \in DOMAIN notifications' : NotifiedOf(i, n)'
                      \/ \E listing \in listed' : storages[i].uid \notin listing
                      \/ Current(i)
  BY <1>1 DEF StaleIsHandled, ToBeHandled, NotifiedOf, Current, Matches
<1>4. ASSUME NEW m \in DOMAIN notifications, m # 1, NotifiedOf(i, m)
      PROVE  \E n \in DOMAIN notifications' : NotifiedOf(i, n)'
  BY <1>1, <1>2, <1>4 DEF NotifiedOf
<1>5. CASE NotifiedOf(i, 1)
  <2>1. notifications[1].old # NoCRD /\ notifications[1].old.uid = storages[i].uid
    BY <1>1, <1>5 DEF NotifiedOf
  <2>2. storages[i].uid \notin uids
    BY <1>1, <2>1 DEF NotificationInv
  <2>3. QED
    BY <1>1, <2>2
<1>6. QED
  BY <1>1, <1>4, <1>5, StaleIsHandledOf

\* removeDeadStorage leaves no storage behind that waited for it.
LEMMA DeadStale ==
  ASSUME TypeOK, StaleIsHandled, RemoveDeadStorage, KeepsStorages
  PROVE  StaleIsHandled'
<1>1. PICK uids \in listed :
        /\ listed = {uids} /\ listed' = {}
        /\ customStorage' = customStorage \ {i \in customStorage : storages[i].uid \notin uids}
        /\ UNCHANGED <<cached, notifications>>
  BY DEF RemoveDeadStorage, RemoveStorages, informerVars, TypeOK
<1>2. customStorage \in SUBSET DOMAIN storages
  BY DEF TypeOK
<1>3. ASSUME NEW i \in customStorage'
      PROVE  \/ \E n \in DOMAIN notifications' : NotifiedOf(i, n)'
             \/ Current(i)'
  <2>1. i \in customStorage /\ storages[i].uid \in uids
    BY <1>1
  <2>2. storages'[i].uid = storages[i].uid /\ storages'[i].version = storages[i].version
    BY <1>2, <2>1 DEF KeepsStorages
  <2>3. (\E n \in DOMAIN notifications : NotifiedOf(i, n)) \/ Current(i)
    BY <1>1, <2>1, StaleIsHandledOf
  <2>4. QED
    BY <1>1, <2>2, <2>3 DEF NotifiedOf, Current, Matches
<1>4. QED
  BY <1>3 DEF StaleIsHandled, ToBeHandled, NotifiedOf, Current

\* A storage that is built is the one of the cached CRD.
LEMMA AddedStale ==
  ASSUME TypeOK, StaleIsHandled, KeepsStorages, UNCHANGED <<cached, notifications, listed>>,
         NEW k \in CRDs, cached[k] # NoCRD, StorageOf(cached[k].uid) = {}, Add(cached[k])
  PROVE  StaleIsHandled'
<1>1. cached[k] \in CRD
  BY DEF TypeOK
<1>2. PICK last \in Nat :
        /\ customStorage' = customStorage \cup {last}
        /\ storages'[last] = [uid |-> cached[k].uid, version |-> cached[k].version,
                             state |-> "serving"]
  BY <1>1, Added
<1>3. customStorage \in SUBSET DOMAIN storages
  BY DEF TypeOK
<1>4. ASSUME NEW i \in customStorage
      PROVE  \/ \E n \in DOMAIN notifications' : NotifiedOf(i, n)'
             \/ \E uids \in listed' : storages'[i].uid \notin uids
             \/ Current(i)'
  <2>1. storages'[i].uid = storages[i].uid /\ storages'[i].version = storages[i].version
    BY <1>3 DEF KeepsStorages
  <2>2. QED
    BY <2>1, StaleIsHandledOf DEF NotifiedOf, Current, Matches
<1>5. Current(last)'
  BY <1>2 DEF Current, Matches
<1>6. QED
  BY <1>2, <1>4, <1>5 DEF StaleIsHandled, ToBeHandled, NotifiedOf, Current

\* No other step makes a storage stale or takes a notification.
LEMMA KeptStale ==
  ASSUME TypeOK, StaleIsHandled, KeepsStorages,
         UNCHANGED <<cached, notifications, listed, customStorage>>
  PROVE  StaleIsHandled'
<1>1. customStorage \in SUBSET DOMAIN storages
  BY DEF TypeOK
<1>2. ASSUME NEW i \in customStorage
      PROVE  \/ \E n \in DOMAIN notifications' : NotifiedOf(i, n)'
             \/ \E uids \in listed' : storages'[i].uid \notin uids
             \/ Current(i)'
  <2>1. storages'[i].uid = storages[i].uid /\ storages'[i].version = storages[i].version
    BY <1>1 DEF KeepsStorages
  <2>2. QED
    BY <2>1, StaleIsHandledOf DEF NotifiedOf, Current, Matches
<1>3. QED
  BY <1>2 DEF StaleIsHandled, ToBeHandled, NotifiedOf, Current


-----------------------------------------------------------------------------
(* The invariant.                                                          *)

\* Every step of a request keeps it.
LEMMA ServeHandler ==
  ASSUME TypeOK, HandlerInv, NEW r \in Requests, Serve(r) \/ \E k \in CRDs : Lookup(r, k)
  PROVE  HoldersInv' /\ StaleIsHandled'
<1>1. HoldersInv /\ StaleIsHandled
  BY DEF HandlerInv, HoldersInv
<1>2. customStorage \in SUBSET DOMAIN storages
  BY DEF TypeOK
<1>3. ASSUME UNCHANGED <<informerVars, storageVars>>, HoldersInv' /\ KeepsStorages
      PROVE  HoldersInv' /\ StaleIsHandled'
  BY <1>1, <1>3, KeptStale DEF informerVars, storageVars
<1>4. CASE \E k \in CRDs : Lookup(r, k)
  <2>1. UNCHANGED <<informerVars, storageVars>>
    BY <1>4 DEF Lookup
  <2>2. HoldersInv' /\ KeepsStorages
    BY <1>1, <1>4, <2>1, RequestHolders DEF storageVars
  <2>3. QED
    BY <1>3, <2>1, <2>2
<1>5. CASE Resolve(r)
  <2>1. UNCHANGED <<informerVars, storageVars>>
    BY <1>5 DEF Resolve
  <2>2. \/ At(r, "resolve") /\ Advance(r, "build")
        \/ request[r] # Idle /\ \E i \in DOMAIN storages : Find(r, i)
    BY <1>2, <1>5 DEF Resolve, StorageOf, At
  <2>3. HoldersInv' /\ KeepsStorages
    BY <1>1, <2>1, <2>2, RequestHolders DEF storageVars
  <2>4. QED
    BY <1>3, <2>1, <2>3
<1>6. CASE BuildFailed(r)
  <2>1. Respond(r) /\ UNCHANGED <<informerVars, storageVars>>
    BY <1>6 DEF BuildFailed, Building, storageVars
  <2>2. HoldersInv' /\ KeepsStorages
    BY <1>1, <2>1, RequestHolders DEF storageVars
  <2>3. QED
    BY <1>3, <2>1, <2>2
<1>7. CASE Build(r)
  <2>1. PICK k \in CRDs : /\ cached[k] # NoCRD /\ Building(r, cached[k])
                          /\ \/ /\ \E i \in StorageOf(cached[k].uid) : Find(r, i)
                                /\ UNCHANGED <<storages, customStorage>>
                             \/ /\ StorageOf(cached[k].uid) = {}
                                /\ Add(cached[k])
                                /\ Find(r, Len(storages) + 1)
    BY <1>7 DEF Build
  <2>2. /\ request[r] # Idle
        /\ UNCHANGED <<informerVars, listed>>
        /\ UNCHANGED <<cached, notifications, listed>>
    BY <2>1 DEF Building, At, informerVars
  <2>3. CASE UNCHANGED <<storages, customStorage>> /\ \E i \in StorageOf(cached[k].uid) : Find(r, i)
    <3>1. UNCHANGED <<informerVars, storageVars>>
      BY <2>2, <2>3 DEF storageVars
    <3>2. \E i \in DOMAIN storages : Find(r, i)
      BY <1>2, <2>3 DEF StorageOf
    <3>3. HoldersInv' /\ KeepsStorages
      BY <1>1, <2>2, <2>3, <3>2, RequestHolders
    <3>4. QED
      BY <1>3, <3>1, <3>3
  <2>4. CASE StorageOf(cached[k].uid) = {} /\ Add(cached[k]) /\ Find(r, Len(storages) + 1)
    <3>1. cached[k] \in CRD
      BY <2>1 DEF TypeOK
    <3>2. HoldersInv' /\ KeepsStorages
      BY <1>1, <2>2, <2>4, <3>1, AddedHolders
    <3>3. StaleIsHandled'
      BY <1>1, <2>1, <2>2, <2>4, <3>2, AddedStale
    <3>4. QED
      BY <3>2, <3>3
  <2>5. QED
    BY <2>1, <2>3, <2>4
<1>8. CASE Register(r) \/ Finish(r) \/ Overrun(r)
  <2>1. UNCHANGED <<informerVars, storageVars>>
    BY <1>8 DEF Register, Finish, Overrun
  <2>2. \/ Respond(r)
        \/ /\ At(r, "found") /\ Advance(r, "served")
           /\ storages[request[r].storage].state \in {"serving", "draining"}
        \/ At(r, "served") /\ Advance(r, "overrun")
    BY <1>8 DEF Register, Finish, Overrun
  <2>3. HoldersInv' /\ KeepsStorages
    BY <1>1, <2>1, <2>2, RequestHolders DEF storageVars
  <2>4. QED
    BY <1>3, <2>1, <2>3
<1>9. QED
  BY <1>4, <1>5, <1>6, <1>7, <1>8 DEF Serve

\* Every step keeps it.
LEMMA NextHandler == TypeOK /\ HandlerInv /\ [Next]_vars => HandlerInv'
<1> SUFFICES ASSUME TypeOK, HandlerInv, [Next]_vars PROVE HandlerInv'
  OBVIOUS
<1>1. UidInv /\ NotificationInv /\ HoldersInv /\ StaleIsHandled
  BY DEF HandlerInv, HoldersInv
<1>2. UidInv' /\ NotificationInv'
  BY <1>1, NextHistory
<1>3. SUFFICES HoldersInv' /\ StaleIsHandled'
  BY <1>2 DEF HandlerInv, HoldersInv
<1>4. ASSUME UNCHANGED <<storages, customStorage, request>>
      PROVE  HoldersInv' /\ KeepsStorages
  BY <1>1, <1>4 DEF HoldersInv, RequestInv, NoneForgotten, ServedByLiveStorage, At, KeepsStorages
<1>5. CASE Informer
  <2>1. PICK k \in CRDs, new \in CRD \cup {NoCRD} : Change(k, new)
    BY <1>5, InformerChanges
  <2>2. QED
    BY <1>1, <1>4, <2>1, ChangeStale DEF Change, storageVars
<1>6. CASE HandleUpdate
  <2>1. PICK stale \in SUBSET customStorage : RemoveStorages(stale)
    BY <1>6 DEF HandleUpdate
  <2>2. UNCHANGED request
    BY <1>6 DEF HandleUpdate, Notified
  <2>3. HoldersInv' /\ KeepsStorages
    BY <1>1, <2>1, <2>2, RemovedHolders
  <2>4. QED
    BY <1>1, <1>6, <2>3, UpdateStale
<1>7. CASE HandleDelete
  <2>1. UNCHANGED <<storages, customStorage, request>>
    BY <1>7 DEF HandleDelete, Notified
  <2>2. QED
    BY <1>1, <1>4, <1>7, <2>1, DeleteStale
<1>8. CASE RemoveDeadStorage
  <2>1. PICK stale \in SUBSET customStorage : RemoveStorages(stale)
    BY <1>8 DEF RemoveDeadStorage
  <2>2. UNCHANGED request
    BY <1>8 DEF RemoveDeadStorage
  <2>3. HoldersInv' /\ KeepsStorages
    BY <1>1, <2>1, <2>2, RemovedHolders
  <2>4. QED
    BY <1>1, <1>8, <2>3, DeadStale
<1>9. ASSUME NEW i \in DOMAIN storages, TearDown(i)
      PROVE  HoldersInv' /\ StaleIsHandled'
  <2>1. HoldersInv' /\ KeepsStorages
    BY <1>1, <1>9, TearDownHolders
  <2>2. UNCHANGED <<cached, notifications, listed, customStorage>>
    BY <1>9 DEF TearDown, Close, Destroy, SetState, informerVars
  <2>3. QED
    BY <1>1, <2>1, <2>2, KeptStale
<1>10. ASSUME NEW r \in Requests, Serve(r) \/ \E k \in CRDs : Lookup(r, k)
       PROVE  HoldersInv' /\ StaleIsHandled'
  BY <1>10, ServeHandler
<1>11. CASE UNCHANGED vars
  <2>1. UNCHANGED <<cached, notifications, listed, storages, customStorage, request>>
    BY <1>11 DEF vars, informerVars, storageVars
  <2>2. QED
    BY <1>1, <1>4, <2>1, KeptStale
<1>12. QED
  BY <1>5, <1>6, <1>7, <1>8, <1>9, <1>10, <1>11 DEF Next, Handle

\* It holds before the first CRD.
LEMMA InitHandler == Init => HandlerInv
  BY DEF Init, HandlerInv, UidInv, NotificationInv, RequestInv, StaleIsHandled, NoneForgotten,
         ServedByLiveStorage, At

\* The invariant of the handler: the history of the cache that is still to be
\* handled, and who holds which storage.
THEOREM HandlerInvariant == Spec => [](TypeOK /\ HandlerInv)
<1>1. TypeOK /\ [Next]_vars => TypeOK'
  BY NextType
<1>2. TypeOK /\ HandlerInv /\ [Next]_vars => HandlerInv'
  BY NextHandler
<1>3. QED
  BY <1>1, <1>2, InitType, InitHandler, PTL DEF Spec

\* A storage in the map that is not that of a cached CRD is still to be removed
\* by a notification, however lookups, builds and notifications overlap, and
\* although removeDeadStorage lists the CRDs before it takes the lock.
THEOREM StaleAreHandled == Spec => []StaleIsHandled
<1>1. HandlerInv => StaleIsHandled
  BY DEF HandlerInv
<1>2. QED
  BY <1>1, HandlerInvariant, PTL

\* The storages that serve are those in the map, one for each uid, although
\* the map is read without the lock before a storage is built.
THEOREM StoragesKept == Spec => []NoneForgotten
<1>1. HandlerInv => NoneForgotten
  BY DEF HandlerInv
<1>2. QED
  BY <1>1, HandlerInvariant, PTL

\* A request that registered with its storage in time keeps it from being
\* destroyed while it is served.
THEOREM ServedAreLive == Spec => []ServedByLiveStorage
<1>1. HandlerInv => ServedByLiveStorage
  BY DEF HandlerInv
<1>2. QED
  BY <1>1, HandlerInvariant, PTL

=============================================================================
