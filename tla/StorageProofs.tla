--------------------------- MODULE StorageProofs ---------------------------
(***************************************************************************)
(* BackupIsCurrent and RestoreBringsBack for any number of requests, of    *)
(* changes of the database and of faults, and whatever rust-dlc writes:    *)
(* their proof does not look at Calls.  ChannelIsUsable, at the end, is    *)
(* about what Calls writes, for any of its stages.                         *)
(*                                                                         *)
(* Neither of the first two is inductive: they say nothing of a key with a *)
(* request under way.  What is needed of such a key, unless it is          *)
(* unsettled, is that it has one request only and that this request        *)
(* carries what the device has, so that the two agree again when it        *)
(* arrives.  While the device is lost the same holds of what it had.       *)
(***************************************************************************)
EXTENDS Storage, SequenceTheorems, TLAPS

-----------------------------------------------------------------------------
(* The inductive invariant *)

\* What the backup is to agree with: the device, or what it had when it was lost.
Device == IF app = "Lost" THEN expected ELSE Local

Known(k) == k = DbKey \/ k = BackupKey(k[2], k[3])

\* Keys of the store are pairs, and those of the backup were made from them.
KeysOK ==
    /\ \A l \in DOMAIN sled : l = <<l[1], l[2]>>
    /\ \A k \in DOMAIN backup : Known(k)
    /\ \A t \in tasks : Known(t.key)

\* A running app has a database, and only such a database was ever sent.
DbOK ==
    /\ snapshots \in Seq(SnapshotStates)
    /\ app # "Running" => Copies = {}
    /\ app = "Running" => db \in Nat \ {NoDb}
    /\ DbKey \in DOMAIN backup => decrypt(backup[DbKey]) # NoDb
    /\ \A t \in tasks : t.key = DbKey => t.op = "backup" /\ decrypt(t.value) # NoDb

\* Request t brings its key to the state it has in dev.
Carries(t, dev) ==
    IF t.op = "backup" THEN t.key \in DOMAIN dev /\ decrypt(t.value) = dev[t.key]
    ELSE t.key \notin DOMAIN dev

\* The backup follows dev at key k, given the requests and the copies under way.
Followed(dev, requests, held, copies, k) ==
    /\ \A t, u \in requests : t.key = k /\ u.key = k => t = u
    /\ (\A t \in requests : t.key # k) /\ (k = DbKey => copies = {}) => Agree(Plain(held), dev, k)
    /\ \A t \in requests : t.key = k => Carries(t, dev)
    /\ k = DbKey => /\ \A i, j \in copies : i = j
                    /\ copies # {} => \A t \in requests : t.key # DbKey

FollowedOK ==
    app # "Unrestored" =>
        \A k : k \notin unsettled => Followed(Device, tasks, backup, Copies, k)

RestoredOK == app = "Restored" => \A k : k \notin unsure => Agree(Local, expected, k)

IInv == KeysOK /\ DbOK /\ FollowedOK /\ RestoredOK

-----------------------------------------------------------------------------
(* Lemmas about the device, the backup and the requests *)

\* What a device with store s and database d holds.
LocalOf(s, d) ==
    [k \in {BackupKey(l[1], l[2]) : l \in DOMAIN s} \cup (IF d = NoDb THEN {} ELSE {DbKey}) |->
        IF k = DbKey THEN d ELSE s[<<k[2], k[3]>>]]

\* Local is LocalOf, before and after a step.
LEMMA LocalIs == Local = LocalOf(sled, db) /\ Local' = LocalOf(sled', db')
BY DEF Local, LocalOf

\* The two sorts of keys are different.
LEMMA KeysDiffer ==
    ASSUME NEW kind, NEW key
    PROVE  BackupKey(kind, key) # DbKey /\ BackupKey(kind, key)[2] = kind /\ BackupKey(kind, key)[3] = key
BY DEF BackupKey, DbKey

\* What a device holds under each key.
LEMMA Held ==
    ASSUME NEW s, NEW d, \A l \in DOMAIN s : l = <<l[1], l[2]>>
    PROVE  /\ \A kind, key :
                /\ BackupKey(kind, key) \in DOMAIN LocalOf(s, d) <=> <<kind, key>> \in DOMAIN s
                /\ <<kind, key>> \in DOMAIN s =>
                        LocalOf(s, d)[BackupKey(kind, key)] = s[<<kind, key>>]
           /\ DbKey \in DOMAIN LocalOf(s, d) <=> d # NoDb
           /\ d # NoDb => LocalOf(s, d)[DbKey] = d
           /\ \A k \in DOMAIN LocalOf(s, d) : Known(k)
<1>1. DOMAIN LocalOf(s, d) =
        {BackupKey(l[1], l[2]) : l \in DOMAIN s} \cup (IF d = NoDb THEN {} ELSE {DbKey})
  BY DEF LocalOf
<1>2. \A k \in DOMAIN LocalOf(s, d) : LocalOf(s, d)[k] = IF k = DbKey THEN d ELSE s[<<k[2], k[3]>>]
  BY DEF LocalOf
<1>3. ASSUME NEW kind, NEW key
      PROVE  BackupKey(kind, key) \in DOMAIN LocalOf(s, d) <=> <<kind, key>> \in DOMAIN s
  <2>1. ASSUME <<kind, key>> \in DOMAIN s PROVE BackupKey(kind, key) \in DOMAIN LocalOf(s, d)
    <3>1. PICK l \in DOMAIN s : l = <<kind, key>>
      BY <2>1
    <3>2. BackupKey(kind, key) = BackupKey(l[1], l[2])
      BY <3>1
    <3> QED BY <1>1, <3>2
  <2>2. ASSUME BackupKey(kind, key) \in DOMAIN LocalOf(s, d) PROVE <<kind, key>> \in DOMAIN s
    <3>1. PICK l \in DOMAIN s : BackupKey(kind, key) = BackupKey(l[1], l[2])
      BY <1>1, <2>2, KeysDiffer
    <3>2. l[1] = kind /\ l[2] = key
      BY <3>1 DEF BackupKey
    <3>3. l = <<l[1], l[2]>>
      OBVIOUS
    <3> QED BY <3>2, <3>3
  <2> QED BY <2>1, <2>2
<1>4. ASSUME NEW kind, NEW key, <<kind, key>> \in DOMAIN s
      PROVE  LocalOf(s, d)[BackupKey(kind, key)] = s[<<kind, key>>]
  BY <1>2, <1>3, <1>4, KeysDiffer
<1>5. DbKey \in DOMAIN LocalOf(s, d) <=> d # NoDb
  BY <1>1, KeysDiffer
<1>6. \A k \in DOMAIN LocalOf(s, d) : Known(k)
  BY <1>1, KeysDiffer DEF Known
<1> QED BY <1>2, <1>3, <1>4, <1>5, <1>6

\* What stays the same at a key keeps the backup following there.
LEMMA FollowedKept ==
    ASSUME NEW dev, NEW dev2, NEW ts, NEW ts2, NEW held, NEW held2, NEW copies, NEW copies2, NEW k,
           Followed(dev, ts, held, copies, k), Agree(dev2, dev, k), Agree(held2, held, k),
           \A t \in ts \cup ts2 : t.key = k => t \in ts /\ t \in ts2,
           k = DbKey => copies2 = copies
    PROVE  Followed(dev2, ts2, held2, copies2, k)
<1>1. Agree(Plain(held2), Plain(held), k)
  BY DEF Agree, Plain
<1>2. Agree(Plain(held), dev, k) => Agree(Plain(held2), dev2, k)
  BY <1>1 DEF Agree
<1>3. \A t \in ts2 : t.key = k => Carries(t, dev2)
  BY DEF Followed, Carries, Agree
<1> QED BY <1>2, <1>3 DEF Followed

\* A first request for a key that carries what the device has.
LEMMA FollowedByRequest ==
    ASSUME NEW dev, NEW ts, NEW ts2, NEW held, NEW copies, NEW t \in ts2,
           \A u \in ts : u.key # t.key, \A u \in ts2 : u.key = t.key => u = t,
           Carries(t, dev), t.key = DbKey => copies = {}
    PROVE  Followed(dev, ts2, held, copies, t.key)
BY DEF Followed

\* Keys with a request or a copy under way.
LEMMA UnderWay ==
    ASSUME NEW k, k \notin InFlight
    PROVE  (\A t \in tasks : t.key # k) /\ (k = DbKey => Copies = {})
BY DEF InFlight

\* The copies under way after one more change of the database.
LEMMA CopiesAdded ==
    ASSUME snapshots \in Seq(SnapshotStates), NEW x \in SnapshotStates, snapshots' = Append(snapshots, x)
    PROVE  /\ snapshots' \in Seq(SnapshotStates)
           /\ Copies' = IF x = "Spawned" THEN Copies \cup {Len(snapshots) + 1} ELSE Copies
<1>1. /\ snapshots' \in Seq(SnapshotStates) /\ DOMAIN snapshots' = DOMAIN snapshots \cup {Len(snapshots) + 1}
      /\ Len(snapshots) + 1 \notin DOMAIN snapshots /\ snapshots'[Len(snapshots) + 1] = x
      /\ \A i \in DOMAIN snapshots : snapshots'[i] = snapshots[i]
  OBVIOUS
<1> QED BY <1>1 DEF Copies

\* The copies under way after one of them was made.
LEMMA CopyDone ==
    ASSUME snapshots \in Seq(SnapshotStates), NEW i \in Copies,
           snapshots' = [snapshots EXCEPT ![i] = "Done"]
    PROVE  snapshots' \in Seq(SnapshotStates) /\ Copies' = Copies \ {i}
<1>1. i \in DOMAIN snapshots /\ i \in 1 .. Len(snapshots)
  BY DEF Copies
<1>2. snapshots' \in Seq(SnapshotStates) /\ DOMAIN snapshots' = DOMAIN snapshots
  BY <1>1 DEF SnapshotStates
<1> QED BY <1>1, <1>2 DEF Copies

\* No copy is under way when the app was killed.
LEMMA CopiesKilled ==
    ASSUME snapshots \in Seq(SnapshotStates), snapshots' = [i \in DOMAIN snapshots |-> "Done"]
    PROVE  snapshots' \in Seq(SnapshotStates) /\ Copies' = {}
<1>1. DOMAIN snapshots = 1 .. Len(snapshots) /\ Len(snapshots) \in Nat
  OBVIOUS
<1>2. snapshots' \in Seq(SnapshotStates)
  BY <1>1 DEF SnapshotStates
<1> QED BY <1>2 DEF Copies

\* A key whose request arrives has the value that it carries.
LEMMA Arrives ==
    ASSUME NEW t \in tasks, NEW dev, Carries(t, dev)
    PROVE  Agree(Plain(BackedUp(t)), dev, t.key)
<1>1. CASE t.op = "backup"
  <2>1. BackedUp(t) = Put(backup, t.key, t.value)
    BY <1>1 DEF BackedUp
  <2>2. t.key \in DOMAIN Plain(BackedUp(t)) /\ Plain(BackedUp(t))[t.key] = decrypt(t.value)
    BY <2>1 DEF Plain, Put
  <2> QED BY <1>1, <2>2 DEF Agree, Carries
<1>2. CASE t.op # "backup"
  <2>1. BackedUp(t) = Drop(backup, t.key)
    BY <1>2 DEF BackedUp
  <2>2. t.key \notin DOMAIN Plain(BackedUp(t))
    BY <2>1 DEF Plain, Drop
  <2> QED BY <1>2, <2>2 DEF Agree, Carries
<1> QED BY <1>1, <1>2

\* Other keys keep what they had.
LEMMA ArrivesElsewhere ==
    ASSUME NEW t \in tasks, NEW k, k # t.key
    PROVE  Agree(BackedUp(t), backup, k)
BY DEF BackedUp, Put, Drop, Agree

\* A device whose store differs under one key holds the same under every other.
LEMMA HeldElsewhere ==
    ASSUME NEW s, NEW s2, NEW d, NEW kind, NEW key,
           \A l \in DOMAIN s : l = <<l[1], l[2]>>, \A l \in DOMAIN s2 : l = <<l[1], l[2]>>,
           \A l : l # <<kind, key>> => Agree(s2, s, l),
           NEW k, k # BackupKey(kind, key)
    PROVE  Agree(LocalOf(s2, d), LocalOf(s, d), k)
<1>1. CASE k = DbKey
  BY <1>1, Held DEF Agree
<1>2. CASE k = BackupKey(k[2], k[3])
  <2>1. <<k[2], k[3]>> # <<kind, key>>
    BY <1>2
  <2>2. Agree(s2, s, <<k[2], k[3]>>)
    BY <2>1
  <2>3. /\ k \in DOMAIN LocalOf(s, d) <=> <<k[2], k[3]>> \in DOMAIN s
        /\ <<k[2], k[3]>> \in DOMAIN s => LocalOf(s, d)[k] = s[<<k[2], k[3]>>]
    BY <1>2, Held
  <2>4. /\ k \in DOMAIN LocalOf(s2, d) <=> <<k[2], k[3]>> \in DOMAIN s2
        /\ <<k[2], k[3]>> \in DOMAIN s2 => LocalOf(s2, d)[k] = s2[<<k[2], k[3]>>]
    BY <1>2, Held
  <2> QED BY <2>2, <2>3, <2>4 DEF Agree
<1>3. CASE ~ Known(k)
  <2>1. k \notin DOMAIN LocalOf(s, d) /\ k \notin DOMAIN LocalOf(s2, d)
    BY <1>3, Held
  <2> QED BY <2>1 DEF Agree
<1> QED BY <1>1, <1>2, <1>3 DEF Known

\* A device whose database differs holds the same under every key of the store.
LEMMA HeldButDb ==
    ASSUME NEW s, NEW d, NEW d2, \A l \in DOMAIN s : l = <<l[1], l[2]>>, NEW k, k # DbKey
    PROVE  Agree(LocalOf(s, d2), LocalOf(s, d), k)
<1>1. CASE k = BackupKey(k[2], k[3])
  <2>1. /\ k \in DOMAIN LocalOf(s, d) <=> <<k[2], k[3]>> \in DOMAIN s
        /\ <<k[2], k[3]>> \in DOMAIN s => LocalOf(s, d)[k] = s[<<k[2], k[3]>>]
    BY <1>1, Held
  <2>2. /\ k \in DOMAIN LocalOf(s, d2) <=> <<k[2], k[3]>> \in DOMAIN s
        /\ <<k[2], k[3]>> \in DOMAIN s => LocalOf(s, d2)[k] = s[<<k[2], k[3]>>]
    BY <1>1, Held
  <2> QED BY <2>1, <2>2 DEF Agree
<1>2. CASE ~ Known(k)
  <2>1. k \notin DOMAIN LocalOf(s, d) /\ k \notin DOMAIN LocalOf(s, d2)
    BY <1>2, Held
  <2> QED BY <2>1 DEF Agree
<1> QED BY <1>1, <1>2 DEF Known

-----------------------------------------------------------------------------
(* The invariant is preserved *)

\* Steps that touch neither the store nor the backup.
LEMMA Untouched ==
    ASSUME IInv, UNCHANGED <<sled, db, snapshots, app, tasks, backup, unsettled, expected, unsure>>
    PROVE  IInv'
<1>1. Local' = Local /\ Device' = Device /\ Copies' = Copies
  BY DEF Local, Device, Copies
<1>2. KeysOK'
  BY DEF IInv, KeysOK
<1>3. DbOK'
  BY <1>1 DEF IInv, DbOK
<1>4. FollowedOK'
  BY <1>1 DEF IInv, FollowedOK
<1>5. RestoredOK'
  BY <1>1 DEF IInv, RestoredOK
<1> QED BY <1>2, <1>3, <1>4, <1>5 DEF IInv

\* The store after a write or a delete, and the request that follows it.
LEMMA Stored ==
    ASSUME NEW o, StorageWrite(o) \/ StorageDelete(o)
    PROVE  \E t : /\ tasks' = tasks \cup {t} /\ t.key = BackupKey(o.kind, o.key)
                  /\ \/ /\ t.op = "backup" /\ decrypt(t.value) = o.value
                        /\ sled' = Put(sled, <<o.kind, o.key>>, o.value)
                     \/ t.op # "backup" /\ sled' = Drop(sled, <<o.kind, o.key>>)
                  /\ unsettled' = Settles({BackupKey(o.kind, o.key)})
<1>1. CASE StorageWrite(o)
  <2>1. PICK t : t = RemoteBackup(BackupKey(o.kind, o.key), o.value)
    OBVIOUS
  <2>2. t.key = BackupKey(o.kind, o.key) /\ t.op = "backup" /\ decrypt(t.value) = o.value
    BY <2>1 DEF RemoteBackup, encrypt, decrypt
  <2> QED BY <1>1, <2>1, <2>2 DEF StorageWrite
<1>2. CASE StorageDelete(o)
  <2>1. PICK t : t = RemoteDelete(BackupKey(o.kind, o.key))
    OBVIOUS
  <2>2. t.key = BackupKey(o.kind, o.key) /\ t.op # "backup"
    BY <2>1 DEF RemoteDelete
  <2> QED BY <1>2, <2>1, <2>2 DEF StorageDelete
<1> QED BY <1>1, <1>2

\* A write or a delete in the store.
LEMMA StoreStepOK ==
    ASSUME IInv, StoreStep
    PROVE  IInv'
<1>0. /\ UNCHANGED <<db, snapshots, app, backup, expected, unsure>> /\ app = "Running"
      /\ KeysOK /\ DbOK /\ FollowedOK
  BY DEF StoreStep, IInv
<1>1. PICK o : StorageWrite(o) \/ StorageDelete(o)
  BY DEF StoreStep
<1>2. PICK t : /\ tasks' = tasks \cup {t} /\ t.key = BackupKey(o.kind, o.key)
               /\ \/ /\ t.op = "backup" /\ decrypt(t.value) = o.value
                     /\ sled' = Put(sled, <<o.kind, o.key>>, o.value)
                  \/ t.op # "backup" /\ sled' = Drop(sled, <<o.kind, o.key>>)
               /\ unsettled' = Settles({BackupKey(o.kind, o.key)})
  BY <1>1, Stored
<1>3. PICK k0 : k0 = BackupKey(o.kind, o.key) /\ k0 # DbKey /\ Known(k0) /\ t.key = k0
  BY <1>2, KeysDiffer DEF Known
<1>4. /\ \A l \in DOMAIN sled : l = <<l[1], l[2]>>
      /\ \A l \in DOMAIN sled' : l = <<l[1], l[2]>>
  <2>1. \A l \in DOMAIN sled' : l \in DOMAIN sled \/ l = <<o.kind, o.key>>
    BY <1>2 DEF Put, Drop
  <2> QED BY <1>0, <2>1 DEF KeysOK
<1>5. KeysOK'
  BY <1>0, <1>2, <1>3, <1>4 DEF KeysOK
<1>6. Copies' = Copies
  BY <1>0 DEF Copies
<1>7. DbOK'
  BY <1>0, <1>2, <1>3, <1>6 DEF DbOK
<1>8. Device = LocalOf(sled, db) /\ Device' = LocalOf(sled', db)
  BY <1>0, LocalIs DEF Device
<1>9. Carries(t, Device')
  <2>1. /\ k0 \in DOMAIN Device' <=> <<o.kind, o.key>> \in DOMAIN sled'
        /\ <<o.kind, o.key>> \in DOMAIN sled' => Device'[k0] = sled'[<<o.kind, o.key>>]
    BY <1>3, <1>4, <1>8, Held
  <2>2. \/ /\ t.op = "backup" /\ <<o.kind, o.key>> \in DOMAIN sled'
           /\ sled'[<<o.kind, o.key>>] = decrypt(t.value)
        \/ t.op # "backup" /\ <<o.kind, o.key>> \notin DOMAIN sled'
    BY <1>2 DEF Put, Drop
  <2> QED BY <1>3, <2>1, <2>2 DEF Carries
<1>10. ASSUME NEW k, k \notin unsettled' PROVE Followed(Device', tasks', backup', Copies', k)
  <2>1. CASE k = k0
    <3>1. k0 \notin InFlight
      BY <1>2, <1>3, <1>10, <2>1 DEF Settles
    <3>2. \A u \in tasks : u.key # k0
      BY <3>1, UnderWay
    <3>3. t \in tasks' /\ \A u \in tasks' : u.key = t.key => u = t
      BY <1>2, <1>3, <3>2
    <3> QED BY <1>3, <1>9, <2>1, <3>2, <3>3, FollowedByRequest
  <2>2. CASE k # k0
    <3>1. Followed(Device, tasks, backup, Copies, k)
      BY <1>0, <1>2, <1>3, <1>10, <2>2 DEF FollowedOK, Settles
    <3>2. \A l : l # <<o.kind, o.key>> => Agree(sled', sled, l)
      BY <1>2 DEF Put, Drop, Agree
    <3>3. Agree(Device', Device, k)
      BY <1>3, <1>4, <1>8, <2>2, <3>2, HeldElsewhere
    <3>4. Agree(backup', backup, k)
      BY <1>0 DEF Agree
    <3>5. \A u \in tasks \cup tasks' : u.key = k => u \in tasks /\ u \in tasks'
      BY <1>2, <1>3, <2>2
    <3> QED BY <1>6, <3>1, <3>3, <3>4, <3>5, FollowedKept
  <2> QED BY <2>1, <2>2
<1>11. FollowedOK' /\ RestoredOK'
  BY <1>0, <1>10 DEF FollowedOK, RestoredOK
<1> QED BY <1>5, <1>7, <1>11 DEF IInv

\* A change of the database, with or without a copy.
LEMMA UpdateDbOK ==
    ASSUME IInv, NEW e, UpdateDb(e)
    PROVE  IInv'
<1>0. /\ UNCHANGED <<sled, app, tasks, backup, expected, unsure>> /\ app = "Running"
      /\ KeysOK /\ DbOK /\ FollowedOK /\ db' = db + 1
  BY DEF UpdateDb, Ready, ghosts, IInv
<1>1. \/ snapshots' = Append(snapshots, "Spawned") /\ unsettled' = Settles({DbKey})
      \/ snapshots' = Append(snapshots, "Done") /\ unsettled' = unsettled \cup {DbKey}
  BY DEF UpdateDb
<1>2. /\ snapshots' \in Seq(SnapshotStates)
      /\ \/ unsettled' = Settles({DbKey}) /\ Copies' = Copies \cup {Len(snapshots) + 1}
         \/ DbKey \in unsettled'
  BY <1>0, <1>1, CopiesAdded DEF DbOK, SnapshotStates
<1>3. KeysOK'
  BY <1>0 DEF KeysOK
<1>4. DbOK'
  BY <1>0, <1>2 DEF DbOK, NoDb
<1>5. Device = LocalOf(sled, db) /\ Device' = LocalOf(sled, db')
  BY <1>0, LocalIs DEF Device
<1>6. ASSUME NEW k, k \notin unsettled' PROVE Followed(Device', tasks', backup', Copies', k)
  <2>1. CASE k = DbKey
    <3>1. DbKey \notin InFlight /\ Copies' = Copies \cup {Len(snapshots) + 1}
      BY <1>2, <1>6, <2>1 DEF Settles
    <3>2. (\A t \in tasks : t.key # DbKey) /\ Copies = {}
      BY <3>1, UnderWay
    <3> QED BY <1>0, <2>1, <3>1, <3>2 DEF Followed
  <2>2. CASE k # DbKey
    <3>1. Followed(Device, tasks, backup, Copies, k)
      BY <1>0, <1>1, <1>6, <2>2 DEF FollowedOK, Settles
    <3>2. Agree(Device', Device, k)
      BY <1>0, <1>5, <2>2, HeldButDb DEF KeysOK
    <3>3. Agree(backup', backup, k)
      BY <1>0 DEF Agree
    <3> QED BY <1>0, <2>2, <3>1, <3>2, <3>3, FollowedKept
  <2> QED BY <2>1, <2>2
<1>7. FollowedOK' /\ RestoredOK'
  BY <1>0, <1>6 DEF FollowedOK, RestoredOK
<1> QED BY <1>3, <1>4, <1>7 DEF IInv

\* The copy of the database is made and its request is spawned.
LEMMA DbBackupOK ==
    ASSUME IInv, NEW i, DbBackup(i)
    PROVE  IInv'
<1>0. /\ UNCHANGED <<sled, db, app, backup, unsettled, expected, unsure>> /\ app = "Running" /\ i \in Copies
      /\ KeysOK /\ DbOK /\ FollowedOK
  BY DEF DbBackup, ghosts, IInv
<1>1. PICK value \in Snapshots(i) : tasks' = tasks \cup {RemoteBackup(DbKey, value)}
  BY DEF DbBackup
<1>2. PICK t : tasks' = tasks \cup {t} /\ t.key = DbKey /\ t.op = "backup" /\ decrypt(t.value) = value
  <2>1. PICK t : t = RemoteBackup(DbKey, value)
    OBVIOUS
  <2>2. t.key = DbKey /\ t.op = "backup" /\ decrypt(t.value) = value
    BY <2>1 DEF RemoteBackup, encrypt, decrypt
  <2> QED BY <1>1, <2>1, <2>2
<1>3. snapshots' \in Seq(SnapshotStates) /\ Copies' = Copies \ {i}
  BY <1>0, CopyDone DEF DbBackup, DbOK
<1>4. value # NoDb /\ (Copies = {i} => value = db)
  BY <1>0 DEF Snapshots, DbOK, NoDb, Torn
<1>5. KeysOK'
  BY <1>0, <1>2 DEF KeysOK, Known
<1>6. DbOK'
  BY <1>0, <1>2, <1>3, <1>4 DEF DbOK
<1>7. Device = LocalOf(sled, db) /\ Device' = Device
  BY <1>0, LocalIs DEF Device
<1>8. ASSUME NEW k, k \notin unsettled' PROVE Followed(Device', tasks', backup', Copies', k)
  <2>1. Followed(Device, tasks, backup, Copies, k)
    BY <1>0, <1>8 DEF FollowedOK
  <2>2. CASE k = DbKey
    <3>1. Copies = {i} /\ \A u \in tasks : u.key # DbKey
      BY <1>0, <2>1, <2>2 DEF Followed
    <3>2. Copies' = {}
      BY <1>3, <3>1
    <3>3. Carries(t, Device')
      <4>1. DbKey \in DOMAIN Device /\ Device[DbKey] = db
        BY <1>0, <1>7, Held DEF KeysOK, DbOK
      <4> QED BY <1>2, <1>4, <1>7, <3>1, <4>1 DEF Carries
    <3>4. t \in tasks' /\ \A u \in tasks' : u.key = t.key => u = t
      BY <1>2, <3>1
    <3> QED BY <1>2, <2>2, <3>1, <3>2, <3>3, <3>4, FollowedByRequest
  <2>3. CASE k # DbKey
    <3>1. Agree(Device', Device, k) /\ Agree(backup', backup, k)
      BY <1>0, <1>7 DEF Agree
    <3>2. \A u \in tasks \cup tasks' : u.key = k => u \in tasks /\ u \in tasks'
      BY <1>2, <2>3
    <3> QED BY <2>1, <2>3, <3>1, <3>2, FollowedKept
  <2> QED BY <2>2, <2>3
<1>9. FollowedOK' /\ RestoredOK'
  BY <1>0, <1>8 DEF FollowedOK, RestoredOK
<1> QED BY <1>5, <1>6, <1>9 DEF IInv

\* The initial backup of everything.
LEMMA FullBackupOK ==
    ASSUME IInv, full_backup
    PROVE  IInv'
<1>0. /\ UNCHANGED <<sled, db, app, backup, expected, unsure>> /\ app = "Running"
      /\ snapshots' = Append(snapshots, "Spawned") /\ unsettled' = Settles(DOMAIN Local)
      /\ tasks' = tasks \cup {RemoteBackup(k, Local[k]) : k \in DOMAIN Local \ {DbKey}}
      /\ KeysOK /\ DbOK /\ FollowedOK
  BY DEF full_backup, ghosts, IInv
<1>1. /\ \A t \in tasks' : \/ t \in tasks
                           \/ /\ t.key \in DOMAIN Local \ {DbKey} /\ t.op = "backup"
                              /\ t = RemoteBackup(t.key, Local[t.key]) /\ Carries(t, Local)
      /\ \A k \in DOMAIN Local \ {DbKey} : \E t \in tasks' : t.key = k /\ Carries(t, Local)
      /\ tasks \subseteq tasks'
  <2>1. ASSUME NEW k \in DOMAIN Local, NEW t, t = RemoteBackup(k, Local[k])
        PROVE  t.key = k /\ t.op = "backup" /\ decrypt(t.value) = Local[k]
    BY <2>1 DEF RemoteBackup, encrypt, decrypt
  <2>2. \A k \in DOMAIN Local : \A t : t = RemoteBackup(k, Local[k]) =>
            t.key = k /\ t.op = "backup" /\ Carries(t, Local)
    BY <2>1 DEF Carries
  <2> QED BY <1>0, <2>2
<1>2. snapshots' \in Seq(SnapshotStates) /\ Copies' = Copies \cup {Len(snapshots) + 1}
  BY <1>0, CopiesAdded DEF DbOK, SnapshotStates
<1>3. Local = LocalOf(sled, db) /\ Device = Local /\ Device' = Local
  BY <1>0, LocalIs DEF Device
<1>4. DbKey \in DOMAIN Local /\ \A k \in DOMAIN Local : Known(k)
  BY <1>0, <1>3, Held DEF KeysOK, DbOK
<1>5. KeysOK'
  BY <1>0, <1>1, <1>4 DEF KeysOK
<1>6. DbOK'
  BY <1>0, <1>1, <1>2 DEF DbOK
<1>7. ASSUME NEW k, k \notin unsettled' PROVE Followed(Device', tasks', backup', Copies', k)
  <2>1. CASE k \in DOMAIN Local
    <3>1. (\A u \in tasks : u.key # k) /\ (k = DbKey => Copies = {})
      BY <1>0, <1>7, <2>1, UnderWay DEF Settles
    <3>2. CASE k = DbKey
      <4>1. \A u \in tasks' : u.key # DbKey
        BY <1>1, <3>1, <3>2
      <4> QED BY <1>2, <3>1, <3>2, <4>1 DEF Followed
    <3>3. CASE k # DbKey
      <4>1. PICK t \in tasks' : t.key = k /\ Carries(t, Local)
        BY <1>1, <2>1, <3>3
      <4>2. \A u \in tasks' : u.key = t.key => u = t
        BY <1>1, <3>1, <4>1
      <4> QED BY <1>3, <3>1, <3>3, <4>1, <4>2, FollowedByRequest
    <3> QED BY <3>2, <3>3
  <2>2. CASE k \notin DOMAIN Local
    <3>1. Followed(Device, tasks, backup, Copies, k) /\ k # DbKey
      BY <1>0, <1>4, <1>7, <2>2 DEF FollowedOK, Settles
    <3>2. Agree(Device', Device, k) /\ Agree(backup', backup, k)
      BY <1>0, <1>3 DEF Agree
    <3>3. \A u \in tasks \cup tasks' : u.key = k => u \in tasks /\ u \in tasks'
      BY <1>1, <2>2
    <3> QED BY <3>1, <3>2, <3>3, FollowedKept
  <2> QED BY <2>1, <2>2
<1>8. FollowedOK' /\ RestoredOK'
  BY <1>0, <1>7 DEF FollowedOK, RestoredOK
<1> QED BY <1>5, <1>6, <1>8 DEF IInv

\* A request reaches the coordinator.
LEMMA HandleOK ==
    ASSUME IInv, NEW t \in tasks, Handle(t)
    PROVE  IInv'
<1>0. /\ UNCHANGED <<sled, db, snapshots, app, expected, unsure>> /\ app # "Unrestored"
      /\ tasks' = tasks \ {t} /\ backup' = BackedUp(t) /\ unsettled' = unsettled \ Resettles(t)
      /\ KeysOK /\ DbOK /\ FollowedOK
  BY DEF Handle, ghosts, IInv
<1>1. Local' = Local /\ Device' = Device /\ Copies' = Copies
  BY <1>0 DEF Local, Device, Copies
<1>2. KeysOK'
  <2>1. DOMAIN backup' \subseteq DOMAIN backup \cup {t.key}
    BY <1>0 DEF BackedUp, Put, Drop
  <2> QED BY <1>0, <2>1 DEF KeysOK
<1>3. DbOK'
  <2>1. CASE t.key = DbKey
    <3>1. backup' = Put(backup, DbKey, t.value) /\ decrypt(t.value) # NoDb
      BY <1>0, <2>1 DEF DbOK, BackedUp
    <3>2. backup'[DbKey] = t.value
      BY <3>1 DEF Put
    <3> QED BY <1>0, <1>1, <3>1, <3>2 DEF DbOK
  <2>2. CASE t.key # DbKey
    <3>1. Agree(backup', backup, DbKey)
      BY <1>0, <2>2, ArrivesElsewhere
    <3> QED BY <1>0, <1>1, <3>1 DEF DbOK, Agree
  <2> QED BY <2>1, <2>2
<1>4. ASSUME NEW k, k \notin unsettled' PROVE Followed(Device', tasks', backup', Copies', k)
  <2>1. CASE k # t.key
    <3>1. Followed(Device, tasks, backup, Copies, k)
      BY <1>0, <1>4, <2>1 DEF FollowedOK, Resettles
    <3>2. Agree(Device', Device, k) /\ Agree(backup', backup, k)
      BY <1>0, <1>1, <2>1, ArrivesElsewhere DEF Agree
    <3>3. \A u \in tasks \cup tasks' : u.key = k => u \in tasks /\ u \in tasks'
      BY <1>0, <2>1
    <3> QED BY <1>1, <3>1, <3>2, <3>3, FollowedKept
  <2>2. CASE k = t.key
    <3>1. /\ Agree(Plain(backup'), Device, k) /\ \A u \in tasks' : u.key # k
          /\ k = DbKey => Copies = {}
      <4>1. CASE k \in unsettled
        <5>1. k \in Resettles(t)
          BY <1>0, <1>4, <4>1
        <5>2. /\ app = "Running" /\ (t.key = DbKey => Copies = {}) /\ \A u \in tasks \ {t} : u.key # t.key
              /\ Agree(Plain(BackedUp(t)), Local, t.key)
          BY <5>1 DEF Resettles
        <5> QED BY <1>0, <2>2, <5>2 DEF Device
      <4>2. CASE k \notin unsettled
        <5>1. Followed(Device, tasks, backup, Copies, k)
          BY <1>0, <4>2 DEF FollowedOK
        <5>2. Carries(t, Device) /\ (\A u \in tasks' : u.key # k) /\ (k = DbKey => Copies = {})
          BY <1>0, <2>2, <5>1 DEF Followed
        <5> QED BY <1>0, <2>2, <5>2, Arrives
      <4> QED BY <4>1, <4>2
    <3> QED BY <1>1, <3>1 DEF Followed
  <2> QED BY <2>1, <2>2
<1>5. FollowedOK'
  BY <1>4 DEF FollowedOK
<1>6. RestoredOK'
  BY <1>0, <1>1 DEF IInv, RestoredOK
<1> QED BY <1>2, <1>3, <1>5, <1>6 DEF IInv

\* A request fails.
LEMMA FailRequestOK ==
    ASSUME IInv, NEW t \in tasks, FailRequest(t)
    PROVE  IInv'
<1>0. /\ UNCHANGED <<sled, db, snapshots, app, backup, expected, unsure>> /\ app # "Unrestored"
      /\ tasks' = tasks \ {t} /\ unsettled' = unsettled \cup {t.key}
      /\ KeysOK /\ DbOK /\ FollowedOK
  BY DEF FailRequest, IInv
<1>1. Local' = Local /\ Device' = Device /\ Copies' = Copies
  BY <1>0 DEF Local, Device, Copies
<1>2. KeysOK' /\ DbOK'
  BY <1>0, <1>1 DEF KeysOK, DbOK
<1>3. ASSUME NEW k, k \notin unsettled' PROVE Followed(Device', tasks', backup', Copies', k)
  <2>1. Followed(Device, tasks, backup, Copies, k) /\ k # t.key
    BY <1>0, <1>3 DEF FollowedOK
  <2>2. Agree(Device', Device, k) /\ Agree(backup', backup, k)
    BY <1>0, <1>1 DEF Agree
  <2>3. \A u \in tasks \cup tasks' : u.key = k => u \in tasks /\ u \in tasks'
    BY <1>0, <2>1
  <2> QED BY <1>1, <2>1, <2>2, <2>3, FollowedKept
<1>4. FollowedOK'
  BY <1>3 DEF FollowedOK
<1>5. RestoredOK'
  BY <1>0, <1>1 DEF IInv, RestoredOK
<1> QED BY <1>2, <1>4, <1>5 DEF IInv

\* When the app is killed, the keys that stay settled are followed by what is left.
LEMMA KilledFollowed ==
    ASSUME IInv, app = "Running", NEW kept, Killed(kept)
    PROVE  /\ tasks' \subseteq tasks /\ snapshots' \in Seq(SnapshotStates) /\ Copies' = {}
           /\ \A k : k \notin unsettled' => Followed(Device, tasks', backup, {}, k)
<1>0. /\ kept \subseteq tasks /\ tasks' = kept /\ snapshots' = [i \in DOMAIN snapshots |-> "Done"]
      /\ unsettled' = unsettled \cup {t.key : t \in tasks \ kept}
                          \cup (IF Copies = {} THEN {} ELSE {DbKey})
      /\ snapshots \in Seq(SnapshotStates) /\ FollowedOK
  BY DEF Killed, IInv, DbOK
<1>1. ASSUME NEW k, k \notin unsettled' PROVE Followed(Device, tasks', backup, {}, k)
  <2>1. Followed(Device, tasks, backup, Copies, k) /\ (k = DbKey => Copies = {})
    BY <1>0, <1>1 DEF FollowedOK
  <2>2. \A u \in tasks \cup tasks' : u.key = k => u \in tasks /\ u \in tasks'
    BY <1>0, <1>1
  <2>3. Agree(Device, Device, k) /\ Agree(backup, backup, k)
    BY DEF Agree
  <2> QED BY <2>1, <2>2, <2>3, FollowedKept
<1> QED BY <1>0, <1>1, CopiesKilled

\* The app is killed and starts again on the same device.
LEMMA CrashOK ==
    ASSUME IInv, Crash
    PROVE  IInv'
<1>0. /\ UNCHANGED <<sled, db, app, backup, expected, unsure>> /\ app = "Running"
      /\ KeysOK /\ DbOK
  BY DEF Crash, IInv
<1>1. /\ tasks' \subseteq tasks /\ snapshots' \in Seq(SnapshotStates) /\ Copies' = {}
      /\ \A k : k \notin unsettled' => Followed(Device, tasks', backup, {}, k)
  <2>1. PICK kept : Killed(kept)
    BY DEF Crash
  <2> QED BY <1>0, <2>1, KilledFollowed
<1>2. Device' = Device
  BY <1>0 DEF Device, Local
<1>3. KeysOK' /\ DbOK'
  BY <1>0, <1>1 DEF KeysOK, DbOK
<1>4. FollowedOK' /\ RestoredOK'
  BY <1>0, <1>1, <1>2 DEF FollowedOK, RestoredOK
<1> QED BY <1>3, <1>4 DEF IInv

\* The device is lost with everything on it.
LEMMA LoseDeviceOK ==
    ASSUME IInv, LoseDevice
    PROVE  IInv'
<1>0. /\ UNCHANGED backup /\ app = "Running" /\ app' = "Lost" /\ expected' = Local /\ sled' = << >>
      /\ KeysOK /\ DbOK
  BY DEF LoseDevice, IInv
<1>1. /\ tasks' \subseteq tasks /\ snapshots' \in Seq(SnapshotStates) /\ Copies' = {}
      /\ \A k : k \notin unsettled' => Followed(Device, tasks', backup, {}, k)
  <2>1. PICK kept : Killed(kept)
    BY DEF LoseDevice
  <2> QED BY <1>0, <2>1, KilledFollowed
<1>2. Device' = Device
  BY <1>0 DEF Device
<1>3. KeysOK'
  <2>1. DOMAIN sled' = {}
    BY <1>0
  <2> QED BY <1>0, <1>1, <2>1 DEF KeysOK
<1>4. DbOK'
  BY <1>0, <1>1 DEF DbOK
<1>5. FollowedOK' /\ RestoredOK'
  BY <1>0, <1>1, <1>2 DEF FollowedOK, RestoredOK
<1> QED BY <1>3, <1>4, <1>5 DEF IInv

\* What is restored is what the coordinator holds, decrypted, entry by entry.
LEMMA Restores ==
    ASSUME KeysOK, DbOK
    PROVE  /\ \A l \in DOMAIN RestoredStore : l = <<l[1], l[2]>>
           /\ \A k : Agree(Plain(backup), LocalOf(RestoredStore, RestoredDb), k)
<1>1. /\ DOMAIN RestoredStore = {<<l[2], l[3]>> : l \in {m \in DOMAIN backup : m[1] = "dlc"}}
      /\ \A l \in DOMAIN RestoredStore : RestoredStore[l] = decrypt(backup[BackupKey(l[1], l[2])])
  BY DEF RestoredStore, Downloaded
<1>2. \A l \in DOMAIN RestoredStore : l = <<l[1], l[2]>>
  BY <1>1
<1>3. ASSUME NEW k, k = BackupKey(k[2], k[3]) PROVE k \in DOMAIN backup <=> <<k[2], k[3]>> \in DOMAIN RestoredStore
  <2>1. k[1] = "dlc"
    BY <1>3 DEF BackupKey
  <2>2. ASSUME <<k[2], k[3]>> \in DOMAIN RestoredStore PROVE k \in DOMAIN backup
    <3>1. PICK m \in DOMAIN backup : m[1] = "dlc" /\ <<k[2], k[3]>> = <<m[2], m[3]>>
      BY <1>1, <2>2
    <3>2. m # DbKey
      BY <3>1 DEF DbKey
    <3>3. m = BackupKey(m[2], m[3])
      BY <3>2 DEF KeysOK, Known
    <3>4. m[2] = k[2] /\ m[3] = k[3]
      BY <3>1
    <3> QED BY <1>3, <3>3, <3>4
  <2> QED BY <1>1, <2>1, <2>2
<1>4. ASSUME NEW k PROVE Agree(Plain(backup), LocalOf(RestoredStore, RestoredDb), k)
  <2>0. DOMAIN Plain(backup) = DOMAIN backup /\ (k \in DOMAIN backup => Plain(backup)[k] = decrypt(backup[k]))
    BY DEF Plain
  <2>1. CASE k = DbKey
    <3>1. /\ DbKey \in DOMAIN backup <=> RestoredDb # NoDb
          /\ DbKey \in DOMAIN backup => RestoredDb = decrypt(backup[DbKey])
      BY DEF RestoredDb, Downloaded, DbOK
    <3> QED BY <1>2, <2>0, <2>1, <3>1, Held DEF Agree
  <2>2. CASE k = BackupKey(k[2], k[3])
    <3>1. k \in DOMAIN backup <=> <<k[2], k[3]>> \in DOMAIN RestoredStore
      BY <1>3, <2>2
    <3>2. /\ k \in DOMAIN LocalOf(RestoredStore, RestoredDb) <=> <<k[2], k[3]>> \in DOMAIN RestoredStore
          /\ <<k[2], k[3]>> \in DOMAIN RestoredStore =>
                LocalOf(RestoredStore, RestoredDb)[k] = RestoredStore[<<k[2], k[3]>>]
      BY <1>2, <2>2, Held
    <3>3. <<k[2], k[3]>> \in DOMAIN RestoredStore => RestoredStore[<<k[2], k[3]>>] = decrypt(backup[k])
      BY <1>1, <2>2
    <3> QED BY <2>0, <3>1, <3>2, <3>3 DEF Agree
  <2>3. CASE ~ Known(k)
    <3>1. k \notin DOMAIN backup /\ k \notin DOMAIN LocalOf(RestoredStore, RestoredDb)
      BY <1>2, <2>3, Held DEF KeysOK
    <3> QED BY <2>0, <3>1 DEF Agree
  <2> QED BY <2>1, <2>2, <2>3 DEF Known
<1> QED BY <1>2, <1>4

\* The backup is restored on a new device.
LEMMA RestoreOK ==
    ASSUME IInv, restore
    PROVE  IInv'
<1>0. /\ app = "Lost" /\ app' = "Restored" /\ sled' = RestoredStore /\ db' = RestoredDb
      /\ unsure' = unsettled \cup InFlight /\ unsettled' = InFlight
      /\ UNCHANGED <<snapshots, tasks, backup, expected>> /\ KeysOK /\ DbOK /\ FollowedOK
  BY DEF restore, IInv
<1>1. /\ \A l \in DOMAIN sled' : l = <<l[1], l[2]>>
      /\ \A k : Agree(Plain(backup), Local', k)
  BY <1>0, Restores, LocalIs
<1>2. Copies' = Copies /\ Copies = {} /\ Device = expected /\ Device' = Local'
  BY <1>0 DEF Copies, DbOK, Device
<1>3. KeysOK' /\ DbOK'
  BY <1>0, <1>1, <1>2 DEF KeysOK, DbOK
<1>4. FollowedOK'
  <2>1. ASSUME NEW k, k \notin unsettled' PROVE Followed(Device', tasks', backup', Copies', k)
    <3>1. \A t \in tasks : t.key # k
      BY <1>0, <2>1, UnderWay
    <3> QED BY <1>0, <1>1, <1>2, <3>1 DEF Followed
  <2> QED BY <2>1 DEF FollowedOK
<1>5. RestoredOK'
  <2>1. ASSUME NEW k, k \notin unsure' PROVE Agree(Local', expected', k)
    <3>1. Followed(Device, tasks, backup, Copies, k) /\ \A t \in tasks : t.key # k
      BY <1>0, <2>1, UnderWay DEF FollowedOK
    <3>2. Agree(Plain(backup), expected, k)
      BY <1>2, <3>1 DEF Followed
    <3> QED BY <1>0, <1>1, <3>2 DEF Agree
  <2> QED BY <2>1 DEF RestoredOK
<1> QED BY <1>3, <1>4, <1>5 DEF IInv

\* The restore fails: nothing more is claimed of this device.
LEMMA FailRestoreOK ==
    ASSUME IInv, FailRestore
    PROVE  IInv'
<1>0. /\ app = "Lost" /\ app' = "Unrestored" /\ UNCHANGED <<snapshots, tasks, backup>> /\ KeysOK /\ DbOK
      /\ \/ sled' = << >>
         \/ sled' = [k \in {l \in DOMAIN RestoredStore : l[1] = CONTRACT} |-> RestoredStore[k]]
  BY DEF FailRestore, IInv
<1>1. \A l \in DOMAIN sled' : l = <<l[1], l[2]>>
  <2>1. DOMAIN sled' \subseteq DOMAIN RestoredStore
    BY <1>0
  <2> QED BY <1>0, <2>1, Restores
<1>2. Copies' = Copies
  BY <1>0 DEF Copies
<1>3. KeysOK' /\ DbOK' /\ FollowedOK' /\ RestoredOK'
  BY <1>0, <1>1, <1>2 DEF KeysOK, DbOK, FollowedOK, RestoredOK
<1> QED BY <1>3 DEF IInv

\* The node starts on the restored store.
LEMMA StartOK ==
    ASSUME IInv, Start
    PROVE  IInv'
<1>0. /\ app = "Restored" /\ app' = "Restarted" /\ db' = init_db(db)
      /\ unsettled' = IF db = NoDb THEN unsettled \cup {DbKey} ELSE unsettled
      /\ UNCHANGED <<sled, snapshots, tasks, backup>> /\ KeysOK /\ DbOK /\ FollowedOK
  BY DEF Start, IInv
<1>1. Copies' = Copies /\ Device = LocalOf(sled, db) /\ Device' = LocalOf(sled, db')
  BY <1>0, LocalIs DEF Copies, Device
<1>2. KeysOK' /\ DbOK' /\ RestoredOK'
  BY <1>0, <1>1 DEF KeysOK, DbOK, RestoredOK
<1>3. ASSUME NEW k, k \notin unsettled' PROVE Followed(Device', tasks', backup', Copies', k)
  <2>1. Followed(Device, tasks, backup, Copies, k) /\ (db' = db \/ k # DbKey)
    BY <1>0, <1>3 DEF FollowedOK, init_db
  <2>2. Agree(Device', Device, k)
    <3>1. CASE db' = db
      BY <1>1, <3>1 DEF Agree
    <3>2. CASE k # DbKey
      BY <1>0, <1>1, <3>2, HeldButDb DEF KeysOK
    <3> QED BY <2>1, <3>1, <3>2
  <2>3. Agree(backup', backup, k)
    BY <1>0 DEF Agree
  <2> QED BY <1>0, <1>1, <2>1, <2>2, <2>3, FollowedKept
<1>4. FollowedOK'
  BY <1>3 DEF FollowedOK
<1> QED BY <1>2, <1>4 DEF IInv

-----------------------------------------------------------------------------
(* The invariant, and what it is for *)

\* Nothing is settled before the first backup.
LEMMA InitOK ==
    ASSUME Init
    PROVE  IInv
<1>0. /\ db = 1 /\ snapshots = << >> /\ app = "Running" /\ tasks = {} /\ backup = << >>
      /\ unsettled = DOMAIN Local
  BY DEF Init
<1>1. \A l \in DOMAIN sled : l = <<l[1], l[2]>>
  <2>1. \/ sled = << >>
        \/ DOMAIN sled = {<<CHANNEL, "id">>, <<CONTRACT, "c1">>, <<KEY_PAIR, "pk">>}
    BY DEF Init
  <2> QED BY <2>1
<1>2. Copies = {} /\ DOMAIN backup = {} /\ Device = Local /\ snapshots \in Seq(SnapshotStates)
  BY <1>0 DEF Copies, Device
<1>3. KeysOK
  BY <1>0, <1>1, <1>2 DEF KeysOK
<1>4. DbOK
  BY <1>0, <1>2 DEF DbOK, NoDb
<1>5. FollowedOK
  <2>1. ASSUME NEW k, k \notin unsettled PROVE Followed(Device, tasks, backup, Copies, k)
    <3>1. Agree(Plain(backup), Device, k)
      BY <1>0, <1>2, <2>1 DEF Agree, Plain
    <3> QED BY <1>0, <1>2, <3>1 DEF Followed
  <2> QED BY <2>1 DEF FollowedOK
<1>6. RestoredOK
  BY <1>0 DEF RestoredOK
<1> QED BY <1>3, <1>4, <1>5, <1>6 DEF IInv

\* Every step preserves the invariant.
LEMMA NextOK ==
    ASSUME IInv, [Next]_vars
    PROVE  IInv'
<1>1. CASE UNCHANGED vars
  BY <1>1, Untouched DEF vars
<1>2. CASE (\E i \in Stages : StoreChannel(i)) \/ roll_back_channel \/ periodic_check \/ delete_dlc_channel
  <2>1. UNCHANGED <<sled, db, snapshots, app, tasks, backup, unsettled, expected, unsure>>
    BY <1>2 DEF StoreChannel, roll_back_channel, periodic_check, delete_dlc_channel, ghosts
  <2> QED BY <2>1, Untouched
<1>3. CASE StoreStep \/ full_backup \/ Crash \/ LoseDevice \/ restore \/ FailRestore \/ Start
  BY <1>3, StoreStepOK, FullBackupOK, CrashOK, LoseDeviceOK, RestoreOK, FailRestoreOK, StartOK
<1>4. ASSUME NEW e, UpdateDb(e) PROVE IInv'
  BY <1>4, UpdateDbOK
<1>5. ASSUME NEW i, DbBackup(i) PROVE IInv'
  BY <1>5, DbBackupOK
<1>6. ASSUME NEW t \in tasks, Handle(t) \/ FailRequest(t) PROVE IInv'
  BY <1>6, HandleOK, FailRequestOK
<1> QED BY <1>1, <1>2, <1>3, <1>4, <1>5, <1>6 DEF Next

\* The invariant holds in every reachable state.
THEOREM Invariance == Spec => []IInv
<1>1. Init => IInv
  BY InitOK
<1>2. IInv /\ [Next]_vars => IInv'
  BY NextOK
<1> QED BY <1>1, <1>2, PTL DEF Spec

\* The backup follows the device: however writes, deletes, copies of the database and
\* failures interleave, for every key without a request under way the coordinator holds
\* what the device holds, unless the last request of the key failed, was lost or raced
\* (TenTenOneNodeStorage, RemoteBackupClient, SledBackup).
THEOREM BackupIsCurrentAlways == Spec => []BackupIsCurrent
<1>1. IInv => BackupIsCurrent
  <2> SUFFICES ASSUME IInv, app \in {"Running", "Restarted"},
                      NEW k \in (DOMAIN Local \cup DOMAIN backup) \ (unsettled \cup InFlight)
               PROVE  /\ k \in DOMAIN Local /\ k \in DOMAIN backup
                      /\ Local[k] = decrypt(backup[k])
    BY DEF BackupIsCurrent
  <2>1. Followed(Local, tasks, backup, Copies, k)
    BY DEF IInv, FollowedOK, Device
  <2>2. Agree(Plain(backup), Local, k)
    BY <2>1, UnderWay DEF Followed
  <2>3. DOMAIN Plain(backup) = DOMAIN backup /\ (k \in DOMAIN backup => Plain(backup)[k] = decrypt(backup[k]))
    BY DEF Plain
  <2> QED BY <2>2, <2>3 DEF Agree
<1> QED BY <1>1, Invariance, PTL

\* A restore that runs to its end brings back what the lost device had, entry by entry,
\* as far as the backup was settled when it was downloaded, and adds nothing else
\* (restore_from_mnemonic, RemoteBackupClient::restore).
THEOREM RestoreBringsBackAlways == Spec => []RestoreBringsBack
<1>1. IInv => RestoreBringsBack
  BY DEF IInv, RestoredOK, RestoreBringsBack, Agree
<1> QED BY <1>1, Invariance, PTL

-----------------------------------------------------------------------------
(***************************************************************************)
(* ChannelIsUsable.  It is about the store between two calls.  The         *)
(* invariant says of a call under way what its remaining operations will   *)
(* leave in the store (LaterLook): that does not change when one of them   *)
(* is carried out, and it is what the channel needs.  Between the channel  *)
(* and its contract, and only there, the store itself may lack what the    *)
(* channel needs; an app killed there is damaged.                          *)
(***************************************************************************)

\* The entry of the store for the channel that the i-th call stores.
ChannelOf(i) == serialize_channel(Calls[i].channel)

\* The contracts that are ever stored.
Contracts ==
    {Con("Offered", "t1", "t1"), Con("Accepted", "c1", "t1"), Con("Signed", "c1", "t1"),
     Con("Confirmed", "c1", "t1"), Con("Offered", "t2", "t2"), Con("Accepted", "c2", "t2"),
     Con("Confirmed", "c2", "t2")}

\* What an entry may hold: under an id only what some call stores there.
Allowed(kind, key, value) ==
    \/ kind = CHANNEL /\ key = "temp" /\ value = ChannelOf(1)
    \/ kind = CHANNEL /\ key = "id" /\ \E i \in 2 .. 8 : value = ChannelOf(i)
    \/ kind = CONTRACT /\ \E c \in Contracts : key = c.body.id /\ value = serialize_contract(c)
    \/ kind = KEY_PAIR
    \/ kind = CHAIN_MONITOR
StoreOK(s) == \A l \in DOMAIN s : Allowed(l[1], l[2], s[l])

\* The contracts that the channel of stage i needs, given what is found under their ids: the
\* first one throughout, to roll back to, and the one of the renewal as far as that has come.
ContractsFor(i, c1, t2, c2) ==
    /\ c1 # {}
    /\ i \in 3 .. 8 => c1 \subseteq {serialize_contract(Con("Signed", "c1", "t1")),
                                     serialize_contract(Con("Confirmed", "c1", "t1"))}
    /\ i = 4 => t2 = {serialize_contract(Con("Offered", "t2", "t2"))}
    /\ i \in {5, 6} => c2 # {}
    /\ i = 7 => c2 = {serialize_contract(Con("Confirmed", "c2", "t2"))}

\* If the channel is there, its offer is gone, its key is there and so are its contracts.
Good(channel, offer, c1, t2, c2, key) ==
    channel # {} =>
        /\ offer = {} /\ key # {}
        /\ \E i \in 2 .. 8 : channel = {ChannelOf(i)} /\ ContractsFor(i, c1, t2, c2)

\* What store s has under a key.
Look(s, kind, key) == {s[l] : l \in {<<kind, key>>} \cap DOMAIN s}
Fine(s) ==
    Good(Look(s, CHANNEL, "id"), Look(s, CHANNEL, "temp"), Look(s, CONTRACT, "c1"),
         Look(s, CONTRACT, "t2"), Look(s, CONTRACT, "c2"), Look(s, KEY_PAIR, "pk"))

\* What store s will have under a key when the operations todo have been carried out.
LaterLook(s, todo, kind, key) ==
    IF \E o \in todo : o.kind = kind /\ o.key = key
    THEN {o.value : o \in {p \in todo : p.op = "write" /\ p.kind = kind /\ p.key = key}}
    ELSE Look(s, kind, key)
FineLater(s, todo) ==
    Good(LaterLook(s, todo, CHANNEL, "id"), LaterLook(s, todo, CHANNEL, "temp"),
         LaterLook(s, todo, CONTRACT, "c1"), LaterLook(s, todo, CONTRACT, "t2"),
         LaterLook(s, todo, CONTRACT, "c2"), LaterLook(s, todo, KEY_PAIR, "pk"))

\* The order of the operations within a call: key pair, channel, contract, chain monitor.
Rank(o) ==
    IF o.kind = KEY_PAIR THEN 1
    ELSE IF o.kind = CHANNEL THEN IF o.op = "delete" THEN 2 ELSE 3
    ELSE IF o.kind = CONTRACT THEN IF o.op = "delete" THEN 4 ELSE 5
    ELSE 6

\* The operations a call may consist of.
OpOK(o) ==
    \/ o.op = "write" /\ Allowed(o.kind, o.key, o.value)
    \/ o.op = "delete" /\ o.kind = CHANNEL /\ o.key \in {"temp", "id"}
    \/ o.op = "delete" /\ o.kind = CONTRACT /\ o.key \in {"t1", "t2"}

\* The operations of a call, and that they are in the order of their ranks.
Elems(q) == {q[i] : i \in DOMAIN q}
Sorted(q) ==
    /\ \E S : q \in Seq(S)
    /\ \A i, j \in DOMAIN q : i < j => Rank(q[i]) < Rank(q[j])

\* The operations of a call, or of the rest of one: one for each key; an offered contract is
\* dropped only before the one that replaces it is stored; a channel is deleted by a call of
\* its own; a call that stores a channel does not touch the chain monitor.
Call(todo) ==
    /\ \A o \in todo : OpOK(o)
    /\ \A o, p \in todo : o.kind = p.kind /\ o.key = p.key => o = p
    /\ \A o \in todo : Rank(o) = 4 => \E p \in todo : Rank(p) = 5
    /\ \A o, p \in todo : Rank(o) = 2 /\ o.key = "id" => p = o
    /\ \A o, p \in todo : Rank(o) = 3 => Rank(p) # 6

\* The channel is written and its contract is not.
CutOf(todo) ==
    (\E o \in todo : Rank(o) = 5) /\ \A o \in todo : Rank(o) # 3

\* While the app runs, the store is fine unless the call is between the channel and its
\* contract, and it is fine again when the call is complete.
RunOK ==
    /\ Sorted(ops) /\ Call(Elems(ops)) /\ StoreOK(sled)
    /\ ~ CutOf(Elems(ops)) => Fine(sled)
    /\ FineLater(sled, Elems(ops))
    /\ owned => <<CHANNEL, "id">> \in DOMAIN sled /\ \A o \in Elems(ops) : ~ (Rank(o) = 2 /\ o.key = "id")

\* What a lost device had was fine.
LostOK ==
    \E s, d : /\ \A l \in DOMAIN s : l = <<l[1], l[2]>>
              /\ StoreOK(s) /\ Fine(s) /\ expected = LocalOf(s, d)

\* The invariant: nothing is said of a store that was damaged.
UsableInv ==
    ~ damaged =>
       /\ app = "Running" => RunOK
       /\ app \in {"Lost", "Restored"} => LostOK
       /\ app = "Restarted" => Fine(sled) /\ StoreOK(sled) /\ (owned => <<CHANNEL, "id">> \in DOMAIN sled)

-----------------------------------------------------------------------------
(* The operations of a call *)

\* The kinds of entries are different.
LEMMA Kinds == CONTRACT = 1 /\ CHANNEL = 2 /\ CHAIN_MONITOR = 3 /\ KEY_PAIR = 6
BY DEF CONTRACT, CHANNEL, CHAIN_MONITOR, KEY_PAIR

\* A sequence of one operation, and of none.
LEMMA SortedOne ==
    ASSUME NEW o
    PROVE  Sorted(<<o>>) /\ Elems(<<o>>) = {o} /\ Sorted(<< >>) /\ Elems(<< >>) = {}
<1>1. /\ <<o>> \in Seq({o}) /\ << >> \in Seq({o})
      /\ DOMAIN <<o>> = {1} /\ <<o>>[1] = o /\ DOMAIN << >> = {}
  OBVIOUS
<1>2. Elems(<<o>>) = {o} /\ Elems(<< >>) = {}
  BY <1>1 DEF Elems
<1>3. Sorted(<<o>>)
  <2>1. \A i, j \in DOMAIN <<o>> : ~ (i < j)
    BY <1>1
  <2> QED BY <1>1, <2>1 DEF Sorted
<1>4. Sorted(<< >>)
  BY <1>1 DEF Sorted
<1> QED BY <1>2, <1>3, <1>4

\* Two sequences of operations one after the other.
LEMMA SortedConcat ==
    ASSUME NEW s, NEW t, Sorted(s), Sorted(t),
           \A a \in Elems(s), b \in Elems(t) : Rank(a) < Rank(b)
    PROVE  Sorted(s \o t) /\ Elems(s \o t) = Elems(s) \cup Elems(t)
<1>1. PICK S : s \in Seq(S)
  BY DEF Sorted
<1>2. PICK T : t \in Seq(T)
  BY DEF Sorted
<1>3. s \in Seq(S \cup T) /\ t \in Seq(S \cup T)
  BY <1>1, <1>2
<1>4. /\ s \o t \in Seq(S \cup T) /\ Len(s \o t) = Len(s) + Len(t) /\ Len(s) \in Nat /\ Len(t) \in Nat
      /\ DOMAIN s = 1 .. Len(s) /\ DOMAIN t = 1 .. Len(t) /\ DOMAIN (s \o t) = 1 .. Len(s) + Len(t)
      /\ \A i \in 1 .. Len(s) + Len(t) : (s \o t)[i] = IF i <= Len(s) THEN s[i] ELSE t[i - Len(s)]
  BY <1>3
<1>5. Elems(s \o t) = Elems(s) \cup Elems(t)
  <2>1. ASSUME NEW i \in DOMAIN s PROVE i \in DOMAIN (s \o t) /\ (s \o t)[i] = s[i]
    BY <1>4
  <2>2. ASSUME NEW i \in DOMAIN t PROVE i + Len(s) \in DOMAIN (s \o t) /\ (s \o t)[i + Len(s)] = t[i]
    BY <1>4
  <2>3. ASSUME NEW i \in DOMAIN (s \o t)
        PROVE  \/ i \in DOMAIN s /\ (s \o t)[i] = s[i]
               \/ i - Len(s) \in DOMAIN t /\ (s \o t)[i] = t[i - Len(s)]
    BY <1>4
  <2>4. \A x \in Elems(s) \cup Elems(t) : x \in Elems(s \o t)
    BY <2>1, <2>2 DEF Elems
  <2>5. \A x \in Elems(s \o t) : x \in Elems(s) \/ x \in Elems(t)
    BY <2>3 DEF Elems
  <2> QED BY <2>4, <2>5
<1>6. ASSUME NEW i \in DOMAIN (s \o t), NEW j \in DOMAIN (s \o t), i < j
      PROVE  Rank((s \o t)[i]) < Rank((s \o t)[j])
  <2>1. CASE j <= Len(s)
    <3>1. i \in DOMAIN s /\ j \in DOMAIN s /\ (s \o t)[i] = s[i] /\ (s \o t)[j] = s[j]
      BY <1>4, <1>6, <2>1
    <3> QED BY <1>6, <3>1 DEF Sorted
  <2>2. CASE i > Len(s)
    <3>1. /\ i - Len(s) \in DOMAIN t /\ j - Len(s) \in DOMAIN t /\ i - Len(s) < j - Len(s)
          /\ (s \o t)[i] = t[i - Len(s)] /\ (s \o t)[j] = t[j - Len(s)]
      BY <1>4, <1>6, <2>2
    <3> QED BY <3>1 DEF Sorted
  <2>3. CASE i <= Len(s) /\ j > Len(s)
    <3>1. /\ i \in DOMAIN s /\ j - Len(s) \in DOMAIN t
          /\ (s \o t)[i] = s[i] /\ (s \o t)[j] = t[j - Len(s)]
      BY <1>4, <1>6, <2>3
    <3> QED BY <3>1 DEF Elems
  <2> QED BY <1>4, <1>6, <2>1, <2>2, <2>3
<1> QED BY <1>4, <1>5, <1>6 DEF Sorted

\* The first operation of a call and the others.
LEMMA SortedTail ==
    ASSUME NEW q, Sorted(q), q # << >>
    PROVE  /\ Sorted(Tail(q)) /\ Elems(q) = {Head(q)} \cup Elems(Tail(q))
           /\ \A o \in Elems(Tail(q)) : Rank(Head(q)) < Rank(o)
<1>1. PICK S : q \in Seq(S)
  BY DEF Sorted
<1>2. /\ Tail(q) \in Seq(S) /\ Head(q) = q[1] /\ Len(q) \in Nat /\ Len(q) >= 1 /\ Len(Tail(q)) = Len(q) - 1
      /\ DOMAIN q = 1 .. Len(q) /\ DOMAIN Tail(q) = 1 .. Len(q) - 1
      /\ \A i \in 1 .. Len(q) - 1 : Tail(q)[i] = q[i + 1]
  BY <1>1
<1>3. \A i \in DOMAIN Tail(q) : i + 1 \in DOMAIN q /\ 1 < i + 1 /\ Tail(q)[i] = q[i + 1]
  BY <1>2
<1>4. \A j \in DOMAIN q : j = 1 \/ (j - 1 \in DOMAIN Tail(q) /\ Tail(q)[j - 1] = q[j])
  BY <1>2
<1>5. 1 \in DOMAIN q
  BY <1>2
<1>6. Elems(q) = {Head(q)} \cup Elems(Tail(q))
  BY <1>2, <1>3, <1>4, <1>5 DEF Elems
<1>7. \A o \in Elems(Tail(q)) : Rank(Head(q)) < Rank(o)
  BY <1>2, <1>3, <1>5 DEF Elems, Sorted
<1>8. ASSUME NEW i \in DOMAIN Tail(q), NEW j \in DOMAIN Tail(q), i < j
      PROVE  Rank(Tail(q)[i]) < Rank(Tail(q)[j])
  <2>1. i + 1 < j + 1
    BY <1>2, <1>8
  <2> QED BY <1>3, <2>1 DEF Sorted
<1> QED BY <1>2, <1>6, <1>7, <1>8 DEF Sorted

\* The calls one by one.
LEMMA CallsAre ==
    /\ DOMAIN Calls = 1 .. 8 /\ Len(Calls) = 8
    /\ Calls[1].channel = Chan("Offered", "temp", "t1", None)
    /\ Calls[1].contract = <<Con("Offered", "t1", "t1")>>
    /\ Calls[2].channel = Chan("Accepted", "id", "c1", None)
    /\ Calls[2].contract = <<Con("Accepted", "c1", "t1")>>
    /\ Calls[3].channel = Chan("Signed", "id", "c1", "Established")
    /\ Calls[3].contract = <<Con("Signed", "c1", "t1")>>
    /\ Calls[4].channel = Chan("Signed", "id", "t2", "RenewOffered")
    /\ Calls[4].contract = <<Con("Offered", "t2", "t2")>>
    /\ Calls[5].channel = Chan("Signed", "id", "c2", "RenewAccepted")
    /\ Calls[5].contract = <<Con("Accepted", "c2", "t2")>>
    /\ Calls[6].channel = Chan("Signed", "id", "c2", "RenewFinalized")
    /\ Calls[6].contract = << >>
    /\ Calls[7].channel = Chan("Signed", "id", "c2", "Established")
    /\ Calls[7].contract = <<Con("Confirmed", "c2", "t2")>>
    /\ Calls[8].channel = Chan("CollaborativelyClosed", "id", "c2", None)
    /\ Calls[8].contract = << >>
BY DEF Calls

\* The operations that store a channel, and those that store a contract.
ChannelOps(i) ==
    (IF i \in {1, 8} THEN {} ELSE {delete(CHANNEL, "temp")})
        \cup {write(CHANNEL, IF i = 1 THEN "temp" ELSE "id", ChannelOf(i))}
ContractOps(c) ==
    (IF Supersedes(c) THEN {delete(CONTRACT, c.body.temp)} ELSE {})
        \cup {write(CONTRACT, c.body.id, serialize_contract(c))}

\* The ranks of the operations.
LEMMA Ranks ==
    ASSUME NEW key, NEW value
    PROVE  /\ Rank(write(KEY_PAIR, key, value)) = 1
           /\ Rank(delete(CHANNEL, key)) = 2 /\ Rank(write(CHANNEL, key, value)) = 3
           /\ Rank(delete(CONTRACT, key)) = 4 /\ Rank(write(CONTRACT, key, value)) = 5
           /\ Rank(write(CHAIN_MONITOR, key, value)) = 6
BY Kinds DEF Rank, write, delete

\* insert_contract and update_contract drop the offered contract and store the new one.
LEMMA InsertedOps ==
    ASSUME NEW c
    PROVE  /\ Sorted(insert_contract(c)) /\ Elems(insert_contract(c)) = ContractOps(c)
           /\ update_contract(c) = insert_contract(c)
<1>1. PICK w : w = write(CONTRACT, c.body.id, serialize_contract(c)) /\ Rank(w) = 5
  BY Ranks
<1>2. PICK d : d = delete(CONTRACT, c.body.temp) /\ Rank(d) = 4
  BY Ranks
<1>3. PICK q : q = DropTemporary(CONTRACT, c)
  OBVIOUS
<1>4. Sorted(q) /\ Elems(q) = (IF Supersedes(c) THEN {d} ELSE {})
  BY <1>2, <1>3, SortedOne DEF DropTemporary
<1>5. Sorted(q \o <<w>>) /\ Elems(q \o <<w>>) = Elems(q) \cup {w}
  <2>1. Sorted(<<w>>) /\ Elems(<<w>>) = {w}
    BY SortedOne
  <2>2. \A a \in Elems(q), b \in Elems(<<w>>) : Rank(a) < Rank(b)
    BY <1>1, <1>2, <1>4, <2>1
  <2> QED BY <1>4, <2>1, <2>2, SortedConcat
<1>6. insert_contract(c) = q \o <<w>> /\ update_contract(c) = q \o <<w>>
  BY <1>1, <1>3 DEF insert_contract, update_contract
<1> QED BY <1>1, <1>2, <1>4, <1>5, <1>6 DEF ContractOps

\* upsert_channel drops the offer, stores the channel and then its contract, if there is one.
LEMMA UpsertedOps ==
    ASSUME NEW i \in 1 .. 8, NEW c
    PROVE  /\ Sorted(upsert_channel(Calls[i].channel, << >>))
           /\ Elems(upsert_channel(Calls[i].channel, << >>)) = ChannelOps(i)
           /\ Sorted(upsert_channel(Calls[i].channel, <<c>>))
           /\ Elems(upsert_channel(Calls[i].channel, <<c>>)) = ChannelOps(i) \cup ContractOps(c)
<1>1. /\ Calls[i].channel.type \in {"Accepted", "Signed"} <=> i \notin {1, 8}
      /\ Calls[i].channel.body.temp = "temp" /\ Calls[i].channel.body.id = IF i = 1 THEN "temp" ELSE "id"
  BY CallsAre DEF Chan
<1>2. PICK w : w = write(CHANNEL, IF i = 1 THEN "temp" ELSE "id", ChannelOf(i)) /\ Rank(w) = 3
  BY Ranks
<1>3. PICK d : d = delete(CHANNEL, "temp") /\ Rank(d) = 2
  BY Ranks
<1>4. PICK q : q = DropTemporary(CHANNEL, Calls[i].channel)
  OBVIOUS
<1>5. Sorted(q) /\ Elems(q) = (IF i \in {1, 8} THEN {} ELSE {d})
  BY <1>1, <1>3, <1>4, SortedOne DEF DropTemporary, Supersedes
<1>6. Sorted(q \o <<w>>) /\ Elems(q \o <<w>>) = ChannelOps(i)
  <2>1. Sorted(<<w>>) /\ Elems(<<w>>) = {w}
    BY SortedOne
  <2>2. \A a \in Elems(q), b \in Elems(<<w>>) : Rank(a) < Rank(b)
    BY <1>2, <1>3, <1>5, <2>1
  <2>3. Sorted(q \o <<w>>) /\ Elems(q \o <<w>>) = Elems(q) \cup {w}
    BY <1>5, <2>1, <2>2, SortedConcat
  <2> QED BY <1>2, <1>3, <1>5, <2>3 DEF ChannelOps
<1>7. \A a \in ChannelOps(i) : Rank(a) \in {2, 3}
  BY <1>2, <1>3 DEF ChannelOps
<1>8. \A b \in ContractOps(c) : Rank(b) \in {4, 5}
  BY Ranks DEF ContractOps
<1>9. PICK r : r = q \o <<w>>
  OBVIOUS
<1>10. Sorted(r \o << >>) /\ Elems(r \o << >>) = ChannelOps(i)
  BY <1>6, <1>9, SortedOne, SortedConcat
<1>11. Sorted(r \o insert_contract(c)) /\ Elems(r \o insert_contract(c)) = ChannelOps(i) \cup ContractOps(c)
  <2>1. \A a \in Elems(r), b \in Elems(insert_contract(c)) : Rank(a) < Rank(b)
    BY <1>6, <1>7, <1>8, <1>9, InsertedOps
  <2> QED BY <1>6, <1>9, <2>1, InsertedOps, SortedConcat
<1>12. <<c>> # << >> /\ <<c>>[1] = c
  OBVIOUS
<1>13. /\ upsert_channel(Calls[i].channel, << >>) = r \o << >>
       /\ upsert_channel(Calls[i].channel, <<c>>) = r \o insert_contract(c)
  BY <1>1, <1>2, <1>4, <1>9, <1>12 DEF upsert_channel, ChannelOf
<1> QED BY <1>10, <1>11, <1>13

\* What a contract that is stored looks like.
LEMMA ContractsAre ==
    ASSUME NEW c \in Contracts
    PROVE  /\ c = Con(c.type, c.body.id, c.body.temp)
           /\ c.type \in {"Offered", "Accepted", "Signed", "Confirmed"}
           /\ c.body.id \in {"t1", "c1", "t2", "c2"} /\ c.body.temp \in {"t1", "t2"}
           /\ Supersedes(c) => c.body.id \in {"c1", "c2"}
           /\ Supersedes(c) <=> c.type \in {"Accepted", "Signed"}
           /\ c.type = "Signed" => c = Con("Signed", "c1", "t1")
BY DEF Contracts, Con, Supersedes

\* The operations of a call that stores channel i and perhaps contract c.
StoreChan(i) == write(CHANNEL, IF i = 1 THEN "temp" ELSE "id", ChannelOf(i))
DropOffer == delete(CHANNEL, "temp")
StoreCon(c) == write(CONTRACT, c.body.id, serialize_contract(c))
DropCon(c) == delete(CONTRACT, c.body.temp)
StoreKeyPair == write(KEY_PAIR, "pk", SecretKey)

\* The operations of such a call, if it stores the contract (con) and takes a new key (new).
StageTodo(i, c, rest, keys, todo) ==
    \A o : o \in todo <=>
        \/ o = StoreChan(i)
        \/ o = DropOffer /\ i \notin {1, 8}
        \/ o = StoreCon(c) /\ rest # {}
        \/ o = DropCon(c) /\ rest # {} /\ Supersedes(c)
        \/ o = StoreKeyPair /\ keys # {}

\* What the store will then have under each key.
StageLater(s, i, c, rest, keys, todo) ==
    /\ Call(todo) /\ \A o \in todo : ~ (Rank(o) = 2 /\ o.key = "id")
    /\ LaterLook(s, todo, CHANNEL, "id") = IF i = 1 THEN Look(s, CHANNEL, "id") ELSE {ChannelOf(i)}
    /\ i \in 2 .. 7 => LaterLook(s, todo, CHANNEL, "temp") = {}
    /\ i = 8 => LaterLook(s, todo, CHANNEL, "temp") = Look(s, CHANNEL, "temp")
    /\ LaterLook(s, todo, KEY_PAIR, "pk") = IF keys = {} THEN Look(s, KEY_PAIR, "pk") ELSE {SecretKey}
    /\ \A id : LaterLook(s, todo, CONTRACT, id) =
                 IF rest = {} THEN Look(s, CONTRACT, id)
                 ELSE IF id = c.body.id THEN {serialize_contract(c)}
                 ELSE IF Supersedes(c) /\ id = c.body.temp THEN {} ELSE Look(s, CONTRACT, id)

\* The fields of these operations and their ranks.
LEMMA Fields ==
    ASSUME NEW i, NEW c
    PROVE  /\ StoreChan(i).op = "write" /\ StoreChan(i).kind = CHANNEL /\ StoreChan(i).value = ChannelOf(i)
           /\ (i = 1 => StoreChan(i).key = "temp") /\ (i # 1 => StoreChan(i).key = "id")
           /\ DropOffer.op = "delete" /\ DropOffer.kind = CHANNEL /\ DropOffer.key = "temp"
           /\ StoreCon(c).op = "write" /\ StoreCon(c).kind = CONTRACT /\ StoreCon(c).key = c.body.id
           /\ StoreCon(c).value = serialize_contract(c)
           /\ DropCon(c).op = "delete" /\ DropCon(c).kind = CONTRACT /\ DropCon(c).key = c.body.temp
           /\ StoreKeyPair.op = "write" /\ StoreKeyPair.kind = KEY_PAIR /\ StoreKeyPair.key = "pk"
           /\ StoreKeyPair.value = SecretKey
           /\ Rank(StoreChan(i)) = 3 /\ Rank(DropOffer) = 2 /\ Rank(StoreCon(c)) = 5 /\ Rank(DropCon(c)) = 4
           /\ Rank(StoreKeyPair) = 1
BY Ranks DEF StoreChan, DropOffer, StoreCon, DropCon, StoreKeyPair, write, delete

\* The operations of a call are those named by StageTodo.
LEMMA UpsertIs ==
    ASSUME NEW i \in 1 .. 8, NEW c, NEW rest, rest \in {{}, ContractOps(c)},
           NEW keys, keys \in {{}, {StoreKeyPair}}, NEW o
    PROVE  o \in keys \cup ChannelOps(i) \cup rest <=>
                    \/ o = StoreChan(i)
                    \/ o = DropOffer /\ i \notin {1, 8}
                    \/ o = StoreCon(c) /\ rest # {}
                    \/ o = DropCon(c) /\ rest # {} /\ Supersedes(c)
                    \/ o = StoreKeyPair /\ keys # {}
<1>1. ChannelOps(i) = (IF i \in {1, 8} THEN {} ELSE {DropOffer}) \cup {StoreChan(i)}
  BY DEF ChannelOps, StoreChan, DropOffer
<1>2. ContractOps(c) = (IF Supersedes(c) THEN {DropCon(c)} ELSE {}) \cup {StoreCon(c)}
  BY DEF ContractOps, StoreCon, DropCon
<1>3. o \in keys <=> o = StoreKeyPair /\ keys # {}
  OBVIOUS
<1>4. o \in ChannelOps(i) <=> o = StoreChan(i) \/ (o = DropOffer /\ i \notin {1, 8})
  BY <1>1
<1>5. o \in ContractOps(c) <=> o = StoreCon(c) \/ (o = DropCon(c) /\ Supersedes(c))
  BY <1>2
<1>6. o \in rest <=> rest # {} /\ (o = StoreCon(c) \/ (o = DropCon(c) /\ Supersedes(c)))
  BY <1>5
<1> QED BY <1>3, <1>4, <1>6

\* What the store will have under a key, by whether the call has an operation for it.
LEMMA LaterIs ==
    ASSUME NEW s, NEW todo, \A o, p \in todo : o.kind = p.kind /\ o.key = p.key => o = p,
           NEW kind, NEW key
    PROVE  /\ \A o \in todo : o.kind = kind /\ o.key = key =>
                LaterLook(s, todo, kind, key) = IF o.op = "write" THEN {o.value} ELSE {}
           /\ (\A o \in todo : ~ (o.kind = kind /\ o.key = key)) =>
                LaterLook(s, todo, kind, key) = Look(s, kind, key)
<1>1. ASSUME NEW o \in todo, o.kind = kind, o.key = key
      PROVE  LaterLook(s, todo, kind, key) = IF o.op = "write" THEN {o.value} ELSE {}
  <2>1. {p \in todo : p.op = "write" /\ p.kind = kind /\ p.key = key} = IF o.op = "write" THEN {o} ELSE {}
    BY <1>1
  <2>2. LaterLook(s, todo, kind, key) = {p.value : p \in {p \in todo : p.op = "write" /\ p.kind = kind /\ p.key = key}}
    BY <1>1 DEF LaterLook
  <2> QED BY <2>1, <2>2
<1>2. (\A o \in todo : ~ (o.kind = kind /\ o.key = key)) =>
                LaterLook(s, todo, kind, key) = Look(s, kind, key)
  BY DEF LaterLook
<1> QED BY <1>1, <1>2

\* What the store will have under each key when a call is complete.
LEMMA LaterUpsert ==
    ASSUME NEW s, NEW i \in 1 .. 8, NEW c \in Contracts, NEW rest, NEW keys, NEW todo,
           StageTodo(i, c, rest, keys, todo)
    PROVE  StageLater(s, i, c, rest, keys, todo)
<1>1. /\ StoreChan(i).op = "write" /\ StoreChan(i).kind = CHANNEL /\ StoreChan(i).value = ChannelOf(i)
      /\ (i = 1 => StoreChan(i).key = "temp") /\ (i # 1 => StoreChan(i).key = "id")
      /\ DropOffer.op = "delete" /\ DropOffer.kind = CHANNEL /\ DropOffer.key = "temp"
      /\ StoreCon(c).op = "write" /\ StoreCon(c).kind = CONTRACT /\ StoreCon(c).key = c.body.id
      /\ StoreCon(c).value = serialize_contract(c)
      /\ DropCon(c).op = "delete" /\ DropCon(c).kind = CONTRACT /\ DropCon(c).key = c.body.temp
      /\ StoreKeyPair.op = "write" /\ StoreKeyPair.kind = KEY_PAIR /\ StoreKeyPair.key = "pk"
      /\ StoreKeyPair.value = SecretKey
      /\ Rank(StoreChan(i)) = 3 /\ Rank(DropOffer) = 2 /\ Rank(StoreCon(c)) = 5 /\ Rank(DropCon(c)) = 4
      /\ Rank(StoreKeyPair) = 1
  BY Fields
<1>0. \A o : o \in todo <=>
                    \/ o = StoreChan(i)
                    \/ o = DropOffer /\ i \notin {1, 8}
                    \/ o = StoreCon(c) /\ rest # {}
                    \/ o = DropCon(c) /\ rest # {} /\ Supersedes(c)
                    \/ o = StoreKeyPair /\ keys # {}
  BY DEF StageTodo
<1>2. Supersedes(c) => DropCon(c).key # StoreCon(c).key
  BY <1>0, <1>1, ContractsAre
<1>3. \A o, p \in todo : o.kind = p.kind /\ o.key = p.key => o = p
  BY <1>0, <1>1, <1>2, Kinds
<1>4. \A o \in todo : ~ (Rank(o) = 2 /\ o.key = "id") /\ Rank(o) # 6
  BY <1>0, <1>1
<1>5. \A o \in todo : Rank(o) = 4 => StoreCon(c) \in todo
  BY <1>0, <1>1
<1>6. OpOK(StoreChan(i))
  <2>1. Allowed(CHANNEL, StoreChan(i).key, ChannelOf(i))
    BY <1>1 DEF Allowed
  <2> QED BY <1>0, <1>1, <2>1 DEF OpOK
<1>7. OpOK(DropOffer) /\ OpOK(StoreKeyPair)
  BY <1>1 DEF OpOK, Allowed
<1>8. OpOK(StoreCon(c))
  BY <1>1 DEF OpOK, Allowed
<1>9. OpOK(DropCon(c))
  BY <1>0, <1>1, ContractsAre DEF OpOK
<1>10. Call(todo)
  BY <1>0, <1>1, <1>3, <1>4, <1>5, <1>6, <1>7, <1>8, <1>9 DEF Call
<1>11. LaterLook(s, todo, CHANNEL, "id") = IF i = 1 THEN Look(s, CHANNEL, "id") ELSE {ChannelOf(i)}
  <2>1. CASE i = 1
    <3>1. \A o \in todo : ~ (o.kind = CHANNEL /\ o.key = "id")
      BY <1>0, <1>1, <2>1, Kinds
    <3> QED BY <1>3, <2>1, <3>1, LaterIs
  <2>2. CASE i # 1
    BY <1>0, <1>1, <1>3, <2>2, LaterIs
  <2> QED BY <2>1, <2>2
<1>12. i \in 2 .. 7 => LaterLook(s, todo, CHANNEL, "temp") = {}
  BY <1>0, <1>1, <1>3, LaterIs
<1>13. i = 8 => LaterLook(s, todo, CHANNEL, "temp") = Look(s, CHANNEL, "temp")
  <2>1. i = 8 => \A o \in todo : ~ (o.kind = CHANNEL /\ o.key = "temp")
    BY <1>0, <1>1, Kinds
  <2> QED BY <1>3, <2>1, LaterIs
<1>14. LaterLook(s, todo, KEY_PAIR, "pk") = IF keys = {} THEN Look(s, KEY_PAIR, "pk") ELSE {SecretKey}
  <2>1. CASE keys = {}
    <3>1. \A o \in todo : ~ (o.kind = KEY_PAIR /\ o.key = "pk")
      BY <1>0, <1>1, <2>1, Kinds
    <3> QED BY <1>3, <2>1, <3>1, LaterIs
  <2>2. CASE keys # {}
    BY <1>0, <1>1, <1>3, <2>2, LaterIs
  <2> QED BY <2>1, <2>2
<1>15. ASSUME NEW id
       PROVE  LaterLook(s, todo, CONTRACT, id) =
                        IF rest = {} THEN Look(s, CONTRACT, id)
                        ELSE IF id = c.body.id THEN {serialize_contract(c)}
                        ELSE IF Supersedes(c) /\ id = c.body.temp THEN {} ELSE Look(s, CONTRACT, id)
  <2>1. CASE rest # {} /\ id = c.body.id
    <3>1. StoreCon(c) \in todo /\ StoreCon(c).kind = CONTRACT /\ StoreCon(c).key = id
      BY <1>0, <1>1, <2>1
    <3>2. LaterLook(s, todo, CONTRACT, id) = {serialize_contract(c)}
      BY <1>0, <1>1, <1>3, <3>1, LaterIs
    <3> QED BY <2>1, <3>2
  <2>2. CASE rest # {} /\ id # c.body.id /\ Supersedes(c) /\ id = c.body.temp
    <3>1. DropCon(c) \in todo /\ DropCon(c).kind = CONTRACT /\ DropCon(c).key = id /\ DropCon(c).op # "write"
      BY <1>0, <1>1, <2>2
    <3>2. LaterLook(s, todo, CONTRACT, id) = {}
      BY <1>3, <3>1, LaterIs
    <3> QED BY <2>2, <3>2
  <2>3. CASE rest = {} \/ (id # c.body.id /\ ~ (Supersedes(c) /\ id = c.body.temp))
    <3>1. \A o \in todo : ~ (o.kind = CONTRACT /\ o.key = id)
      BY <1>0, <1>1, <2>3, Kinds
    <3>2. LaterLook(s, todo, CONTRACT, id) = Look(s, CONTRACT, id)
      BY <1>3, <3>1, LaterIs
    <3> QED BY <2>3, <3>2
  <2> QED BY <2>1, <2>2, <2>3
<1> QED BY <1>4, <1>10, <1>11, <1>12, <1>13, <1>14, <1>15 DEF StageLater

-----------------------------------------------------------------------------
\* The prefix of a name is the place where the name is listed.
LEMMA PrefixIs ==
    ASSUME NEW p, NEW i \in DOMAIN p
    PROVE  get_prefix(p, p[i]) \in DOMAIN p /\ p[get_prefix(p, p[i])] = p[i]
BY DEF get_prefix

\* The kind of a channel can be told from its prefix.
LEMMA ChannelPrefixes ==
    ASSUME NEW name \in {"Offered", "Accepted", "Signed", "CollaborativelyClosed"}
    PROVE  ChannelPrefix[get_prefix(ChannelPrefix, name)] = name
<1>1. \E i \in DOMAIN ChannelPrefix : ChannelPrefix[i] = name
  <2>1. /\ DOMAIN ChannelPrefix = 1 .. 12 /\ ChannelPrefix[1] = "Offered" /\ ChannelPrefix[2] = "Accepted"
        /\ ChannelPrefix[3] = "Signed" /\ ChannelPrefix[8] = "CollaborativelyClosed"
    BY DEF ChannelPrefix
  <2> QED BY <2>1
<1> QED BY <1>1, PrefixIs

\* The kind of a contract can be told from its prefix.
LEMMA ContractPrefixes ==
    ASSUME NEW name \in {"Offered", "Accepted", "Signed", "Confirmed"}
    PROVE  ContractPrefix[get_prefix(ContractPrefix, name)] = name
<1>1. \E i \in DOMAIN ContractPrefix : ContractPrefix[i] = name
  <2>1. /\ DOMAIN ContractPrefix = 1 .. 10 /\ ContractPrefix[1] = "Offered" /\ ContractPrefix[2] = "Accepted"
        /\ ContractPrefix[3] = "Signed" /\ ContractPrefix[4] = "Confirmed"
    BY DEF ContractPrefix
  <2> QED BY <2>1
<1> QED BY <1>1, PrefixIs

\* Serialized objects: with one prefix byte, and with two.
Buffer2(v, a, c) ==
    Len(v) = 2 /\ v[1] = a /\ v[2] = c /\ \A x : SubSeq(v, 1, 1) = <<x>> <=> x = a
Buffer3(v, a, b, c) ==
    /\ Len(v) = 3 /\ v[1] = a /\ v[2] = b /\ v[3] = c
    /\ \A x : SubSeq(v, 1, 1) = <<x>> <=> x = a
    /\ SubSeq(v, 1, 2) = <<a, b>>

\* What serialize_contract and serialize_channel put together can be taken apart.
LEMMA Buffers ==
    ASSUME NEW a, NEW b, NEW c
    PROVE  /\ Buffer3((<<a>> \o <<b>>) \o <<c>>, a, b, c)
           /\ Buffer2((<<a>> \o << >>) \o <<c>>, a, c)
           /\ Buffer2(<<a, c>>, a, c)
<1>1. ASSUME NEW v, v = (<<a>> \o <<b>>) \o <<c>>
      PROVE  v \in Seq({a, b, c}) /\ Len(v) = 3 /\ v[1] = a /\ v[2] = b /\ v[3] = c
  <2>1. PICK q : q = <<a>> \o <<b>>
    OBVIOUS
  <2>2. <<a>> \in Seq({a, b, c}) /\ <<b>> \in Seq({a, b, c}) /\ <<c>> \in Seq({a, b, c})
    OBVIOUS
  <2>3. q \in Seq({a, b, c}) /\ Len(q) = 2 /\ q[1] = a /\ q[2] = b
    BY <2>1, <2>2
  <2>4. PICK r : r = <<c>>
    OBVIOUS
  <2>6. r \in Seq({a, b, c}) /\ Len(r) = 1 /\ r[1] = c
    BY <2>2, <2>4
  <2>5. v = q \o r
    BY <1>1, <2>1, <2>4
  <2> QED BY <2>3, <2>5, <2>6, ConcatProperties
<1>2. ASSUME NEW v, v = (<<a>> \o << >>) \o <<c>>
      PROVE  v \in Seq({a, b, c}) /\ Len(v) = 2 /\ v[1] = a /\ v[2] = c
  BY <1>2
<1>3. ASSUME NEW v, v = <<a, c>>
      PROVE  v \in Seq({a, b, c}) /\ Len(v) = 2 /\ v[1] = a /\ v[2] = c
  BY <1>3
<1>4. ASSUME NEW v \in Seq({a, b, c}), Len(v) \in {2, 3}, NEW x
      PROVE  SubSeq(v, 1, 1) = <<x>> <=> x = v[1]
  <2>1. SubSeq(v, 1, 1) \in Seq({a, b, c}) /\ Len(SubSeq(v, 1, 1)) = 1 /\ SubSeq(v, 1, 1)[1] = v[1]
    BY <1>4
  <2>2. <<x>>[1] = x
    OBVIOUS
  <2>3. <<v[1]>> \in Seq({a, b, c}) /\ Len(<<v[1]>>) = 1 /\ <<v[1]>>[1] = v[1]
    BY <1>4
  <2>4. SubSeq(v, 1, 1) = <<v[1]>>
    <3>1. \A i \in 1 .. 1 : i = 1
      OBVIOUS
    <3> QED BY <2>1, <2>3, <3>1, SeqEqual
  <2> QED BY <2>1, <2>2, <2>4
<1>5. ASSUME NEW v \in Seq({a, b, c}), Len(v) = 3
      PROVE  SubSeq(v, 1, 2) = <<v[1], v[2]>>
  <2>1. /\ SubSeq(v, 1, 2) \in Seq({a, b, c}) /\ Len(SubSeq(v, 1, 2)) = 2
        /\ SubSeq(v, 1, 2)[1] = v[1] /\ SubSeq(v, 1, 2)[2] = v[2]
    BY <1>5
  <2>2. <<v[1], v[2]>> \in Seq({a, b, c}) /\ Len(<<v[1], v[2]>>) = 2 /\ <<v[1], v[2]>>[1] = v[1] /\ <<v[1], v[2]>>[2] = v[2]
    BY <1>5
  <2>3. \A i \in 1 .. 2 : i = 1 \/ i = 2
    OBVIOUS
  <2> QED BY <2>1, <2>2, <2>3, SeqEqual
<1>6. ASSUME NEW v, v = (<<a>> \o <<b>>) \o <<c>>
      PROVE  (\A x : SubSeq(v, 1, 1) = <<x>> <=> x = a) /\ SubSeq(v, 1, 2) = <<a, b>>
  <2>1. v \in Seq({a, b, c}) /\ Len(v) = 3 /\ v[1] = a /\ v[2] = b
    BY <1>1, <1>6
  <2>2. ASSUME NEW x PROVE SubSeq(v, 1, 1) = <<x>> <=> x = a
    BY <1>4, <2>1
  <2>3. SubSeq(v, 1, 2) = <<a, b>>
    BY <1>5, <2>1
  <2> QED BY <2>2, <2>3
<1>7. ASSUME NEW v, v = (<<a>> \o << >>) \o <<c>>
      PROVE  \A x : SubSeq(v, 1, 1) = <<x>> <=> x = a
  <2>1. v \in Seq({a, b, c}) /\ Len(v) = 2 /\ v[1] = a
    BY <1>2, <1>7
  <2>2. ASSUME NEW x PROVE SubSeq(v, 1, 1) = <<x>> <=> x = a
    BY <1>4, <2>1
  <2> QED BY <2>2
<1>8. ASSUME NEW v, v = <<a, c>>
      PROVE  \A x : SubSeq(v, 1, 1) = <<x>> <=> x = a
  BY <1>3, <1>4, <1>8
<1>9. Buffer3((<<a>> \o <<b>>) \o <<c>>, a, b, c)
  BY <1>1, <1>6 DEF Buffer3
<1>10. Buffer2((<<a>> \o << >>) \o <<c>>, a, c)
  BY <1>2, <1>7 DEF Buffer2
<1>11. Buffer2(<<a, c>>, a, c)
  BY <1>3, <1>8 DEF Buffer2
<1> QED BY <1>9, <1>10, <1>11

\* What tells the stages of the channel apart.
LEMMA StagesAre ==
    ASSUME NEW i \in 1 .. 8
    PROVE  LET ch == Calls[i].channel IN
           /\ ch = [type |-> ch.type, body |-> ch.body]
           /\ ch.body.key = "pk"
           /\ i = 1 => ch.type = "Offered" /\ ch.body.id = "temp"
           /\ i # 1 => ch.body.id = "id"
           /\ i = 2 => ch.type = "Accepted"
           /\ i = 3 => ch.type = "Signed" /\ ch.body.contract = "c1" /\ ch.body.state = "Established"
           /\ i = 4 => ch.type = "Signed" /\ ch.body.contract = "t2" /\ ch.body.state = "RenewOffered"
           /\ i = 5 => ch.type = "Signed" /\ ch.body.contract = "c2" /\ ch.body.state = "RenewAccepted"
           /\ i = 6 => ch.type = "Signed" /\ ch.body.contract = "c2" /\ ch.body.state = "RenewFinalized"
           /\ i = 7 => ch.type = "Signed" /\ ch.body.contract = "c2" /\ ch.body.state = "Established"
           /\ i = 8 => ch.type = "CollaborativelyClosed"
BY CallsAre DEF Chan

\* The stages of the channel differ.
LEMMA ChannelsDiffer ==
    ASSUME NEW i \in 1 .. 8, NEW j \in 1 .. 8, Calls[i].channel = Calls[j].channel
    PROVE  i = j
BY StagesAre

\* A channel is read as it was stored, and found by its prefix and, if it is signed, by its
\* state.
LEMMA ChannelBuffer ==
    ASSUME NEW i \in 1 .. 8
    PROVE  LET ch == Calls[i].channel v == ChannelOf(i) IN
           /\ deserialize_channel(v) = ch
           /\ \A x : SubSeq(v, 1, 1) = <<x>> <=> x = get_prefix(ChannelPrefix, ch.type)
           /\ ch.type = "Signed" =>
                /\ Len(v) = 3 /\ v[3] = ch.body
                /\ SubSeq(v, 1, 2) = <<get_prefix(ChannelPrefix, "Signed"), get_prefix(SignedChannelPrefix, ch.body.state)>>
<1>1. PICK ch : ch = Calls[i].channel
  OBVIOUS
<1>2. ch = [type |-> ch.type, body |-> ch.body] /\ ch.type \in {"Offered", "Accepted", "Signed", "CollaborativelyClosed"}
  <2>1. i \in {1, 2, 3, 4, 5, 6, 7, 8}
    OBVIOUS
  <2> QED BY <1>1, <2>1, StagesAre
<1>3. PICK a : a = get_prefix(ChannelPrefix, ch.type)
  OBVIOUS
<1>4. ChannelPrefix[a] = ch.type
  BY <1>2, <1>3, ChannelPrefixes
<1>5. PICK v : v = ChannelOf(i)
  OBVIOUS
<1>6. CASE ch.type = "Signed"
  <2>1. PICK b : b = get_prefix(SignedChannelPrefix, ch.body.state)
    OBVIOUS
  <2>2. v = (<<a>> \o <<b>>) \o <<ch.body>>
    BY <1>1, <1>3, <1>5, <1>6, <2>1 DEF ChannelOf, serialize_channel
  <2>3. /\ Len(v) = 3 /\ v[1] = a /\ v[2] = b /\ v[3] = ch.body
        /\ \A x : SubSeq(v, 1, 1) = <<x>> <=> x = a
        /\ SubSeq(v, 1, 2) = <<a, b>>
    <3>1. Buffer3((<<a>> \o <<b>>) \o <<ch.body>>, a, b, ch.body)
      BY Buffers, Zenon
    <3>2. Buffer3(v, a, b, ch.body)
      BY <2>2, <3>1, Zenon
    <3> QED BY <3>2 DEF Buffer3
  <2>4. deserialize_channel(v) = [type |-> ch.type, body |-> ch.body]
    BY <1>4, <1>6, <2>3 DEF deserialize_channel
  <2>5. deserialize_channel(v) = ch
    BY <1>2, <2>4
  <2> QED BY <1>1, <1>3, <1>5, <1>6, <2>1, <2>3, <2>5
<1>7. CASE ch.type # "Signed"
  <2>2. v = (<<a>> \o << >>) \o <<ch.body>>
    BY <1>1, <1>3, <1>5, <1>7 DEF ChannelOf, serialize_channel
  <2>3. /\ v[1] = a /\ v[2] = ch.body
        /\ \A x : SubSeq(v, 1, 1) = <<x>> <=> x = a
    <3>1. Buffer2((<<a>> \o << >>) \o <<ch.body>>, a, ch.body)
      BY Buffers, Zenon
    <3>2. Buffer2(v, a, ch.body)
      BY <2>2, <3>1, Zenon
    <3> QED BY <3>2 DEF Buffer2
  <2>4. deserialize_channel(v) = [type |-> ch.type, body |-> ch.body]
    BY <1>4, <1>7, <2>3 DEF deserialize_channel
  <2>5. deserialize_channel(v) = ch
    BY <1>2, <2>4
  <2> QED BY <1>1, <1>3, <1>5, <1>7, <2>3, <2>5
<1> QED BY <1>6, <1>7

\* A contract is read as it was stored, and found by its prefix.
LEMMA ContractBuffer ==
    ASSUME NEW c \in Contracts
    PROVE  LET v == serialize_contract(c) IN
           /\ deserialize_contract(v) = c /\ Len(v) = 2 /\ v[2] = c.body
           /\ \A x : SubSeq(v, 1, 1) = <<x>> <=> x = get_prefix(ContractPrefix, c.type)
<1>1. c = [type |-> c.type, body |-> c.body] /\ c.type \in {"Offered", "Accepted", "Signed", "Confirmed"}
  BY DEF Contracts, Con
<1>2. PICK a : a = get_prefix(ContractPrefix, c.type)
  OBVIOUS
<1>3. ContractPrefix[a] = c.type
  BY <1>1, <1>2, ContractPrefixes
<1>4. PICK v : v = serialize_contract(c)
  OBVIOUS
<1>5. v = <<a, c.body>>
  BY <1>2, <1>4 DEF serialize_contract
<1>6. /\ Len(v) = 2 /\ v[1] = a /\ v[2] = c.body
      /\ \A x : SubSeq(v, 1, 1) = <<x>> <=> x = a
  <2>1. Buffer2(<<a, c.body>>, a, c.body)
    BY Buffers, Zenon
  <2>2. Buffer2(v, a, c.body)
    BY <1>5, <2>1, Zenon
  <2> QED BY <2>2 DEF Buffer2
<1>7. deserialize_contract(v) = [type |-> c.type, body |-> c.body]
  BY <1>3, <1>6 DEF deserialize_contract
<1>8. deserialize_contract(v) = c
  BY <1>1, <1>7
<1> QED BY <1>2, <1>4, <1>6, <1>8

-----------------------------------------------------------------------------
\* A channel in the store is the offer, or the one channel at one of its later stages.
LEMMA FoundChannel ==
    ASSUME KeysOK, StoreOK(sled), NEW v \in ReadAll(CHANNEL)
    PROVE  \/ v = ChannelOf(1) /\ Look(sled, CHANNEL, "temp") = {v}
           \/ \E i \in 2 .. 8 : v = ChannelOf(i) /\ Look(sled, CHANNEL, "id") = {v}
<1>1. PICK l \in DOMAIN sled : l[1] = CHANNEL /\ v = sled[l]
  BY DEF ReadAll, Keys
<1>2. l = <<CHANNEL, l[2]>>
  BY <1>1 DEF KeysOK
<1>3. Allowed(CHANNEL, l[2], v)
  BY <1>1 DEF StoreOK
<1>4. \/ l[2] = "temp" /\ v = ChannelOf(1)
      \/ l[2] = "id" /\ \E i \in 2 .. 8 : v = ChannelOf(i)
  BY <1>3, Kinds DEF Allowed
<1>5. Look(sled, CHANNEL, l[2]) = {v}
  BY <1>1, <1>2 DEF Look
<1> QED BY <1>4, <1>5

\* A channel that is listed is the one stored under its id.
LEMMA ListedChannel ==
    ASSUME KeysOK, StoreOK(sled), NEW j \in 1 .. 8, Calls[j].channel \in get_channels
    PROVE  /\ j = 1 => Look(sled, CHANNEL, "temp") = {ChannelOf(1)}
           /\ j # 1 => Look(sled, CHANNEL, "id") = {ChannelOf(j)}
<1>1. PICK v \in ReadAll(CHANNEL) : Calls[j].channel = deserialize_channel(v)
  BY DEF get_channels
<1>2. \/ v = ChannelOf(1) /\ Look(sled, CHANNEL, "temp") = {v}
      \/ \E i \in 2 .. 8 : v = ChannelOf(i) /\ Look(sled, CHANNEL, "id") = {v}
  BY FoundChannel
<1>3. CASE v = ChannelOf(1) /\ Look(sled, CHANNEL, "temp") = {v}
  <2>1. j = 1
    BY <1>1, <1>3, ChannelBuffer, ChannelsDiffer
  <2> QED BY <1>3, <2>1
<1>4. CASE \E i \in 2 .. 8 : v = ChannelOf(i) /\ Look(sled, CHANNEL, "id") = {v}
  <2>1. PICK i \in 2 .. 8 : v = ChannelOf(i) /\ Look(sled, CHANNEL, "id") = {v}
    BY <1>4
  <2>2. j = i
    BY <1>1, <2>1, ChannelBuffer, ChannelsDiffer
  <2> QED BY <2>1, <2>2
<1> QED BY <1>2, <1>3, <1>4

\* What a fine store has when the channel is at stage j.
LEMMA AtStage ==
    ASSUME NEW s, Fine(s), NEW j \in 2 .. 8, Look(s, CHANNEL, "id") = {ChannelOf(j)}
    PROVE  /\ Look(s, CHANNEL, "temp") = {} /\ Look(s, KEY_PAIR, "pk") # {}
           /\ ContractsFor(j, Look(s, CONTRACT, "c1"), Look(s, CONTRACT, "t2"), Look(s, CONTRACT, "c2"))
<1>1. Look(s, CHANNEL, "id") # {}
  OBVIOUS
<1>2. PICK i \in 2 .. 8 :
        /\ Look(s, CHANNEL, "id") = {ChannelOf(i)}
        /\ ContractsFor(i, Look(s, CONTRACT, "c1"), Look(s, CONTRACT, "t2"), Look(s, CONTRACT, "c2"))
  BY <1>1 DEF Fine, Good
<1>3. ChannelOf(i) = ChannelOf(j)
  BY <1>2
<1>4. i = j
  BY <1>3, ChannelBuffer, ChannelsDiffer
<1> QED BY <1>1, <1>2, <1>4 DEF Fine, Good

\* The operations of StoreChannel(i), in order.
LEMMA StageOps ==
    ASSUME NEW i \in 1 .. 8, NEW c, NEW rest, NEW keys, NEW q,
           \/ Calls[i].contract = <<c>> /\ rest = ContractOps(c)
           \/ Calls[i].contract = << >> /\ rest = {},
           keys = IF i = 2 THEN {StoreKeyPair} ELSE {},
           q = (IF Calls[i].channel.type = "Accepted" THEN get_new_secret_key ELSE << >>)
                 \o upsert_channel(Calls[i].channel, Calls[i].contract)
    PROVE  /\ Sorted(q)
           /\ StageTodo(i, c, rest, keys, Elems(q))
<1>1. PICK u : u = upsert_channel(Calls[i].channel, Calls[i].contract)
  OBVIOUS
<1>2. Sorted(u) /\ Elems(u) = ChannelOps(i) \cup rest
  BY <1>1, UpsertedOps
<1>3. PICK k : k = (IF Calls[i].channel.type = "Accepted" THEN get_new_secret_key ELSE << >>)
  OBVIOUS
<1>4. Calls[i].channel.type = "Accepted" <=> i = 2
  <2>1. i \in {1, 2, 3, 4, 5, 6, 7, 8}
    OBVIOUS
  <2> QED BY <2>1, StagesAre
<1>5. get_new_secret_key = <<StoreKeyPair>>
  BY DEF get_new_secret_key, upsert_key_pair, StoreKeyPair
<1>6. Sorted(k) /\ Elems(k) = keys
  BY <1>3, <1>4, <1>5, SortedOne
<1>7. \A a \in keys : Rank(a) = 1
  BY Fields
<1>8. \A b \in ChannelOps(i) \cup rest : Rank(b) \in {2, 3, 4, 5}
  <2>1. rest \in {{}, ContractOps(c)}
    OBVIOUS
  <2>2. ASSUME NEW b \in ChannelOps(i) \cup rest PROVE Rank(b) \in {2, 3, 4, 5}
    <3>1. b \in {} \cup ChannelOps(i) \cup rest
      BY <2>2
    <3>2. b \in {StoreChan(i), DropOffer, StoreCon(c), DropCon(c)}
      BY <2>1, <3>1, UpsertIs
    <3>3. Rank(StoreChan(i)) = 3 /\ Rank(DropOffer) = 2 /\ Rank(StoreCon(c)) = 5 /\ Rank(DropCon(c)) = 4
      BY Fields
    <3> QED BY <3>2, <3>3
  <2> QED BY <2>2
<1>9. Sorted(q) /\ Elems(q) = keys \cup (ChannelOps(i) \cup rest)
  <2>1. q = k \o u
    BY <1>1, <1>3
  <2>2. \A a \in Elems(k), b \in Elems(u) : Rank(a) < Rank(b)
    BY <1>2, <1>6, <1>7, <1>8
  <2>3. Sorted(k \o u) /\ Elems(k \o u) = Elems(k) \cup Elems(u)
    BY <1>2, <1>6, <2>2, SortedConcat
  <2> QED BY <1>2, <1>6, <2>1, <2>3
<1>10. Elems(q) = keys \cup ChannelOps(i) \cup rest
  BY <1>9
<1>11. rest \in {{}, ContractOps(c)} /\ keys \in {{}, {StoreKeyPair}}
  OBVIOUS
<1> QED BY <1>9, <1>10, <1>11, UpsertIs DEF StageTodo

\* When the store is fine after a call that leaves the channel at stage i.
LEMMA FineAt ==
    ASSUME NEW s, NEW todo, NEW i \in 2 .. 8,
           LaterLook(s, todo, CHANNEL, "id") = {ChannelOf(i)},
           LaterLook(s, todo, CHANNEL, "temp") = {}, LaterLook(s, todo, KEY_PAIR, "pk") # {},
           ContractsFor(i, LaterLook(s, todo, CONTRACT, "c1"), LaterLook(s, todo, CONTRACT, "t2"),
                        LaterLook(s, todo, CONTRACT, "c2"))
    PROVE  FineLater(s, todo)
BY DEF FineLater, Good

\* A call that begins on a fine store and will leave a fine store preserves RunOK.
LEMMA BeginCall ==
    ASSUME RunOK, ops = << >>, sled' = sled, Sorted(ops'), Call(Elems(ops')), FineLater(sled, Elems(ops')),
           owned' => owned /\ \A o \in Elems(ops') : ~ (Rank(o) = 2 /\ o.key = "id")
    PROVE  RunOK'
<1>1. Elems(ops) = {}
  BY SortedOne
<1>2. ~ CutOf(Elems(ops))
  BY <1>1 DEF CutOf
<1>3. Fine(sled)
  BY <1>2 DEF RunOK
<1> QED BY <1>3 DEF RunOK

\* Between two calls the store is fine.
LEMMA FineNow ==
    ASSUME RunOK, ops = << >>
    PROVE  Fine(sled) /\ StoreOK(sled)
<1>1. Elems(ops) = {}
  BY SortedOne
<1>2. ~ CutOf(Elems(ops))
  BY <1>1 DEF CutOf
<1> QED BY <1>2 DEF RunOK

\* StoreChannel: the call leaves the channel at stage i with the contracts it needs.
LEMMA StoreChannelUsable ==
    ASSUME KeysOK, RunOK, NEW i \in 1 .. 8, StoreChannel(i)
    PROVE  RunOK'
<1>0. /\ ops = << >> /\ sled' = sled /\ owned' = owned
      /\ ops' = (IF Calls[i].channel.type = "Accepted" THEN get_new_secret_key ELSE << >>)
                 \o upsert_channel(Calls[i].channel, Calls[i].contract)
      /\ i # 1 => \E j \in Stages : Follows(j, i) /\ Calls[j].channel \in get_channels
      /\ i \in {1, 4} => Unused(Calls[i].contract[1], Calls[i + 1].contract[1])
  BY DEF StoreChannel, Ready, ghosts
<1>1. Fine(sled) /\ StoreOK(sled)
  BY <1>0, FineNow
<1>2. ASSUME i # 1
      PROVE  \E j \in 1 .. 7 :
               /\ i = j + 1 \/ (j = 3 /\ i = 8)
               /\ j = 1 => Look(sled, CHANNEL, "temp") = {ChannelOf(1)}
               /\ j # 1 => /\ Look(sled, CHANNEL, "temp") = {} /\ Look(sled, KEY_PAIR, "pk") # {}
                           /\ ContractsFor(j, Look(sled, CONTRACT, "c1"), Look(sled, CONTRACT, "t2"),
                                           Look(sled, CONTRACT, "c2"))
  <2>1. PICK j \in Stages : Follows(j, i) /\ Calls[j].channel \in get_channels
    BY <1>0, <1>2
  <2>2. j \in 1 .. 7 /\ (i = j + 1 \/ (j = 3 /\ i = 8))
    BY <2>1, CallsAre, StagesAssumption DEF Follows
  <2>3. /\ j = 1 => Look(sled, CHANNEL, "temp") = {ChannelOf(1)}
        /\ j # 1 => Look(sled, CHANNEL, "id") = {ChannelOf(j)}
    BY <1>1, <2>1, <2>2, ListedChannel
  <2> QED BY <1>1, <2>2, <2>3, AtStage
<1>3. PICK todo : todo = Elems(ops')
  OBVIOUS
<1>4. SUFFICES Sorted(ops') /\ Call(todo) /\ FineLater(sled, todo) /\ \A o \in todo : ~ (Rank(o) = 2 /\ o.key = "id")
  BY <1>0, <1>3, BeginCall
<1>5. PICK keys : keys = IF i = 2 THEN {StoreKeyPair} ELSE {}
  OBVIOUS
<1>6. ASSUME NEW c \in Contracts, NEW rest,
             \/ Calls[i].contract = <<c>> /\ rest = ContractOps(c)
             \/ Calls[i].contract = << >> /\ rest = {}
      PROVE  Sorted(ops') /\ StageLater(sled, i, c, rest, keys, todo)
  <2>1. Sorted(ops') /\ StageTodo(i, c, rest, keys, todo)
    BY <1>0, <1>3, <1>5, <1>6, StageOps
  <2> QED BY <2>1, LaterUpsert
<1>7. i \in {1, 2, 3, 4, 5, 6, 7, 8}
  OBVIOUS
<1>8. \A c : ContractOps(c) # {}
  BY DEF ContractOps
<1>9. CASE i = 1
  <2>1. PICK c \in Contracts : Calls[1].contract = <<c>>
    BY CallsAre DEF Contracts
  <2>2. Look(sled, CONTRACT, "c1") = {}
    <3>1. Calls[2].contract[1].body.id = "c1"
      BY CallsAre DEF Con
    <3>2. get_contract("c1") = {}
      BY <1>0, <1>9, <3>1 DEF Unused
    <3> QED BY <3>2 DEF get_contract, read, Look
  <2>3. Look(sled, CHANNEL, "id") = {}
    BY <1>1, <2>2 DEF Fine, Good, ContractsFor
  <2>4. Sorted(ops') /\ StageLater(sled, i, c, ContractOps(c), keys, todo)
    BY <1>6, <1>9, <2>1
  <2>5. LaterLook(sled, todo, CHANNEL, "id") = {}
    BY <1>9, <2>3, <2>4 DEF StageLater
  <2>6. FineLater(sled, todo)
    BY <2>5 DEF FineLater, Good
  <2> QED BY <2>4, <2>6 DEF StageLater
<1>10. CASE i = 2
  <2>1. PICK c : c = Con("Accepted", "c1", "t1")
    OBVIOUS
  <2>2. c \in Contracts /\ c.body.id = "c1" /\ c.body.temp = "t1" /\ Supersedes(c)
    BY <2>1 DEF Contracts, Con, Supersedes
  <2>3. Calls[2].contract = <<c>>
    BY <2>1, CallsAre
  <2>4. Sorted(ops') /\ StageLater(sled, i, c, ContractOps(c), keys, todo)
    BY <1>6, <1>10, <2>2, <2>3
  <2>5. /\ LaterLook(sled, todo, CONTRACT, "c1") = {serialize_contract(c)}
        /\ LaterLook(sled, todo, CONTRACT, "t2") = Look(sled, CONTRACT, "t2")
        /\ LaterLook(sled, todo, CONTRACT, "c2") = Look(sled, CONTRACT, "c2")
    BY <1>8, <2>2, <2>4 DEF StageLater
  <2>6. LaterLook(sled, todo, KEY_PAIR, "pk") # {} /\ LaterLook(sled, todo, CHANNEL, "temp") = {}
    BY <1>5, <1>10, <2>4 DEF StageLater
  <2>7. ContractsFor(i, LaterLook(sled, todo, CONTRACT, "c1"), LaterLook(sled, todo, CONTRACT, "t2"),
                     LaterLook(sled, todo, CONTRACT, "c2"))
    BY <1>10, <2>5 DEF ContractsFor
  <2>8. LaterLook(sled, todo, CHANNEL, "id") = {ChannelOf(i)}
    BY <1>10, <2>4 DEF StageLater
  <2>9. FineLater(sled, todo)
    BY <1>10, <2>6, <2>7, <2>8, FineAt
  <2> QED BY <2>4, <2>9 DEF StageLater
<1>11. CASE i = 3
  <2>1. PICK c : c = Con("Signed", "c1", "t1")
    OBVIOUS
  <2>2. c \in Contracts /\ c.body.id = "c1" /\ c.body.temp = "t1" /\ Supersedes(c)
    BY <2>1 DEF Contracts, Con, Supersedes
  <2>3. Calls[3].contract = <<c>>
    BY <2>1, CallsAre
  <2>4. Sorted(ops') /\ StageLater(sled, i, c, ContractOps(c), keys, todo)
    BY <1>6, <1>11, <2>2, <2>3
  <2>5. /\ LaterLook(sled, todo, CONTRACT, "c1") = {serialize_contract(c)}
        /\ LaterLook(sled, todo, CONTRACT, "t2") = Look(sled, CONTRACT, "t2")
        /\ LaterLook(sled, todo, CONTRACT, "c2") = Look(sled, CONTRACT, "c2")
    BY <1>8, <2>2, <2>4 DEF StageLater
  <2>0. PICK j \in 1 .. 7 :
               /\ j = 2
               /\ Look(sled, CHANNEL, "temp") = {} /\ Look(sled, KEY_PAIR, "pk") # {}
               /\ ContractsFor(j, Look(sled, CONTRACT, "c1"), Look(sled, CONTRACT, "t2"),
                               Look(sled, CONTRACT, "c2"))
    BY <1>2, <1>11
  <2>6. LaterLook(sled, todo, KEY_PAIR, "pk") # {} /\ LaterLook(sled, todo, CHANNEL, "temp") = {}
    BY <1>5, <1>11, <2>0, <2>4 DEF StageLater
  <2>7. ContractsFor(i, LaterLook(sled, todo, CONTRACT, "c1"), LaterLook(sled, todo, CONTRACT, "t2"),
                     LaterLook(sled, todo, CONTRACT, "c2"))
    BY <1>11, <2>0, <2>1, <2>5 DEF ContractsFor
  <2>8. LaterLook(sled, todo, CHANNEL, "id") = {ChannelOf(i)}
    BY <1>11, <2>4 DEF StageLater
  <2>9. FineLater(sled, todo)
    BY <1>11, <2>6, <2>7, <2>8, FineAt
  <2> QED BY <2>4, <2>9 DEF StageLater
<1>12. CASE i = 4
  <2>1. PICK c : c = Con("Offered", "t2", "t2")
    OBVIOUS
  <2>2. c \in Contracts /\ c.body.id = "t2" /\ c.body.temp = "t2" /\ ~ Supersedes(c)
    BY <2>1 DEF Contracts, Con, Supersedes
  <2>3. Calls[4].contract = <<c>>
    BY <2>1, CallsAre
  <2>4. Sorted(ops') /\ StageLater(sled, i, c, ContractOps(c), keys, todo)
    BY <1>6, <1>12, <2>2, <2>3
  <2>5. /\ LaterLook(sled, todo, CONTRACT, "c1") = Look(sled, CONTRACT, "c1")
        /\ LaterLook(sled, todo, CONTRACT, "t2") = {serialize_contract(c)}
        /\ LaterLook(sled, todo, CONTRACT, "c2") = Look(sled, CONTRACT, "c2")
    BY <1>8, <2>2, <2>4 DEF StageLater
  <2>0. PICK j \in 1 .. 7 :
               /\ j = 3
               /\ Look(sled, CHANNEL, "temp") = {} /\ Look(sled, KEY_PAIR, "pk") # {}
               /\ ContractsFor(j, Look(sled, CONTRACT, "c1"), Look(sled, CONTRACT, "t2"),
                               Look(sled, CONTRACT, "c2"))
    BY <1>2, <1>12
  <2>6. LaterLook(sled, todo, KEY_PAIR, "pk") # {} /\ LaterLook(sled, todo, CHANNEL, "temp") = {}
    BY <1>5, <1>12, <2>0, <2>4 DEF StageLater
  <2>7. ContractsFor(i, LaterLook(sled, todo, CONTRACT, "c1"), LaterLook(sled, todo, CONTRACT, "t2"),
                     LaterLook(sled, todo, CONTRACT, "c2"))
    BY <1>12, <2>0, <2>1, <2>5 DEF ContractsFor
  <2>8. LaterLook(sled, todo, CHANNEL, "id") = {ChannelOf(i)}
    BY <1>12, <2>4 DEF StageLater
  <2>9. FineLater(sled, todo)
    BY <1>12, <2>6, <2>7, <2>8, FineAt
  <2> QED BY <2>4, <2>9 DEF StageLater
<1>13. CASE i = 5
  <2>1. PICK c : c = Con("Accepted", "c2", "t2")
    OBVIOUS
  <2>2. c \in Contracts /\ c.body.id = "c2" /\ c.body.temp = "t2" /\ Supersedes(c)
    BY <2>1 DEF Contracts, Con, Supersedes
  <2>3. Calls[5].contract = <<c>>
    BY <2>1, CallsAre
  <2>4. Sorted(ops') /\ StageLater(sled, i, c, ContractOps(c), keys, todo)
    BY <1>6, <1>13, <2>2, <2>3
  <2>5. /\ LaterLook(sled, todo, CONTRACT, "c1") = Look(sled, CONTRACT, "c1")
        /\ LaterLook(sled, todo, CONTRACT, "t2") = {}
        /\ LaterLook(sled, todo, CONTRACT, "c2") = {serialize_contract(c)}
    BY <1>8, <2>2, <2>4 DEF StageLater
  <2>0. PICK j \in 1 .. 7 :
               /\ j = 4
               /\ Look(sled, CHANNEL, "temp") = {} /\ Look(sled, KEY_PAIR, "pk") # {}
               /\ ContractsFor(j, Look(sled, CONTRACT, "c1"), Look(sled, CONTRACT, "t2"),
                               Look(sled, CONTRACT, "c2"))
    BY <1>2, <1>13
  <2>6. LaterLook(sled, todo, KEY_PAIR, "pk") # {} /\ LaterLook(sled, todo, CHANNEL, "temp") = {}
    BY <1>5, <1>13, <2>0, <2>4 DEF StageLater
  <2>7. ContractsFor(i, LaterLook(sled, todo, CONTRACT, "c1"), LaterLook(sled, todo, CONTRACT, "t2"),
                     LaterLook(sled, todo, CONTRACT, "c2"))
    BY <1>13, <2>0, <2>1, <2>5 DEF ContractsFor
  <2>8. LaterLook(sled, todo, CHANNEL, "id") = {ChannelOf(i)}
    BY <1>13, <2>4 DEF StageLater
  <2>9. FineLater(sled, todo)
    BY <1>13, <2>6, <2>7, <2>8, FineAt
  <2> QED BY <2>4, <2>9 DEF StageLater
<1>14. CASE i = 6
  <2>1. PICK c : c = Con("Offered", "t1", "t1")
    OBVIOUS
  <2>2. c \in Contracts /\ c.body.id = "t1" /\ c.body.temp = "t1" /\ ~ Supersedes(c)
    BY <2>1 DEF Contracts, Con, Supersedes
  <2>3. Calls[6].contract = << >>
    BY <2>1, CallsAre
  <2>4. Sorted(ops') /\ StageLater(sled, i, c, {}, keys, todo)
    BY <1>6, <1>14, <2>2, <2>3
  <2>5. /\ LaterLook(sled, todo, CONTRACT, "c1") = Look(sled, CONTRACT, "c1")
        /\ LaterLook(sled, todo, CONTRACT, "t2") = Look(sled, CONTRACT, "t2")
        /\ LaterLook(sled, todo, CONTRACT, "c2") = Look(sled, CONTRACT, "c2")
    BY <2>2, <2>4 DEF StageLater
  <2>0. PICK j \in 1 .. 7 :
               /\ j = 5
               /\ Look(sled, CHANNEL, "temp") = {} /\ Look(sled, KEY_PAIR, "pk") # {}
               /\ ContractsFor(j, Look(sled, CONTRACT, "c1"), Look(sled, CONTRACT, "t2"),
                               Look(sled, CONTRACT, "c2"))
    BY <1>2, <1>14
  <2>6. LaterLook(sled, todo, KEY_PAIR, "pk") # {} /\ LaterLook(sled, todo, CHANNEL, "temp") = {}
    BY <1>5, <1>14, <2>0, <2>4 DEF StageLater
  <2>7. ContractsFor(i, LaterLook(sled, todo, CONTRACT, "c1"), LaterLook(sled, todo, CONTRACT, "t2"),
                     LaterLook(sled, todo, CONTRACT, "c2"))
    BY <1>14, <2>0, <2>1, <2>5 DEF ContractsFor
  <2>8. LaterLook(sled, todo, CHANNEL, "id") = {ChannelOf(i)}
    BY <1>14, <2>4 DEF StageLater
  <2>9. FineLater(sled, todo)
    BY <1>14, <2>6, <2>7, <2>8, FineAt
  <2> QED BY <2>4, <2>9 DEF StageLater
<1>15. CASE i = 7
  <2>1. PICK c : c = Con("Confirmed", "c2", "t2")
    OBVIOUS
  <2>2. c \in Contracts /\ c.body.id = "c2" /\ c.body.temp = "t2" /\ ~ Supersedes(c)
    BY <2>1 DEF Contracts, Con, Supersedes
  <2>3. Calls[7].contract = <<c>>
    BY <2>1, CallsAre
  <2>4. Sorted(ops') /\ StageLater(sled, i, c, ContractOps(c), keys, todo)
    BY <1>6, <1>15, <2>2, <2>3
  <2>5. /\ LaterLook(sled, todo, CONTRACT, "c1") = Look(sled, CONTRACT, "c1")
        /\ LaterLook(sled, todo, CONTRACT, "t2") = Look(sled, CONTRACT, "t2")
        /\ LaterLook(sled, todo, CONTRACT, "c2") = {serialize_contract(c)}
    BY <1>8, <2>2, <2>4 DEF StageLater
  <2>0. PICK j \in 1 .. 7 :
               /\ j = 6
               /\ Look(sled, CHANNEL, "temp") = {} /\ Look(sled, KEY_PAIR, "pk") # {}
               /\ ContractsFor(j, Look(sled, CONTRACT, "c1"), Look(sled, CONTRACT, "t2"),
                               Look(sled, CONTRACT, "c2"))
    BY <1>2, <1>15
  <2>6. LaterLook(sled, todo, KEY_PAIR, "pk") # {} /\ LaterLook(sled, todo, CHANNEL, "temp") = {}
    BY <1>5, <1>15, <2>0, <2>4 DEF StageLater
  <2>7. ContractsFor(i, LaterLook(sled, todo, CONTRACT, "c1"), LaterLook(sled, todo, CONTRACT, "t2"),
                     LaterLook(sled, todo, CONTRACT, "c2"))
    BY <1>15, <2>0, <2>1, <2>5 DEF ContractsFor
  <2>8. LaterLook(sled, todo, CHANNEL, "id") = {ChannelOf(i)}
    BY <1>15, <2>4 DEF StageLater
  <2>9. FineLater(sled, todo)
    BY <1>15, <2>6, <2>7, <2>8, FineAt
  <2> QED BY <2>4, <2>9 DEF StageLater
<1>16. CASE i = 8
  <2>1. PICK c : c = Con("Offered", "t1", "t1")
    OBVIOUS
  <2>2. c \in Contracts /\ c.body.id = "t1" /\ c.body.temp = "t1" /\ ~ Supersedes(c)
    BY <2>1 DEF Contracts, Con, Supersedes
  <2>3. Calls[8].contract = << >>
    BY <2>1, CallsAre
  <2>4. Sorted(ops') /\ StageLater(sled, i, c, {}, keys, todo)
    BY <1>6, <1>16, <2>2, <2>3
  <2>5. /\ LaterLook(sled, todo, CONTRACT, "c1") = Look(sled, CONTRACT, "c1")
        /\ LaterLook(sled, todo, CONTRACT, "t2") = Look(sled, CONTRACT, "t2")
        /\ LaterLook(sled, todo, CONTRACT, "c2") = Look(sled, CONTRACT, "c2")
    BY <2>2, <2>4 DEF StageLater
  <2>0. PICK j \in 1 .. 7 :
               /\ j \in {3, 7}
               /\ Look(sled, CHANNEL, "temp") = {} /\ Look(sled, KEY_PAIR, "pk") # {}
               /\ ContractsFor(j, Look(sled, CONTRACT, "c1"), Look(sled, CONTRACT, "t2"),
                               Look(sled, CONTRACT, "c2"))
    BY <1>2, <1>16
  <2>6. LaterLook(sled, todo, KEY_PAIR, "pk") # {} /\ LaterLook(sled, todo, CHANNEL, "temp") = {}
    BY <1>5, <1>16, <2>0, <2>4 DEF StageLater
  <2>7. ContractsFor(i, LaterLook(sled, todo, CONTRACT, "c1"), LaterLook(sled, todo, CONTRACT, "t2"),
                     LaterLook(sled, todo, CONTRACT, "c2"))
    BY <1>16, <2>0, <2>1, <2>5 DEF ContractsFor
  <2>8. LaterLook(sled, todo, CHANNEL, "id") = {ChannelOf(i)}
    BY <1>16, <2>4 DEF StageLater
  <2>9. FineLater(sled, todo)
    BY <1>16, <2>6, <2>7, <2>8, FineAt
  <2> QED BY <2>4, <2>9 DEF StageLater
<1> QED BY <1>7, <1>9, <1>10, <1>11, <1>12, <1>13, <1>14, <1>15, <1>16

\* The signed channel that is listed is the one stored under the id.
LEMMA SignedChannel ==
    ASSUME KeysOK, StoreOK(sled), get_signed_channels(None) # {}
    PROVE  \E i \in 3 .. 7 : Look(sled, CHANNEL, "id") = {ChannelOf(i)}
<1>1. PICK p : p = get_prefix(ChannelPrefix, "Signed")
  OBVIOUS
<1>2. get_signed_channels(None) = get_data_with_prefix(ReadAll(CHANNEL), <<p>>, 1)
  BY <1>1 DEF get_signed_channels
<1>3. PICK v \in ReadAll(CHANNEL) : SubSeq(v, 1, Len(<<p>>)) = <<p>>
  BY <1>2 DEF get_data_with_prefix
<1>4. SubSeq(v, 1, 1) = <<p>>
  <2>1. Len(<<p>>) = 1
    OBVIOUS
  <2> QED BY <1>3, <2>1
<1>5. PICK i \in 1 .. 8 : v = ChannelOf(i) /\ (i # 1 => Look(sled, CHANNEL, "id") = {v})
  BY FoundChannel
<1>6. p = get_prefix(ChannelPrefix, Calls[i].channel.type)
  BY <1>4, <1>5, ChannelBuffer
<1>7. Calls[i].channel.type = "Signed"
  <2>1. i \in {1, 2, 3, 4, 5, 6, 7, 8}
    OBVIOUS
  <2>2. Calls[i].channel.type \in {"Offered", "Accepted", "Signed", "CollaborativelyClosed"}
    BY <2>1, StagesAre
  <2> QED BY <1>1, <1>6, <2>2, ChannelPrefixes
<1>8. i \in 3 .. 7
  BY <1>7, StagesAre
<1> QED BY <1>5, <1>8

\* roll_back_channel: the first contract is still there.
LEMMA RollBackUsable ==
    ASSUME KeysOK, RunOK, roll_back_channel
    PROVE  RunOK'
<1>0. /\ ops = << >> /\ sled' = sled /\ owned' = owned
      /\ ops' = upsert_channel(Calls[3].channel, << >>) /\ get_signed_channels(None) # {}
  BY DEF roll_back_channel, Ready, ghosts
<1>1. Fine(sled) /\ StoreOK(sled)
  BY <1>0, FineNow
<1>2. PICK j \in 3 .. 7 : Look(sled, CHANNEL, "id") = {ChannelOf(j)}
  BY <1>0, <1>1, SignedChannel
<1>3. /\ Look(sled, CHANNEL, "temp") = {} /\ Look(sled, KEY_PAIR, "pk") # {}
      /\ ContractsFor(j, Look(sled, CONTRACT, "c1"), Look(sled, CONTRACT, "t2"), Look(sled, CONTRACT, "c2"))
  BY <1>1, <1>2, AtStage
<1>4. PICK todo : todo = Elems(ops')
  OBVIOUS
<1>5. PICK c : c = Con("Offered", "t1", "t1")
  OBVIOUS
<1>6. c \in Contracts
  BY <1>5 DEF Contracts
<1>7. Sorted(ops') /\ todo = ChannelOps(3)
  <2>1. PICK i \in 1 .. 8 : i = 3
    OBVIOUS
  <2>2. /\ Sorted(upsert_channel(Calls[i].channel, << >>))
        /\ Elems(upsert_channel(Calls[i].channel, << >>)) = ChannelOps(i)
    BY UpsertedOps
  <2> QED BY <1>0, <1>4, <2>1, <2>2
<1>8. StageTodo(3, c, {}, {}, todo)
  <2>1. PICK i \in 1 .. 8 : i = 3
    OBVIOUS
  <2>2. PICK none : none = {}
    OBVIOUS
  <2>3. todo = none \cup ChannelOps(i) \cup none
    BY <1>7, <2>1, <2>2
  <2>4. StageTodo(i, c, none, none, todo)
    BY <2>2, <2>3, UpsertIs DEF StageTodo
  <2> QED BY <2>1, <2>2, <2>4
<1>9. StageLater(sled, 3, c, {}, {}, todo)
  BY <1>6, <1>8, LaterUpsert
<1>10. /\ LaterLook(sled, todo, CHANNEL, "id") = {ChannelOf(3)} /\ LaterLook(sled, todo, CHANNEL, "temp") = {}
       /\ LaterLook(sled, todo, KEY_PAIR, "pk") # {}
       /\ \A id : LaterLook(sled, todo, CONTRACT, id) = Look(sled, CONTRACT, id)
  BY <1>3, <1>9 DEF StageLater
<1>11. ContractsFor(3, LaterLook(sled, todo, CONTRACT, "c1"), LaterLook(sled, todo, CONTRACT, "t2"),
                    LaterLook(sled, todo, CONTRACT, "c2"))
  BY <1>3, <1>10 DEF ContractsFor
<1>12. FineLater(sled, todo)
  BY <1>10, <1>11, FineAt
<1> QED BY <1>0, <1>4, <1>7, <1>9, <1>12, BeginCall DEF StageLater

\* Only the first contract is ever stored as signed.
LEMMA SignedContract ==
    ASSUME KeysOK, StoreOK(sled), NEW body \in get_signed_contracts
    PROVE  body = Con("Signed", "c1", "t1").body
<1>1. PICK p : p = get_prefix(ContractPrefix, "Signed")
  OBVIOUS
<1>2. get_signed_contracts = get_data_with_prefix(ReadAll(CONTRACT), <<p>>, 0)
  BY <1>1 DEF get_signed_contracts, get_raw_contracts
<1>3. Len(<<p>>) = 1
  OBVIOUS
<1>4. PICK v \in ReadAll(CONTRACT) : SubSeq(v, 1, 1) = <<p>> /\ body = v[1 + 0 + 1]
  BY <1>2, <1>3 DEF get_data_with_prefix
<1>5. PICK l \in DOMAIN sled : l[1] = CONTRACT /\ v = sled[l]
  BY DEF ReadAll, Keys
<1>6. Allowed(CONTRACT, l[2], v)
  BY <1>5 DEF StoreOK
<1>7. PICK c \in Contracts : v = serialize_contract(c)
  BY <1>6, Kinds DEF Allowed
<1>8. p = get_prefix(ContractPrefix, c.type) /\ v[2] = c.body
  BY <1>4, <1>7, ContractBuffer
<1>9. c.type = "Signed"
  BY <1>1, <1>8, ContractsAre, ContractPrefixes
<1>10. c = Con("Signed", "c1", "t1")
  BY <1>9, ContractsAre
<1> QED BY <1>4, <1>8, <1>10

\* periodic_check: the first contract becomes a confirmed one.
LEMMA PeriodicCheckUsable ==
    ASSUME KeysOK, RunOK, periodic_check
    PROVE  RunOK'
<1>0. /\ ops = << >> /\ sled' = sled /\ owned' = owned
      /\ \E body \in get_signed_contracts :
            ops' = update_contract([type |-> "Confirmed", body |-> body])
                      \o persist_chain_monitor(get_chain_monitor + 1)
  BY DEF periodic_check, Ready, ghosts
<1>1. Fine(sled) /\ StoreOK(sled)
  BY <1>0, FineNow
<1>2. PICK c : c = Con("Confirmed", "c1", "t1")
  OBVIOUS
<1>3. c \in Contracts /\ c.body.id = "c1" /\ ~ Supersedes(c)
  BY <1>2 DEF Contracts, Con, Supersedes
<1>4. PICK m : m = write(CHAIN_MONITOR, "chain_monitor", <<get_chain_monitor + 1>>)
  OBVIOUS
<1>5. m.kind = CHAIN_MONITOR /\ m.op = "write" /\ Rank(m) = 6
  BY <1>4, Ranks DEF write
<1>6. ops' = insert_contract(c) \o <<m>>
  <2>1. PICK body \in get_signed_contracts :
            ops' = update_contract([type |-> "Confirmed", body |-> body])
                      \o persist_chain_monitor(get_chain_monitor + 1)
    BY <1>0
  <2>2. [type |-> "Confirmed", body |-> body] = c
    BY <1>1, <1>2, SignedContract DEF Con
  <2> QED BY <1>4, <2>1, <2>2, InsertedOps DEF persist_chain_monitor
<1>7. PICK todo : todo = Elems(ops')
  OBVIOUS
<1>8. PICK w : w = StoreCon(c)
  OBVIOUS
<1>9. w.op = "write" /\ w.kind = CONTRACT /\ w.key = "c1" /\ w.value = serialize_contract(c) /\ Rank(w) = 5
  BY <1>3, <1>8, Fields
<1>10. Elems(insert_contract(c)) = {w} /\ Sorted(insert_contract(c))
  BY <1>3, <1>8, InsertedOps DEF ContractOps, StoreCon
<1>11. Sorted(ops') /\ todo = {w, m}
  <2>1. Sorted(<<m>>) /\ Elems(<<m>>) = {m}
    BY SortedOne
  <2>2. \A a \in Elems(insert_contract(c)), b \in Elems(<<m>>) : Rank(a) < Rank(b)
    BY <1>5, <1>9, <1>10, <2>1
  <2>3. Sorted(insert_contract(c) \o <<m>>) /\ Elems(insert_contract(c) \o <<m>>) = {w} \cup {m}
    BY <1>10, <2>1, <2>2, SortedConcat
  <2> QED BY <1>6, <1>7, <2>3
<1>12. \A o, p \in todo : o.kind = p.kind /\ o.key = p.key => o = p
  BY <1>5, <1>9, <1>11, Kinds
<1>13. Call(todo)
  <2>1. OpOK(w)
    BY <1>3, <1>9 DEF OpOK, Allowed
  <2>2. OpOK(m)
    BY <1>5 DEF OpOK, Allowed
  <2> QED BY <1>5, <1>9, <1>11, <1>12, <2>1, <2>2 DEF Call
<1>14. /\ LaterLook(sled, todo, CONTRACT, "c1") = {serialize_contract(c)}
       /\ LaterLook(sled, todo, CONTRACT, "t2") = Look(sled, CONTRACT, "t2")
       /\ LaterLook(sled, todo, CONTRACT, "c2") = Look(sled, CONTRACT, "c2")
       /\ LaterLook(sled, todo, CHANNEL, "id") = Look(sled, CHANNEL, "id")
       /\ LaterLook(sled, todo, CHANNEL, "temp") = Look(sled, CHANNEL, "temp")
       /\ LaterLook(sled, todo, KEY_PAIR, "pk") = Look(sled, KEY_PAIR, "pk")
  <2>1. LaterLook(sled, todo, CONTRACT, "c1") = {serialize_contract(c)}
    BY <1>9, <1>11, <1>12, LaterIs
  <2>2. ASSUME NEW kind, NEW key, kind \in {CONTRACT, CHANNEL, KEY_PAIR}, ~ (kind = CONTRACT /\ key = "c1")
        PROVE  LaterLook(sled, todo, kind, key) = Look(sled, kind, key)
    <3>1. \A o \in todo : ~ (o.kind = kind /\ o.key = key)
      BY <1>5, <1>9, <1>11, <2>2, Kinds
    <3> QED BY <1>12, <3>1, LaterIs
  <2> QED BY <2>1, <2>2, Kinds
<1>15. \A i : ContractsFor(i, Look(sled, CONTRACT, "c1"), Look(sled, CONTRACT, "t2"), Look(sled, CONTRACT, "c2"))
               => ContractsFor(i, {serialize_contract(c)}, Look(sled, CONTRACT, "t2"), Look(sled, CONTRACT, "c2"))
  BY <1>2 DEF ContractsFor
<1>16. FineLater(sled, todo)
  BY <1>1, <1>14, <1>15 DEF FineLater, Fine, Good
<1>17. \A o \in todo : ~ (Rank(o) = 2 /\ o.key = "id")
  BY <1>5, <1>9, <1>11
<1> QED BY <1>0, <1>7, <1>11, <1>13, <1>16, <1>17, BeginCall

\* delete_dlc_channel: the channel is gone.
LEMMA DeleteUsable ==
    ASSUME KeysOK, RunOK, delete_dlc_channel
    PROVE  RunOK'
<1>0. /\ ops = << >> /\ sled' = sled /\ owned' = FALSE
      /\ \E channel \in get_channels :
          /\ channel.type = "CollaborativelyClosed"
          /\ ops' = delete_channel(channel.body.id)
  BY DEF delete_dlc_channel, Ready
<1>1. Fine(sled) /\ StoreOK(sled)
  BY <1>0, FineNow
<1>2. PICK channel \in get_channels : channel.type = "CollaborativelyClosed" /\ ops' = delete_channel(channel.body.id)
  BY <1>0
<1>3. PICK v \in ReadAll(CHANNEL) : channel = deserialize_channel(v)
  BY DEF get_channels
<1>4. PICK i \in 1 .. 8 : v = ChannelOf(i)
  BY <1>1, FoundChannel
<1>5. channel = Calls[i].channel
  BY <1>3, <1>4, ChannelBuffer
<1>6. channel.body.id = "id"
  BY <1>2, <1>5, StagesAre
<1>7. PICK d : d = delete(CHANNEL, "id")
  OBVIOUS
<1>8. d.op = "delete" /\ d.kind = CHANNEL /\ d.key = "id" /\ Rank(d) = 2
  BY <1>7, Ranks DEF delete
<1>9. ops' = <<d>>
  BY <1>2, <1>6, <1>7 DEF delete_channel
<1>10. PICK todo : todo = Elems(ops')
  OBVIOUS
<1>11. Sorted(ops') /\ todo = {d}
  BY <1>9, <1>10, SortedOne
<1>12. Call(todo)
  <2>1. OpOK(d)
    BY <1>8 DEF OpOK
  <2> QED BY <1>8, <1>11, <2>1 DEF Call
<1>13. LaterLook(sled, todo, CHANNEL, "id") = {}
  BY <1>8, <1>11, LaterIs
<1>14. FineLater(sled, todo)
  BY <1>13 DEF FineLater, Good
<1> QED BY <1>0, <1>10, <1>11, <1>12, <1>14, BeginCall

-----------------------------------------------------------------------------
\* The store after operation o.
After(s, o) ==
    IF o.op = "write" THEN Put(s, <<o.kind, o.key>>, o.value) ELSE Drop(s, <<o.kind, o.key>>)

\* What the store has under a key after operation o.
LEMMA LookAfterOp ==
    ASSUME NEW s, NEW o, NEW kind, NEW key
    PROVE  Look(After(s, o), kind, key) =
             IF kind = o.kind /\ key = o.key THEN (IF o.op = "write" THEN {o.value} ELSE {}) ELSE Look(s, kind, key)
<1>1. PICK k2, l2, value : k2 = o.kind /\ l2 = o.key /\ value = o.value
  OBVIOUS
<1>2. After(s, o) = IF o.op = "write" THEN Put(s, <<k2, l2>>, value) ELSE Drop(s, <<k2, l2>>)
  BY <1>1 DEF After
<1>3. /\ Look(Put(s, <<k2, l2>>, value), kind, key) = IF kind = k2 /\ key = l2 THEN {value} ELSE Look(s, kind, key)
      /\ Look(Drop(s, <<k2, l2>>), kind, key) = IF kind = k2 /\ key = l2 THEN {} ELSE Look(s, kind, key)
  <2>1. CASE kind = k2 /\ key = l2
    <3>1. Look(Put(s, <<k2, l2>>, value), k2, l2) = {value}
      BY DEF Look, Put
    <3>2. Look(Drop(s, <<k2, l2>>), k2, l2) = {}
      BY DEF Look, Drop
    <3> QED BY <2>1, <3>1, <3>2
  <2>2. CASE ~ (kind = k2 /\ key = l2)
    <3>1. <<kind, key>> # <<k2, l2>>
      BY <2>2
    <3>2. Look(Put(s, <<k2, l2>>, value), kind, key) = Look(s, kind, key)
      BY <3>1 DEF Look, Put
    <3>3. Look(Drop(s, <<k2, l2>>), kind, key) = Look(s, kind, key)
      BY <3>1 DEF Look, Drop
    <3> QED BY <2>2, <3>2, <3>3
  <2> QED BY <2>1, <2>2
<1>5. CASE o.op = "write"
  BY <1>1, <1>2, <1>3, <1>5
<1>6. CASE o.op # "write"
  BY <1>1, <1>2, <1>3, <1>6
<1> QED BY <1>5, <1>6

\* An operation that is carried out does not change what the store will have.
LEMMA LaterKept ==
    ASSUME NEW s, NEW o, NEW todo, NEW todo2, todo = {o} \cup todo2,
           \A p, q \in todo : p.kind = q.kind /\ p.key = q.key => p = q,
           o \notin todo2, NEW kind, NEW key
    PROVE  LaterLook(After(s, o), todo2, kind, key) = LaterLook(s, todo, kind, key)
<1>1. \A p, q \in todo2 : p.kind = q.kind /\ p.key = q.key => p = q
  OBVIOUS
<1>2. \A p \in todo2 : ~ (p.kind = o.kind /\ p.key = o.key)
  OBVIOUS
<1>3. Look(After(s, o), kind, key) =
        IF kind = o.kind /\ key = o.key THEN (IF o.op = "write" THEN {o.value} ELSE {}) ELSE Look(s, kind, key)
  BY LookAfterOp
<1>4. CASE kind = o.kind /\ key = o.key
  <2>1. LaterLook(After(s, o), todo2, kind, key) = Look(After(s, o), kind, key)
    BY <1>1, <1>2, <1>4, LaterIs
  <2>2. LaterLook(s, todo, kind, key) = IF o.op = "write" THEN {o.value} ELSE {}
    BY <1>4, LaterIs
  <2> QED BY <1>3, <1>4, <2>1, <2>2
<1>5. CASE ~ (kind = o.kind /\ key = o.key)
  <2>1. CASE \E p \in todo2 : p.kind = kind /\ p.key = key
    <3>1. PICK p \in todo2 : p.kind = kind /\ p.key = key
      BY <2>1
    <3>2. LaterLook(After(s, o), todo2, kind, key) = IF p.op = "write" THEN {p.value} ELSE {}
      BY <1>1, <3>1, LaterIs
    <3>3. LaterLook(s, todo, kind, key) = IF p.op = "write" THEN {p.value} ELSE {}
      BY <3>1, LaterIs
    <3> QED BY <3>2, <3>3
  <2>2. CASE \A p \in todo2 : ~ (p.kind = kind /\ p.key = key)
    <3>1. LaterLook(After(s, o), todo2, kind, key) = Look(After(s, o), kind, key)
      BY <1>1, <2>2, LaterIs
    <3>2. LaterLook(s, todo, kind, key) = Look(s, kind, key)
      BY <1>5, <2>2, LaterIs
    <3> QED BY <1>3, <1>5, <3>1, <3>2
  <2> QED BY <2>1, <2>2
<1> QED BY <1>4, <1>5

\* A call is complete, but for the chain monitor.
LEMMA FineSoon ==
    ASSUME NEW s, NEW todo, FineLater(s, todo),
           \A p, q \in todo : p.kind = q.kind /\ p.key = q.key => p = q, \A p \in todo : Rank(p) = 6
    PROVE  Fine(s)
<1>1. \A p \in todo : p.kind \notin {CHANNEL, CONTRACT, KEY_PAIR}
  BY Kinds DEF Rank
<1>2. ASSUME NEW kind \in {CHANNEL, CONTRACT, KEY_PAIR}, NEW key
      PROVE  LaterLook(s, todo, kind, key) = Look(s, kind, key)
  BY <1>1, LaterIs
<1> QED BY <1>2 DEF FineLater, Fine

\* What the rank of an operation tells.
LEMMA RankIs ==
    ASSUME NEW o, OpOK(o)
    PROVE  /\ Rank(o) \in 1 .. 6
           /\ Rank(o) = 1 <=> o.kind = KEY_PAIR
           /\ Rank(o) = 2 <=> o.kind = CHANNEL /\ o.op = "delete"
           /\ Rank(o) = 3 <=> o.kind = CHANNEL /\ o.op = "write"
           /\ Rank(o) = 5 <=> o.kind = CONTRACT /\ o.op = "write"
           /\ o.op \in {"write", "delete"} /\ (o.op = "delete" => o.kind \in {CHANNEL, CONTRACT})
           /\ Rank(o) = 2 => o.key \in {"temp", "id"}
           /\ o.op = "write" => Allowed(o.kind, o.key, o.value)
BY Kinds DEF Rank, OpOK

\* StoreStep: the rest of the call completes what this operation leaves to do, and only
\* between the channel and its contract the store is not fine.
LEMMA StoreStepUsable ==
    ASSUME KeysOK, RunOK, StoreStep
    PROVE  RunOK'
<1>1. PICK o : o = Head(ops)
  OBVIOUS
<1>2. PICK todo : todo = Elems(ops)
  OBVIOUS
<1>3. PICK todo2 : todo2 = Elems(Tail(ops))
  OBVIOUS
<1>4. Sorted(Tail(ops)) /\ todo = {o} \cup todo2 /\ \A p \in todo2 : Rank(o) < Rank(p)
  BY <1>1, <1>2, <1>3, SortedTail DEF RunOK, StoreStep
<1>5. Call(todo) /\ FineLater(sled, todo) /\ (~ CutOf(todo) => Fine(sled)) /\ StoreOK(sled)
  BY <1>2 DEF RunOK
<1>6. OpOK(o) /\ \A p \in todo2 : OpOK(p)
  BY <1>4, <1>5 DEF Call
<1>7. \A p \in todo : Rank(p) \in 1 .. 6
  BY <1>4, <1>6, RankIs
<1>8. o \notin todo2
  BY <1>4, <1>7
<1>9. sled' = After(sled, o) /\ ops' = Tail(ops)
  BY <1>1 DEF StoreStep, StorageWrite, StorageDelete, After
<1>10. Call(todo2)
  BY <1>4, <1>5, <1>7 DEF Call
<1>11. \A p, q \in todo : p.kind = q.kind /\ p.key = q.key => p = q
  BY <1>5 DEF Call
<1>12. FineLater(sled', todo2)
  <2>1. \A kind, key : LaterLook(sled', todo2, kind, key) = LaterLook(sled, todo, kind, key)
    BY <1>4, <1>8, <1>9, <1>11, LaterKept
  <2> QED BY <1>5, <2>1 DEF FineLater
<1>13. StoreOK(sled')
  <2>1. ASSUME NEW l \in DOMAIN sled' PROVE Allowed(l[1], l[2], sled'[l])
    <3>1. CASE l = <<o.kind, o.key>>
      <4>1. o.op = "write" /\ sled'[l] = o.value
        BY <1>6, <1>9, <2>1, <3>1, RankIs DEF After, Put, Drop
      <4>2. l[1] = o.kind /\ l[2] = o.key
        BY <3>1
      <4> QED BY <1>6, <4>1, <4>2, RankIs
    <3>2. CASE l # <<o.kind, o.key>>
      <4>1. l \in DOMAIN sled /\ sled'[l] = sled[l]
        BY <1>9, <2>1, <3>2 DEF After, Put, Drop
      <4> QED BY <1>5, <4>1 DEF StoreOK
    <3> QED BY <3>1, <3>2
  <2> QED BY <2>1 DEF StoreOK
<1>14. \A kind, key : Look(sled', kind, key) =
          IF kind = o.kind /\ key = o.key THEN (IF o.op = "write" THEN {o.value} ELSE {}) ELSE Look(sled, kind, key)
  BY <1>9, LookAfterOp
<1>15. ASSUME ~ CutOf(todo2) PROVE Fine(sled')
  <2>0. (\A p \in todo2 : Rank(p) = 6) => Fine(sled')
    BY <1>4, <1>11, <1>12, FineSoon
  <2>1. CASE Rank(o) = 1
    <3>1. Fine(sled)
      BY <1>4, <1>5, <1>15, <2>1 DEF CutOf
    <3>2. o.kind = KEY_PAIR /\ o.op = "write"
      BY <1>6, <2>1, RankIs, Kinds
    <3>3. /\ \A key : Look(sled', CHANNEL, key) = Look(sled, CHANNEL, key)
          /\ \A key : Look(sled', CONTRACT, key) = Look(sled, CONTRACT, key)
      BY <1>14, <3>2, Kinds
    <3>4. Look(sled, KEY_PAIR, "pk") # {} => Look(sled', KEY_PAIR, "pk") # {}
      BY <1>14, <3>2
    <3> QED BY <3>1, <3>3, <3>4 DEF Fine, Good
  <2>2. CASE Rank(o) = 2 /\ o.key = "temp"
    <3>1. Fine(sled)
      BY <1>4, <1>5, <1>15, <2>2 DEF CutOf
    <3>2. o.kind = CHANNEL /\ o.op = "delete"
      BY <1>6, <2>2, RankIs
    <3>3. /\ Look(sled', CHANNEL, "id") = Look(sled, CHANNEL, "id") /\ Look(sled', CHANNEL, "temp") = {}
          /\ \A key : Look(sled', CONTRACT, key) = Look(sled, CONTRACT, key)
          /\ Look(sled', KEY_PAIR, "pk") = Look(sled, KEY_PAIR, "pk")
      BY <1>14, <2>2, <3>2, Kinds
    <3> QED BY <3>1, <3>3 DEF Fine, Good
  <2>3. CASE Rank(o) = 2 /\ o.key = "id"
    <3>1. todo2 = {}
      BY <1>4, <1>5, <1>8, <2>3 DEF Call
    <3> QED BY <2>0, <3>1
  <2>4. CASE Rank(o) = 3
    <3>1. \A p \in todo2 : Rank(p) \in {4, 5}
      BY <1>4, <1>5, <1>7, <2>4 DEF Call
    <3>2. \A p \in todo2 : Rank(p) # 5
      BY <1>15, <3>1 DEF CutOf
    <3>3. todo2 = {}
      BY <1>10, <3>1, <3>2 DEF Call
    <3> QED BY <2>0, <3>3
  <2>5. CASE Rank(o) = 4
    <3>1. \E p \in todo2 : Rank(p) = 5
      BY <1>4, <1>5, <2>5 DEF Call
    <3>2. \A p \in todo2 : Rank(p) # 3
      BY <1>4, <1>7, <2>5
    <3> QED BY <1>15, <3>1, <3>2 DEF CutOf
  <2>6. CASE Rank(o) \in {5, 6}
    <3>1. \A p \in todo2 : Rank(p) = 6
      BY <1>4, <1>7, <2>6
    <3> QED BY <2>0, <3>1
  <2> QED BY <1>4, <1>6, <1>7, <2>1, <2>2, <2>3, <2>4, <2>5, <2>6, RankIs
<1>16. owned' => <<CHANNEL, "id">> \in DOMAIN sled' /\ \A p \in todo2 : ~ (Rank(p) = 2 /\ p.key = "id")
  <2>1. owned' = (owned \/ (o.op = "write" /\ o.kind = CHANNEL /\ o.key = "id"))
    BY <1>1 DEF StoreStep
  <2>2. ASSUME owned PROVE <<CHANNEL, "id">> \in DOMAIN sled' /\ \A p \in todo2 : ~ (Rank(p) = 2 /\ p.key = "id")
    <3>1. <<CHANNEL, "id">> \in DOMAIN sled /\ \A p \in todo : ~ (Rank(p) = 2 /\ p.key = "id")
      BY <1>2, <2>2 DEF RunOK
    <3>2. ~ (o.op # "write" /\ o.kind = CHANNEL /\ o.key = "id")
      BY <1>4, <1>6, <3>1, RankIs
    <3>3. <<CHANNEL, "id">> \in DOMAIN sled'
      BY <1>9, <3>1, <3>2 DEF After, Put, Drop
    <3> QED BY <1>4, <3>1, <3>3
  <2>3. ASSUME o.op = "write", o.kind = CHANNEL, o.key = "id"
        PROVE  <<CHANNEL, "id">> \in DOMAIN sled' /\ \A p \in todo2 : ~ (Rank(p) = 2 /\ p.key = "id")
    <3>1. Rank(o) = 3
      BY <1>6, <2>3, RankIs
    <3>2. \A p \in todo2 : Rank(p) # 2
      BY <1>4, <1>7, <3>1
    <3>3. <<CHANNEL, "id">> \in DOMAIN sled'
      BY <1>9, <2>3 DEF After, Put
    <3> QED BY <3>2, <3>3
  <2> QED BY <2>1, <2>2, <2>3
<1> QED BY <1>3, <1>4, <1>9, <1>10, <1>12, <1>13, <1>15, <1>16 DEF RunOK

-----------------------------------------------------------------------------
\* An app that is not killed between the channel and its contract leaves a fine store.
LEMMA NotCut ==
    ASSUME RunOK, ~ Cut
    PROVE  Fine(sled)
<1>1. \A o \in Elems(ops) : OpOK(o)
  BY DEF RunOK, Call
<1>2. ASSUME CutOf(Elems(ops)) PROVE Cut
  <2>1. PICK writes : writes = {ops[i].kind : i \in {j \in DOMAIN ops : ops[j].op = "write"}}
    OBVIOUS
  <2>2. PICK i \in DOMAIN ops : Rank(ops[i]) = 5
    BY <1>2 DEF CutOf, Elems
  <2>3. ops[i].kind = CONTRACT /\ ops[i].op = "write"
    <3>1. OpOK(ops[i])
      BY <1>1 DEF Elems
    <3> QED BY <2>2, <3>1, RankIs
  <2>4. CONTRACT \in writes
    BY <2>1, <2>3
  <2>5. ASSUME CHANNEL \in writes PROVE FALSE
    <3>1. PICK j \in DOMAIN ops : ops[j].op = "write" /\ ops[j].kind = CHANNEL
      BY <2>1, <2>5
    <3>2. ops[j] \in Elems(ops)
      BY DEF Elems
    <3>3. Rank(ops[j]) = 3
      BY <1>1, <3>1, <3>2, RankIs
    <3> QED BY <1>2, <3>2, <3>3 DEF CutOf
  <2> QED BY <2>1, <2>4, <2>5 DEF Cut
<1> QED BY <1>2 DEF RunOK

\* A fine store stays so if there is nothing to do.
LEMMA NothingLater ==
    ASSUME NEW s, Fine(s)
    PROVE  FineLater(s, {}) /\ Call({}) /\ ~ CutOf({})
<1>1. \A kind, key : LaterLook(s, {}, kind, key) = Look(s, kind, key)
  BY LaterIs
<1>2. FineLater(s, {})
  BY <1>1 DEF FineLater, Fine
<1> QED BY <1>2 DEF Call, CutOf

\* Crash: the rest of the call is lost.
LEMMA CrashUsable ==
    ASSUME RunOK, Crash, ~ Cut
    PROVE  RunOK'
<1>1. ops' = << >> /\ sled' = sled /\ owned' = owned
  BY DEF Crash, Killed
<1>2. Sorted(ops') /\ Elems(ops') = {}
  BY <1>1, SortedOne
<1>3. Fine(sled)
  BY NotCut
<1>4. FineLater(sled, {}) /\ Call({}) /\ ~ CutOf({})
  BY <1>3, NothingLater
<1> QED BY <1>1, <1>2, <1>3, <1>4 DEF RunOK

\* LoseDevice: what the device had was fine.
LEMMA LoseDeviceUsable ==
    ASSUME KeysOK, RunOK, LoseDevice, ~ Cut
    PROVE  LostOK'
<1>1. expected' = LocalOf(sled, db)
  BY LocalIs DEF LoseDevice
<1>2. Fine(sled) /\ StoreOK(sled)
  BY NotCut DEF RunOK
<1> QED BY <1>1, <1>2 DEF LostOK, KeysOK

\* Start: a store restored from a settled backup has what the lost device had.
LEMMA StartUsable ==
    ASSUME KeysOK, RestoredOK, LostOK, Start, unsure = {}
    PROVE  Fine(sled') /\ StoreOK(sled') /\ (owned' => <<CHANNEL, "id">> \in DOMAIN sled')
<1>1. sled' = sled /\ owned' = (get_channel("id") # {}) /\ app = "Restored"
  BY DEF Start
<1>2. PICK s, d : /\ \A l \in DOMAIN s : l = <<l[1], l[2]>>
                  /\ StoreOK(s) /\ Fine(s) /\ expected = LocalOf(s, d)
  BY DEF LostOK
<1>3. \A k : Agree(LocalOf(sled, db), LocalOf(s, d), k)
  BY <1>1, <1>2, LocalIs DEF RestoredOK
<1>4. ASSUME NEW kind, NEW key
      PROVE  /\ <<kind, key>> \in DOMAIN sled <=> <<kind, key>> \in DOMAIN s
             /\ <<kind, key>> \in DOMAIN sled => sled[<<kind, key>>] = s[<<kind, key>>]
  <2>1. /\ BackupKey(kind, key) \in DOMAIN LocalOf(sled, db) <=> <<kind, key>> \in DOMAIN sled
        /\ <<kind, key>> \in DOMAIN sled => LocalOf(sled, db)[BackupKey(kind, key)] = sled[<<kind, key>>]
    BY Held DEF KeysOK
  <2>2. /\ BackupKey(kind, key) \in DOMAIN LocalOf(s, d) <=> <<kind, key>> \in DOMAIN s
        /\ <<kind, key>> \in DOMAIN s => LocalOf(s, d)[BackupKey(kind, key)] = s[<<kind, key>>]
    BY <1>2, Held
  <2>3. Agree(LocalOf(sled, db), LocalOf(s, d), BackupKey(kind, key))
    BY <1>3
  <2> QED BY <2>1, <2>2, <2>3 DEF Agree
<1>5. \A kind, key : Look(sled, kind, key) = Look(s, kind, key)
  BY <1>4 DEF Look
<1>6. Fine(sled)
  BY <1>2, <1>5 DEF Fine
<1>7. StoreOK(sled)
  <2>1. ASSUME NEW l \in DOMAIN sled PROVE Allowed(l[1], l[2], sled[l])
    <3>1. l = <<l[1], l[2]>>
      BY DEF KeysOK
    <3>2. l \in DOMAIN s /\ sled[l] = s[l]
      BY <1>4, <3>1
    <3> QED BY <1>2, <3>2 DEF StoreOK
  <2> QED BY <2>1 DEF StoreOK
<1>8. get_channel("id") # {} => <<CHANNEL, "id">> \in DOMAIN sled
  BY DEF get_channel, read
<1> QED BY <1>1, <1>6, <1>7, <1>8

\* The invariant holds initially, with the channel of an earlier version of the app too.
LEMMA InitUsable ==
    ASSUME Init
    PROVE  UsableInv
<1>1. app = "Running" /\ ops = << >> /\ owned = (sled # << >>)
  BY DEF Init
<1>2. Sorted(ops) /\ Elems(ops) = {}
  BY <1>1, SortedOne
<1>3. ASSUME Fine(sled), StoreOK(sled), owned => <<CHANNEL, "id">> \in DOMAIN sled
      PROVE  UsableInv
  <2>1. FineLater(sled, {}) /\ Call({}) /\ ~ CutOf({})
    BY <1>3, NothingLater
  <2>2. RunOK
    BY <1>2, <1>3, <2>1 DEF RunOK
  <2> QED BY <1>1, <2>2 DEF UsableInv
<1>4. CASE sled = << >>
  <2>1. DOMAIN sled = {}
    BY <1>4
  <2>2. \A kind, key : Look(sled, kind, key) = {}
    BY <2>1 DEF Look
  <2>3. Fine(sled) /\ StoreOK(sled)
    BY <2>1, <2>2 DEF Fine, StoreOK, Good
  <2> QED BY <1>1, <1>3, <1>4, <2>3
<1>5. CASE sled = [k \in {<<CHANNEL, "id">>, <<CONTRACT, "c1">>, <<KEY_PAIR, "pk">>} |->
                        CASE k[1] = CHANNEL -> serialize_channel(Calls[3].channel)
                          [] k[1] = CONTRACT -> serialize_contract(Calls[3].contract[1])
                          [] OTHER -> SecretKey]
  <2>1. PICK c : c = Con("Signed", "c1", "t1")
    OBVIOUS
  <2>2. c \in Contracts /\ c.body.id = "c1" /\ Calls[3].contract[1] = c
    BY <2>1, CallsAre DEF Contracts, Con
  <2>4. DOMAIN sled = {<<CHANNEL, "id">>, <<CONTRACT, "c1">>, <<KEY_PAIR, "pk">>}
    BY <1>5
  <2>5. /\ sled[<<CHANNEL, "id">>] = ChannelOf(3)
        /\ sled[<<CONTRACT, "c1">>] = serialize_contract(c)
    BY <1>5, <2>2, Kinds DEF ChannelOf
  <2>6. StoreOK(sled)
    <3>1. Allowed(CHANNEL, "id", ChannelOf(3))
      BY DEF Allowed
    <3>2. Allowed(CONTRACT, "c1", serialize_contract(c))
      BY <2>2 DEF Allowed
    <3>3. \A value : Allowed(KEY_PAIR, "pk", value)
      BY DEF Allowed
    <3> QED BY <2>4, <2>5, <3>1, <3>2, <3>3 DEF StoreOK
  <2>7. /\ Look(sled, CHANNEL, "id") = {ChannelOf(3)}
        /\ Look(sled, CHANNEL, "temp") = {}
        /\ Look(sled, CONTRACT, "c1") = {serialize_contract(c)}
        /\ Look(sled, KEY_PAIR, "pk") # {}
    BY <2>4, <2>5, Kinds DEF Look
  <2>8. PICK i \in 2 .. 8 : i = 3
    OBVIOUS
  <2>9. ContractsFor(i, Look(sled, CONTRACT, "c1"), Look(sled, CONTRACT, "t2"), Look(sled, CONTRACT, "c2"))
    BY <2>1, <2>7, <2>8 DEF ContractsFor
  <2>10. Fine(sled)
    BY <2>7, <2>8, <2>9 DEF Fine, Good
  <2> QED BY <1>3, <2>4, <2>6, <2>10
<1> QED BY <1>4, <1>5 DEF Init

\* Every step preserves the invariant.
LEMMA NextUsable ==
    ASSUME IInv, UsableInv, [Next]_vars
    PROVE  UsableInv'
<1>0. KeysOK /\ RestoredOK
  BY DEF IInv
<1>1. ASSUME UNCHANGED <<sled, ops, app, owned, damaged, expected>> PROVE UsableInv'
  BY <1>1 DEF UsableInv, RunOK, LostOK
<1>2. ASSUME NEW i \in Stages, StoreChannel(i) PROVE UsableInv'
  <2>1. app = "Running" /\ app' = app /\ damaged' = damaged
    BY <1>2 DEF StoreChannel, Ready, ghosts
  <2>2. i \in 1 .. 8
    BY CallsAre, StagesAssumption
  <2> QED BY <1>0, <1>2, <2>1, <2>2, StoreChannelUsable DEF UsableInv
<1>3. CASE roll_back_channel
  <2>1. app = "Running" /\ app' = app /\ damaged' = damaged
    BY <1>3 DEF roll_back_channel, Ready, ghosts
  <2> QED BY <1>0, <1>3, <2>1, RollBackUsable DEF UsableInv
<1>4. CASE periodic_check
  <2>1. app = "Running" /\ app' = app /\ damaged' = damaged
    BY <1>4 DEF periodic_check, Ready, ghosts
  <2> QED BY <1>0, <1>4, <2>1, PeriodicCheckUsable DEF UsableInv
<1>5. CASE delete_dlc_channel
  <2>1. app = "Running" /\ app' = app /\ damaged' = damaged
    BY <1>5 DEF delete_dlc_channel, Ready
  <2> QED BY <1>0, <1>5, <2>1, DeleteUsable DEF UsableInv
<1>6. CASE StoreStep
  <2>1. app = "Running" /\ app' = app /\ damaged' = damaged
    BY <1>6 DEF StoreStep
  <2> QED BY <1>0, <1>6, <2>1, StoreStepUsable DEF UsableInv
<1>7. CASE Crash
  <2>1. app = "Running" /\ app' = app /\ damaged' = (damaged \/ Cut)
    BY <1>7 DEF Crash
  <2> QED BY <1>7, <2>1, CrashUsable DEF UsableInv
<1>8. CASE LoseDevice
  <2>1. app = "Running" /\ app' = "Lost" /\ damaged' = (damaged \/ Cut)
    BY <1>8 DEF LoseDevice
  <2> QED BY <1>0, <1>8, <2>1, LoseDeviceUsable DEF UsableInv
<1>9. CASE restore
  <2>1. app = "Lost" /\ app' = "Restored" /\ damaged' = damaged /\ expected' = expected
    BY <1>9 DEF restore
  <2>2. LostOK => LostOK'
    BY <2>1 DEF LostOK
  <2> QED BY <2>1, <2>2 DEF UsableInv
<1>10. CASE FailRestore
  <2>1. app' = "Unrestored"
    BY <1>10 DEF FailRestore
  <2> QED BY <2>1 DEF UsableInv
<1>11. CASE Start
  <2>1. app = "Restored" /\ app' = "Restarted" /\ damaged' = (damaged \/ unsure # {})
    BY <1>11 DEF Start
  <2> QED BY <1>0, <1>11, <2>1, StartUsable DEF UsableInv
<1>12. CASE UNCHANGED vars
  BY <1>1, <1>12 DEF vars
<1>13. ASSUME NEW e, UpdateDb(e) PROVE UsableInv'
  BY <1>1, <1>13 DEF UpdateDb, ghosts
<1>14. ASSUME NEW i, DbBackup(i) PROVE UsableInv'
  BY <1>1, <1>14 DEF DbBackup, ghosts
<1>15. CASE full_backup
  BY <1>1, <1>15 DEF full_backup, ghosts
<1>16. ASSUME NEW t, Handle(t) \/ FailRequest(t) PROVE UsableInv'
  BY <1>1, <1>16 DEF Handle, FailRequest, ghosts
<1> QED BY <1>2, <1>3, <1>4, <1>5, <1>6, <1>7, <1>8, <1>9, <1>10, <1>11, <1>12, <1>13, <1>14, <1>15,
           <1>16 DEF Next

-----------------------------------------------------------------------------
\* A contract in the store is read, and listed among those of its kind.
LEMMA ListedContract ==
    ASSUME NEW c \in Contracts, NEW id, serialize_contract(c) \in Look(sled, CONTRACT, id)
    PROVE  /\ c \in get_contract(id)
           /\ c.type = "Offered" => c.body \in get_contract_offers
           /\ c.type = "Signed" => c.body \in get_signed_contracts
           /\ c.type = "Confirmed" => c.body \in get_confirmed_contracts
<1>1. PICK v : v = serialize_contract(c)
  OBVIOUS
<1>2. <<CONTRACT, id>> \in DOMAIN sled /\ sled[<<CONTRACT, id>>] = v
  BY <1>1 DEF Look
<1>3. c \in get_contract(id)
  <2>1. v \in read(CONTRACT, id)
    BY <1>2 DEF read
  <2> QED BY <1>1, <2>1, ContractBuffer DEF get_contract
<1>4. v \in ReadAll(CONTRACT)
  <2>1. PICK l : l = <<CONTRACT, id>>
    OBVIOUS
  <2>2. l \in DOMAIN sled /\ l[1] = CONTRACT /\ sled[l] = v
    BY <1>2, <2>1
  <2> QED BY <2>2 DEF ReadAll, Keys
<1>5. PICK p : p = get_prefix(ContractPrefix, c.type)
  OBVIOUS
<1>6. Len(v) = 2 /\ v[2] = c.body /\ SubSeq(v, 1, 1) = <<p>>
  BY <1>1, <1>5, ContractBuffer
<1>7. c.body \in get_data_with_prefix(ReadAll(CONTRACT), <<p>>, 0)
  <2>1. Len(<<p>>) = 1
    OBVIOUS
  <2>2. Deserializes(v, Len(<<p>>) + 0 + 1) /\ SubSeq(v, 1, Len(<<p>>)) = <<p>> /\ v[Len(<<p>>) + 0 + 1] = c.body
    BY <1>6, <2>1 DEF Deserializes
  <2> QED BY <1>4, <2>2 DEF get_data_with_prefix
<1> QED BY <1>3, <1>5, <1>7 DEF get_contract_offers, get_signed_contracts, get_confirmed_contracts, get_raw_contracts

\* Without an entry under the temporary id no offer is listed.
LEMMA NoOffer ==
    ASSUME KeysOK, StoreOK(sled), Look(sled, CHANNEL, "temp") = {}
    PROVE  get_offered_channels = {}
<1>1. PICK p : p = get_prefix(ChannelPrefix, "Offered")
  OBVIOUS
<1>2. get_offered_channels = get_data_with_prefix(ReadAll(CHANNEL), <<p>>, 0)
  BY <1>1 DEF get_offered_channels
<1>3. Len(<<p>>) = 1
  OBVIOUS
<1>4. ASSUME NEW v \in ReadAll(CHANNEL), SubSeq(v, 1, Len(<<p>>)) = <<p>> PROVE FALSE
  <2>1. SubSeq(v, 1, 1) = <<p>>
    BY <1>3, <1>4
  <2>2. PICK i \in 2 .. 8 : v = ChannelOf(i)
    BY FoundChannel
  <2>3. p = get_prefix(ChannelPrefix, Calls[i].channel.type)
    BY <2>1, <2>2, ChannelBuffer
  <2>4. Calls[i].channel.type \in {"Accepted", "Signed", "CollaborativelyClosed"}
    <3>1. i \in {2, 3, 4, 5, 6, 7, 8}
      OBVIOUS
    <3> QED BY <3>1, StagesAre
  <2> QED BY <1>1, <2>3, <2>4, ChannelPrefixes
<1> QED BY <1>2, <1>4 DEF get_data_with_prefix

\* A signed channel in the store is listed, under its state too.
LEMMA ListedSigned ==
    ASSUME NEW i \in 3 .. 7, Look(sled, CHANNEL, "id") = {ChannelOf(i)}
    PROVE  /\ Calls[i].channel.body \in get_signed_channels(None)
           /\ Calls[i].channel.body \in get_signed_channels(Calls[i].channel.body.state)
<1>1. PICK ch : ch = Calls[i].channel
  OBVIOUS
<1>2. PICK v : v = ChannelOf(i)
  OBVIOUS
<1>3. ch.type = "Signed" /\ ch.body.state \in {"Established", "RenewOffered", "RenewAccepted", "RenewFinalized"}
  <2>1. i \in {3, 4, 5, 6, 7}
    OBVIOUS
  <2> QED BY <1>1, <2>1, StagesAre
<1>4. PICK p : p = get_prefix(ChannelPrefix, "Signed")
  OBVIOUS
<1>5. PICK q : q = get_prefix(SignedChannelPrefix, ch.body.state)
  OBVIOUS
<1>6. Len(v) = 3 /\ v[3] = ch.body /\ SubSeq(v, 1, 1) = <<p>> /\ SubSeq(v, 1, 2) = <<p, q>>
  BY <1>1, <1>2, <1>3, <1>4, <1>5, ChannelBuffer
<1>7. v \in ReadAll(CHANNEL)
  <2>1. PICK l : l = <<CHANNEL, "id">>
    OBVIOUS
  <2>2. l \in DOMAIN sled /\ l[1] = CHANNEL /\ sled[l] = v
    BY <1>2, <2>1 DEF Look
  <2> QED BY <2>2 DEF ReadAll, Keys
<1>8. ch.body \in get_data_with_prefix(ReadAll(CHANNEL), <<p>>, 1)
  <2>1. Len(<<p>>) = 1
    OBVIOUS
  <2>2. Deserializes(v, Len(<<p>>) + 1 + 1) /\ SubSeq(v, 1, Len(<<p>>)) = <<p>> /\ v[Len(<<p>>) + 1 + 1] = ch.body
    BY <1>6, <2>1 DEF Deserializes
  <2> QED BY <1>7, <2>2 DEF get_data_with_prefix
<1>9. ch.body \in get_data_with_prefix(ReadAll(CHANNEL), <<p, q>>, 0)
  <2>1. Len(<<p, q>>) = 2
    OBVIOUS
  <2>2. /\ Deserializes(v, Len(<<p, q>>) + 0 + 1) /\ SubSeq(v, 1, Len(<<p, q>>)) = <<p, q>>
        /\ v[Len(<<p, q>>) + 0 + 1] = ch.body
    BY <1>6, <2>1 DEF Deserializes
  <2> QED BY <1>7, <2>2 DEF get_data_with_prefix
<1>10. ch.body.state # None
  BY <1>3 DEF None
<1> QED BY <1>1, <1>4, <1>5, <1>8, <1>9, <1>10 DEF get_signed_channels

\* What is found for the contract of a signed channel.
Watched(state, body) ==
    body \in CASE state = "Established" -> get_signed_contracts \cup get_confirmed_contracts
               [] state = "RenewOffered" -> get_contract_offers
               [] OTHER -> {body}

\* The contract of a signed channel is found, where its state needs it.
LEMMA ContractFound ==
    ASSUME StoreOK(sled), NEW i \in 3 .. 7,
           ContractsFor(i, Look(sled, CONTRACT, "c1"), Look(sled, CONTRACT, "t2"), Look(sled, CONTRACT, "c2"))
    PROVE  \E contract \in get_contract(Calls[i].channel.body.contract) :
              Watched(Calls[i].channel.body.state, contract.body)
<1>0. PICK ch : ch = Calls[i].channel
  OBVIOUS
<1>1. CASE i = 3
  <2>1. ch.body.contract = "c1" /\ ch.body.state = "Established"
    BY <1>0, <1>1, StagesAre
  <2>2. PICK c \in {Con("Signed", "c1", "t1"), Con("Confirmed", "c1", "t1")} :
           serialize_contract(c) \in Look(sled, CONTRACT, "c1")
    BY <1>1 DEF ContractsFor
  <2>3. c \in Contracts /\ c.type \in {"Signed", "Confirmed"}
    BY DEF Contracts, Con
  <2>4. c \in get_contract("c1") /\ c.body \in get_signed_contracts \cup get_confirmed_contracts
    BY <2>2, <2>3, ListedContract
  <2> QED BY <1>0, <2>1, <2>4 DEF Watched
<1>2. CASE i = 4
  <2>1. ch.body.contract = "t2" /\ ch.body.state = "RenewOffered"
    BY <1>0, <1>2, StagesAre
  <2>2. PICK c : c = Con("Offered", "t2", "t2")
    OBVIOUS
  <2>3. c \in Contracts /\ c.type = "Offered"
    BY <2>2 DEF Contracts, Con
  <2>4. serialize_contract(c) \in Look(sled, CONTRACT, "t2")
    BY <1>2, <2>2 DEF ContractsFor
  <2>5. c \in get_contract("t2") /\ c.body \in get_contract_offers
    BY <2>3, <2>4, ListedContract
  <2> QED BY <1>0, <2>1, <2>5 DEF Watched
<1>3. CASE i \in {5, 6}
  <2>1. ch.body.contract = "c2" /\ ch.body.state \in {"RenewAccepted", "RenewFinalized"}
    BY <1>0, <1>3, StagesAre
  <2>2. PICK v : v \in Look(sled, CONTRACT, "c2")
    BY <1>3 DEF ContractsFor
  <2>3. get_contract("c2") # {}
    BY <2>2 DEF get_contract, read, Look
  <2> QED BY <1>0, <2>1, <2>3 DEF Watched
<1>4. CASE i = 7
  <2>1. ch.body.contract = "c2" /\ ch.body.state = "Established"
    BY <1>0, <1>4, StagesAre
  <2>2. PICK c : c = Con("Confirmed", "c2", "t2")
    OBVIOUS
  <2>3. c \in Contracts /\ c.type = "Confirmed"
    BY <2>2 DEF Contracts, Con
  <2>4. serialize_contract(c) \in Look(sled, CONTRACT, "c2")
    BY <1>4, <2>2 DEF ContractsFor
  <2>5. c \in get_contract("c2") /\ c.body \in get_confirmed_contracts
    BY <2>3, <2>4, ListedContract
  <2> QED BY <1>0, <2>1, <2>5 DEF Watched
<1>5. i \in {3, 4, 5, 6, 7}
  OBVIOUS
<1> QED BY <1>1, <1>2, <1>3, <1>4, <1>5

\* A fine store that has the channel makes it usable.
LEMMA Usable ==
    ASSUME KeysOK, Fine(sled), StoreOK(sled), <<CHANNEL, "id">> \in DOMAIN sled
    PROVE  /\ get_offered_channels = {}
           /\ \E channel \in get_channel("id") :
                channel.type = "Signed" =>
                  /\ channel.body \in get_signed_channels(None)
                  /\ channel.body \in get_signed_channels(channel.body.state)
                  /\ get_priv_key_for_pubkey(channel.body.key) # {}
                  /\ \E contract \in get_contract(channel.body.contract) : Watched(channel.body.state, contract.body)
<1>1. Look(sled, CHANNEL, "id") # {}
  BY DEF Look
<1>2. PICK i \in 2 .. 8 :
        /\ Look(sled, CHANNEL, "id") = {ChannelOf(i)}
        /\ ContractsFor(i, Look(sled, CONTRACT, "c1"), Look(sled, CONTRACT, "t2"), Look(sled, CONTRACT, "c2"))
        /\ Look(sled, CHANNEL, "temp") = {} /\ Look(sled, KEY_PAIR, "pk") # {}
  BY <1>1 DEF Fine, Good
<1>3. get_offered_channels = {}
  BY <1>2, NoOffer
<1>4. PICK ch : ch = Calls[i].channel
  OBVIOUS
<1>5. ch \in get_channel("id")
  <2>1. ChannelOf(i) \in read(CHANNEL, "id")
    BY <1>2 DEF read, Look
  <2>2. deserialize_channel(ChannelOf(i)) = ch
    BY <1>4, ChannelBuffer
  <2> QED BY <2>1, <2>2 DEF get_channel
<1>6. ASSUME ch.type = "Signed"
      PROVE  /\ ch.body \in get_signed_channels(None)
             /\ ch.body \in get_signed_channels(ch.body.state)
             /\ get_priv_key_for_pubkey(ch.body.key) # {}
             /\ \E contract \in get_contract(ch.body.contract) : Watched(ch.body.state, contract.body)
  <2>1. i \in 3 .. 7 /\ ch.body.key = "pk"
    BY <1>4, <1>6, StagesAre
  <2>2. get_priv_key_for_pubkey("pk") # {}
    <3>1. PICK l : l = <<KEY_PAIR, "pk">>
      OBVIOUS
    <3>2. l \in DOMAIN sled /\ l[1] = KEY_PAIR /\ l[2] = "pk"
      BY <1>2, <3>1 DEF Look
    <3> QED BY <3>2 DEF get_priv_key_for_pubkey, Keys
  <2>3. /\ ch.body \in get_signed_channels(None)
        /\ ch.body \in get_signed_channels(ch.body.state)
    BY <1>2, <1>4, <2>1, ListedSigned
  <2>4. \E contract \in get_contract(ch.body.contract) : Watched(ch.body.state, contract.body)
    BY <1>2, <1>4, <2>1, ContractFound
  <2> QED BY <2>1, <2>2, <2>3, <2>4
<1> QED BY <1>3, <1>5, <1>6

\* However often the app is killed and whatever is restored from a settled backup, the
\* channel the device owns can be used between two calls: it is listed without its offer,
\* and with the key and the contract it needs (DlcStorageProvider: upsert_channel,
\* update_contract, delete_channel and the getters, over TenTenOneNodeStorage).
THEOREM ChannelIsUsableAlways == Spec => []ChannelIsUsable
<1>1. Init => UsableInv
  BY InitUsable
<1>2. IInv /\ UsableInv /\ [Next]_vars => UsableInv'
  BY NextUsable
<1>3. IInv /\ UsableInv => ChannelIsUsable
  <2> SUFFICES ASSUME IInv, UsableInv, app \in {"Running", "Restarted"}, ops = << >>, owned, ~ damaged
               PROVE  ChannelIsUsable
    BY DEF ChannelIsUsable
  <2>1. KeysOK
    BY DEF IInv
  <2>2. Fine(sled) /\ StoreOK(sled) /\ <<CHANNEL, "id">> \in DOMAIN sled
    <3>1. CASE app = "Running"
      <4>1. RunOK
        BY <3>1 DEF UsableInv
      <4> QED BY <4>1, FineNow DEF RunOK
    <3>2. CASE app = "Restarted"
      BY <3>2 DEF UsableInv
    <3> QED BY <3>1, <3>2
  <2> QED BY <2>1, <2>2, Usable DEF ChannelIsUsable, Watched
<1> QED BY <1>1, <1>2, <1>3, Invariance, PTL DEF Spec
=============================================================================
