------------------------------ MODULE Storage ------------------------------
(***************************************************************************)
(* The app's store of DLC data, its backup at the coordinator and its      *)
(* restoration on a new device (crates/xxi-node: storage; mobile/native:   *)
(* storage.rs, backup.rs, db/mod.rs, dlc/mod.rs; coordinator: backup.rs,   *)
(* routes.rs).                                                             *)
(*                                                                         *)
(* A call of rust-dlc into DlcStorageProvider is a sequence of writes to   *)
(* the key value store, each durable by itself; the app may be killed      *)
(* between two of them.  Every write and every delete spawns a task that   *)
(* tells the coordinator.  Nobody waits for these tasks: two of the same   *)
(* key race, and one that fails is not repeated.                           *)
(*                                                                         *)
(* rust-dlc is external: Calls is the life of one channel as it stores it. *)
(* The event that ends a call is part of ChannelClosing.                   *)
(***************************************************************************)
EXTENDS Integers, Sequences, FiniteSets, SequencesExt

CONSTANTS
    MaxTasks,     \* bound on the backup tasks under way when the store is written
    MaxUpdates,   \* bound on the changes of the app's SQL database
    Stages,       \* the states in Calls a channel goes through
    MaxFaults     \* bound on how often the app is killed or a request fails

ASSUME BoundsAssumption ==
    {MaxTasks, MaxUpdates, MaxFaults} \subseteq Nat

VARIABLES
    sled,       \* the key value store: the serialized value under each kind and key
    db,         \* the version of the app's SQL database, NoDb if there is none
    snapshots,  \* for each change of the database, how far its backup has come
    ops,        \* what the running call still has to write
    app,        \* "Running", "Lost", "Restored", "Restarted" or "Unrestored"
    tasks,      \* backup tasks whose request has not reached the coordinator
    backup,     \* user_backups: what the coordinator holds of this app
    fullBackup, \* whether an initial full backup is required
    \* What the properties exempt or compare with.
    owned,      \* whether a channel was stored under its id, and not deleted since
    damaged,    \* whether the app was killed between the channel and its contract, or
                \* restored from a backup that was not settled
    unsettled,  \* keys whose last request failed, was lost or had another beside it
    expected,   \* what a lost device had
    unsure,     \* the keys that were not settled when the restore began
    faults

vars == <<sled, db, snapshots, ops, app, tasks, backup, fullBackup,
          owned, damaged, unsettled, expected, unsure, faults>>
ghosts == <<owned, damaged, expected, unsure, faults>>

None == "None"
NoDb == 0
Torn == -1

-----------------------------------------------------------------------------
(* Serialization: a one byte prefix for the kind of object, a second one   *)
(* for the state of a signed channel, then the object itself.              *)

CONTRACT == 1
CHANNEL == 2
CHAIN_MONITOR == 3
KEY_PAIR == 6

ContractPrefix ==
    <<"Offered", "Accepted", "Signed", "Confirmed", "PreClosed", "Closed", "FailedAccept",
      "FailedSign", "Refunded", "Rejected">>
ChannelPrefix ==
    <<"Offered", "Accepted", "Signed", "Closing", "Closed", "CounterClosed", "ClosedPunished",
      "CollaborativelyClosed", "FailedAccept", "FailedSign", "Cancelled", "SettledClosing">>
SignedChannelPrefix ==
    <<"Established", "SettledOffered", "SettledReceived", "SettledAccepted", "SettledConfirmed",
      "Settled", "Closing", "CollaborativeCloseOffered", "RenewAccepted", "RenewOffered",
      "RenewConfirmed", "RenewFinalized", "SettledClosing">>

get_prefix(prefixes, name) == CHOOSE i \in DOMAIN prefixes : prefixes[i] = name

serialize_contract(contract) ==
    <<get_prefix(ContractPrefix, contract.type), contract.body>>

serialize_channel(channel) ==
    <<get_prefix(ChannelPrefix, channel.type)>>
        \o (IF channel.type = "Signed"
            THEN <<get_prefix(SignedChannelPrefix, channel.body.state)>> ELSE <<>>)
        \o <<channel.body>>

\* An object can be read from the byte it starts at and from no other.
Deserializes(buff, position) == position = Len(buff)

deserialize_contract(buff) == [type |-> ContractPrefix[buff[1]], body |-> buff[2]]

deserialize_channel(buff) ==
    LET type == ChannelPrefix[buff[1]]
    IN  [type |-> type, body |-> buff[IF type = "Signed" THEN 3 ELSE 2]]

-----------------------------------------------------------------------------
(* Reading the store. *)

Keys(kind) == {k \in DOMAIN sled : k[1] = kind}

\* DlcStoreProvider::read, of one key and of a whole kind: the values found.
read(kind, key) == {sled[k] : k \in {<<kind, key>>} \cap DOMAIN sled}
ReadAll(kind) == {sled[k] : k \in Keys(kind)}
get_raw_contracts == ReadAll(CONTRACT)

get_data_with_prefix(data, prefix, consume) ==
    {value[Len(prefix) + consume + 1] :
        value \in {v \in data : /\ SubSeq(v, 1, Len(prefix)) = prefix
                                /\ Deserializes(v, Len(prefix) + consume + 1)}}

get_contract(id) == {deserialize_contract(value) : value \in read(CONTRACT, id)}

get_contract_offers ==
    get_data_with_prefix(get_raw_contracts, <<get_prefix(ContractPrefix, "Offered")>>, 0)
get_signed_contracts ==
    get_data_with_prefix(get_raw_contracts, <<get_prefix(ContractPrefix, "Signed")>>, 0)
get_confirmed_contracts ==
    get_data_with_prefix(get_raw_contracts, <<get_prefix(ContractPrefix, "Confirmed")>>, 0)

get_channel(id) == {deserialize_channel(value) : value \in read(CHANNEL, id)}

get_channels == {deserialize_channel(v) : v \in ReadAll(CHANNEL)}

\* None for the channel state asks for the signed channels in every state.
get_signed_channels(state) ==
    LET signed == get_prefix(ChannelPrefix, "Signed") IN
    IF state = None
    THEN get_data_with_prefix(ReadAll(CHANNEL), <<signed>>, 1)
    ELSE get_data_with_prefix(ReadAll(CHANNEL),
                              <<signed, get_prefix(SignedChannelPrefix, state)>>, 0)

get_offered_channels ==
    get_data_with_prefix(ReadAll(CHANNEL), <<get_prefix(ChannelPrefix, "Offered")>>, 0)

get_priv_key_for_pubkey(key) == {sled[k] : k \in {l \in Keys(KEY_PAIR) : l[2] = key}}

-----------------------------------------------------------------------------
(* What a call writes. *)

write(kind, key, value) == [op |-> "write", kind |-> kind, key |-> key, value |-> value]
delete(kind, key) == [op |-> "delete", kind |-> kind, key |-> key, value |-> <<>>]

Supersedes(object) == object.type \in {"Accepted", "Signed"}
DropTemporary(kind, object) ==
    IF Supersedes(object) THEN <<delete(kind, object.body.temp)>> ELSE <<>>

insert_contract(contract) ==
    DropTemporary(CONTRACT, contract)
        \o <<write(CONTRACT, contract.body.id, serialize_contract(contract))>>

update_contract(contract) ==
    DropTemporary(CONTRACT, contract)
        \o <<write(CONTRACT, contract.body.id, serialize_contract(contract))>>

Bug_upsert_channel(channel, contract) ==
    (IF Supersedes(channel) THEN <<delete(CHANNEL, channel.body.id)>> ELSE <<>>)
        \o <<write(CHANNEL, channel.body.id, serialize_channel(channel))>>
        \o (IF contract = <<>> THEN <<>> ELSE insert_contract(contract[1]))

\* The contract is optional: <<>> or <<contract>>.
upsert_channel(channel, contract) ==
    DropTemporary(CHANNEL, channel)
        \o <<write(CHANNEL, channel.body.id, serialize_channel(channel))>>
        \o (IF contract = <<>> THEN <<>> ELSE insert_contract(contract[1]))

delete_channel(id) == <<delete(CHANNEL, id)>>

persist_chain_monitor(height) == <<write(CHAIN_MONITOR, "chain_monitor", <<height>>)>>
get_chain_monitor ==
    LET monitor == read(CHAIN_MONITOR, "chain_monitor")
    IN  IF monitor = {} THEN 0 ELSE (CHOOSE m \in monitor : TRUE)[1]

SecretKey == <<"secret key">>
upsert_key_pair(key) == <<write(KEY_PAIR, key, SecretKey)>>
get_new_secret_key == upsert_key_pair("pk")

\* The life of a channel that the app accepts: offered under a temporary id, signed,
\* renewed with a second contract, closed.
Chan(type, id, contract, state) ==
    [type |-> type,
     body |-> [id |-> id, temp |-> "temp", contract |-> contract, state |-> state, key |-> "pk"]]
Con(type, id, temp) == [type |-> type, body |-> [id |-> id, temp |-> temp]]
Calls ==
    <<[channel |-> Chan("Offered", "temp", "t1", None), contract |-> <<Con("Offered", "t1", "t1")>>],
      [channel |-> Chan("Accepted", "id", "c1", None), contract |-> <<Con("Accepted", "c1", "t1")>>],
      [channel |-> Chan("Signed", "id", "c1", "Established"), contract |-> <<Con("Signed", "c1", "t1")>>],
      [channel |-> Chan("Signed", "id", "t2", "RenewOffered"), contract |-> <<Con("Offered", "t2", "t2")>>],
      [channel |-> Chan("Signed", "id", "c2", "RenewAccepted"), contract |-> <<Con("Accepted", "c2", "t2")>>],
      [channel |-> Chan("Signed", "id", "c2", "RenewFinalized"), contract |-> <<>>],
      [channel |-> Chan("Signed", "id", "c2", "Established"), contract |-> <<Con("Confirmed", "c2", "t2")>>],
      [channel |-> Chan("CollaborativelyClosed", "id", "c2", None), contract |-> <<>>]>>

ASSUME StagesAssumption == Stages \subseteq DOMAIN Calls

Unused(offered, accepted) == get_contract(offered.body.id) \cup get_contract(accepted.body.id) = {}
Follows(i, j) == j = i + 1 \/ (i = 3 /\ j = Len(Calls))

-----------------------------------------------------------------------------
(* Backup tasks. *)

\* The keys of the backup: of an entry of the store, and of the database.
BackupKey(kind, key) == <<"dlc", kind, key>>
DbKey == <<"10101", "db">>

\* The keys of the store and those of the backup, and how far the backup of a change of
\* the database has come.
StoreKey == {CONTRACT, CHANNEL, CHAIN_MONITOR, KEY_PAIR} \X STRING
UserBackupKey == ({"dlc"} \X {CONTRACT, CHANNEL, CHAIN_MONITOR, KEY_PAIR} \X STRING) \cup {DbKey}
SnapshotStates == {"Spawned", "Done"}

Copies == {k \in DOMAIN snapshots : snapshots[k] = "Spawned"}
InFlight == {t.key : t \in tasks} \cup (IF Copies = {} THEN {} ELSE {DbKey})

\* A request for a key is ordered after the ones before only if none of them is under way.
Settles(keys) == (unsettled \ keys) \cup (keys \cap InFlight)

\* The coordinator sees ciphertext only.
encrypt(value) == [cipher |-> value]
decrypt(value) == value.cipher

\* RemoteBackupClient::backup and ::delete: encrypt, sign, and spawn the request.
RemoteBackup(key, value) == [op |-> "backup", key |-> key, value |-> encrypt(value)]
RemoteDelete(key) == [op |-> "delete", key |-> key, value |-> <<>>]

Put(f, k, v) == [l \in DOMAIN f \cup {k} |-> IF l = k THEN v ELSE f[l]]
Drop(f, k) == [l \in DOMAIN f \ {k} |-> f[l]]

\* TenTenOneNodeStorage::write and ::delete.
StorageWrite(o) ==
    /\ sled' = Put(sled, <<o.kind, o.key>>, o.value)
    /\ tasks' = tasks \cup {RemoteBackup(BackupKey(o.kind, o.key), o.value)}
    /\ unsettled' = Settles({BackupKey(o.kind, o.key)})

Bug_StorageDelete(o) ==
    /\ sled' = Drop(sled, <<o.kind, o.key>>)
    /\ tasks' = tasks \cup {RemoteDelete(<<"dlc", o.kind>>)}
    /\ unsettled' = Settles({BackupKey(o.kind, o.key)})

StorageDelete(o) ==
    /\ sled' = Drop(sled, <<o.kind, o.key>>)
    /\ tasks' = tasks \cup {RemoteDelete(BackupKey(o.kind, o.key))}
    /\ unsettled' = Settles({BackupKey(o.kind, o.key)})

Local ==
    [k \in {BackupKey(l[1], l[2]) : l \in DOMAIN sled} \cup (IF db = NoDb THEN {} ELSE {DbKey}) |->
        IF k = DbKey THEN db ELSE sled[<<k[2], k[3]>>]]

-----------------------------------------------------------------------------
\* A new installation, or one that had a channel before backups existed.
Init ==
    /\ \/ /\ sled = << >>
          /\ fullBackup = FALSE
       \/ /\ sled = [k \in {<<CHANNEL, "id">>, <<CONTRACT, "c1">>, <<KEY_PAIR, "pk">>} |->
                        CASE k[1] = CHANNEL -> serialize_channel(Calls[3].channel)
                          [] k[1] = CONTRACT -> serialize_contract(Calls[3].contract[1])
                          [] OTHER -> SecretKey]
          /\ fullBackup = TRUE
    /\ db = 1
    /\ snapshots = << >>
    /\ ops = << >> /\ app = "Running"
    /\ tasks = {} /\ backup = << >>
    /\ owned = (sled # << >>)
    /\ damaged = FALSE
    /\ unsettled = DOMAIN Local
    /\ expected = << >> /\ unsure = {}
    /\ faults = 0

\* The node starts after an initial backup has been started.
Ready == app = "Running" /\ ops = << >> /\ ~fullBackup

\* rust-dlc stores the next state of the channel; to accept one it takes a new key first.
StoreChannel(i) ==
    /\ Ready
    /\ i # 1 => \E j \in Stages : Follows(j, i) /\ Calls[j].channel \in get_channels
    /\ i \in {1, 4} => Unused(Calls[i].contract[1], Calls[i + 1].contract[1])
    /\ ops' = (IF Calls[i].channel.type = "Accepted" THEN get_new_secret_key ELSE << >>)
                \o upsert_channel(Calls[i].channel, Calls[i].contract)
    /\ UNCHANGED <<sled, db, snapshots, app, tasks, backup, fullBackup,
                   unsettled, ghosts>>

\* Back to the last stable state of a channel whose renewal did not complete.
roll_back_channel ==
    /\ Ready
    /\ \E channel \in get_signed_channels(None) :
          channel.state \in {"RenewOffered", "RenewAccepted", "RenewFinalized"}
    /\ ops' = upsert_channel(Calls[3].channel, << >>)
    /\ UNCHANGED <<sled, db, snapshots, app, tasks, backup, fullBackup,
                   unsettled, ghosts>>

\* The periodic check after the block that confirms a funding transaction.
periodic_check ==
    /\ Ready
    /\ \E body \in get_signed_contracts :
          ops' = update_contract([type |-> "Confirmed", body |-> body])
                    \o persist_chain_monitor(get_chain_monitor + 1)
    /\ UNCHANGED <<sled, db, snapshots, app, tasks, backup, fullBackup, unsettled, ghosts>>

\* The user deletes a channel that is over.
delete_dlc_channel ==
    /\ Ready
    /\ \E channel \in get_channels :
          /\ channel.type = "CollaborativelyClosed"
          /\ ops' = delete_channel(channel.body.id)
    /\ owned' = FALSE
    /\ UNCHANGED <<sled, db, snapshots, app, tasks, backup, fullBackup,
                   damaged, unsettled, expected, unsure, faults>>

\* The next write of the running call.
StoreStep ==
    /\ app = "Running" /\ ops # << >>
    /\ LET o == Head(ops) IN
       /\ IF o.op = "write" THEN StorageWrite(o) ELSE StorageDelete(o)
       /\ Cardinality(tasks') + Cardinality(Copies) <= MaxTasks
       /\ owned' = (owned \/ (o.op = "write" /\ o.kind = CHANNEL /\ o.key = "id"))
    /\ ops' = Tail(ops)
    /\ UNCHANGED <<db, snapshots, app, backup, fullBackup,
                   damaged, expected, unsure, faults>>

-----------------------------------------------------------------------------
(* The SQL database and its snapshots. *)

\* The events of the app that DBBackupSubscriber asks for.
BackupEvents ==
    {"PositionUpdateNotification", "PositionClosedNotification", "OrderUpdateNotification",
     "OrderFilledWith", "SpendableOutputs"}

\* The type an event is published under: a funding fee event goes by that of a trade.
EventType(e) == IF e = "FundingFeeEvent" THEN "NewTrade" ELSE e

\* A change of the database and the event published for it, to those who asked for its type.
UpdateDb(e) ==
    /\ Ready /\ db >= 1 /\ db <= MaxUpdates
    /\ Cardinality(tasks) + Cardinality(Copies) < MaxTasks
    /\ db' = db + 1
    /\ IF EventType(e) \in BackupEvents
       THEN /\ snapshots' = Append(snapshots, "Spawned")
            /\ unsettled' = Settles({DbKey})
       ELSE /\ snapshots' = Append(snapshots, "Done")
            /\ unsettled' = unsettled \cup {DbKey}
    /\ UNCHANGED <<sled, ops, app, tasks, backup, fullBackup, ghosts>>

\* db::back_up copies the database, under a lock, to the one file in the backup directory;
\* the file is read after the lock is released, and may be half written by the next copy.
Snapshots(i) == {db} \cup (IF Copies = {i} THEN {} ELSE {Torn})

DbBackup(i) ==
    /\ app = "Running" /\ i \in Copies
    /\ snapshots' = [snapshots EXCEPT ![i] = "Done"]
    /\ \E value \in Snapshots(i) :
          tasks' = tasks \cup {RemoteBackup(DbKey, value)}
    /\ UNCHANGED <<sled, db, ops, app, backup, fullBackup, unsettled, ghosts>>

\* The backup of everything at the first start after an upgrade.  Nobody waits for it.
full_backup ==
    /\ app = "Running" /\ fullBackup
    /\ fullBackup' = FALSE
    /\ snapshots' = Append(snapshots, "Spawned")
    /\ tasks' = tasks \cup {RemoteBackup(k, Local[k]) : k \in DOMAIN Local \ {DbKey}}
    /\ unsettled' = Settles(DOMAIN Local)
    /\ UNCHANGED <<sled, db, ops, app, backup, ghosts>>

-----------------------------------------------------------------------------
(* The coordinator. *)

\* SledBackup::back_up and ::delete of a request whose signature is right.
BackedUp(t) == IF t.op = "backup" THEN Put(backup, t.key, t.value) ELSE Drop(backup, t.key)

Plain(f) == [k \in DOMAIN f |-> decrypt(f[k])]

\* A key is settled again when its last request leaves the coordinator with the device's value.
Agree(f, g, k) == (k \in DOMAIN f <=> k \in DOMAIN g) /\ (k \in DOMAIN f => f[k] = g[k])
Resettles(t) ==
    IF app = "Running" /\ (t.key = DbKey => Copies = {})
         /\ (\A u \in tasks \ {t} : u.key # t.key) /\ Agree(Plain(BackedUp(t)), Local, t.key)
    THEN {t.key} ELSE {}

Handle(t) ==
    /\ app # "Unrestored"
    /\ tasks' = tasks \ {t}
    /\ backup' = BackedUp(t)
    /\ unsettled' = unsettled \ Resettles(t)
    /\ UNCHANGED <<sled, db, snapshots, ops, app, fullBackup, ghosts>>

\* The request does not get through; the task logs it and ends.
FailRequest(t) ==
    /\ app # "Unrestored" /\ faults < MaxFaults
    /\ faults' = faults + 1
    /\ tasks' = tasks \ {t}
    /\ unsettled' = unsettled \cup {t.key}
    /\ UNCHANGED <<sled, db, snapshots, ops, app, backup, fullBackup,
                   owned, damaged, expected, unsure>>

-----------------------------------------------------------------------------
(* The app is killed, or its device is lost. *)

\* Some of the requests under way reach the coordinator all the same.
Killed(kept) ==
    /\ kept \subseteq tasks
    /\ ops' = << >>
    /\ tasks' = kept
    /\ snapshots' = [i \in DOMAIN snapshots |-> "Done"]
    /\ unsettled' = unsettled \cup {t.key : t \in tasks \ kept}
                        \cup (IF Copies = {} THEN {} ELSE {DbKey})

\* The channel is written and its contract is not.
Cut ==
    LET writes == {ops[i].kind : i \in {j \in DOMAIN ops : ops[j].op = "write"}}
    IN  CONTRACT \in writes /\ CHANNEL \notin writes

Crash ==
    /\ app = "Running"
    /\ faults < MaxFaults
    /\ faults' = faults + 1
    /\ \E kept \in SUBSET tasks : Killed(kept)
    /\ damaged' = (damaged \/ Cut)
    /\ UNCHANGED <<sled, db, app, backup, fullBackup, owned, expected,
                   unsure>>

LoseDevice ==
    /\ app = "Running"
    /\ \E kept \in SUBSET tasks : Killed(kept)
    /\ app' = "Lost"
    /\ damaged' = (damaged \/ Cut)
    /\ expected' = Local
    /\ sled' = << >> /\ db' = NoDb
    /\ fullBackup' = FALSE /\ owned' = FALSE
    /\ UNCHANGED <<backup, unsure, faults>>

\* SledBackup::restore: everything the coordinator holds of the app.
Downloaded == backup

\* RemoteBackupClient::restore decrypts and decodes each entry and writes it to the store.
Bug_RestoredStore ==
    [k \in {<<CHANNEL, l[3]>> : l \in DOMAIN Downloaded \ {DbKey}} |->
        decrypt(Downloaded[CHOOSE m \in DOMAIN Downloaded \ {DbKey} : m[3] = k[2]])]

RestoredStore ==
    [k \in {<<l[2], l[3]>> : l \in {m \in DOMAIN Downloaded : m[1] = "dlc"}} |->
        decrypt(Downloaded[BackupKey(k[1], k[2])])]

RestoredDb == IF DbKey \in DOMAIN Downloaded THEN decrypt(Downloaded[DbKey]) ELSE NoDb

\* restore_from_mnemonic stores the seed, downloads the backup and restores it.
restore ==
    /\ app = "Lost"
    /\ app' = "Restored"
    /\ sled' = RestoredStore /\ db' = RestoredDb
    /\ unsure' = unsettled \cup InFlight
    /\ unsettled' = InFlight
    /\ UNCHANGED <<snapshots, ops, tasks, backup, fullBackup, owned, damaged, expected, faults>>

\* Opening the database creates it if there is none.
init_db(version) == IF version = NoDb THEN 1 ELSE version

\* If the download or one of the entries fails the app starts all the same, since it has
\* a seed, on what was restored until then.
FailRestore ==
    /\ app = "Lost"
    /\ app' = "Unrestored"
    /\ \/ sled' = << >> /\ db' = init_db(NoDb)
       \/ /\ sled' = [k \in {l \in DOMAIN RestoredStore : l[1] = CONTRACT} |-> RestoredStore[k]]
          /\ db' = init_db(RestoredDb)
    /\ UNCHANGED <<snapshots, ops, tasks, backup, fullBackup, unsettled, ghosts>>

\* The node starts on what was restored.  Bound: what it stores from then on is not
\* followed.
Start ==
    /\ app = "Restored"
    /\ app' = "Restarted"
    /\ db' = init_db(db)
    /\ unsettled' = IF db = NoDb THEN unsettled \cup {DbKey} ELSE unsettled
    /\ owned' = (get_channel("id") # {})
    /\ damaged' = (damaged \/ unsure # {})
    /\ expected' = << >> /\ unsure' = {}
    /\ UNCHANGED <<sled, snapshots, ops, tasks, backup, fullBackup, faults>>

Next ==
    \/ \E i \in Stages : StoreChannel(i)
    \/ roll_back_channel \/ periodic_check \/ delete_dlc_channel
    \/ StoreStep
    \/ \E e \in {"PositionUpdateNotification", "FundingFeeEvent"} : UpdateDb(e)
    \/ \E i \in DOMAIN snapshots : DbBackup(i)
    \/ full_backup
    \/ \E t \in tasks : Handle(t) \/ FailRequest(t)
    \/ Crash \/ LoseDevice \/ restore \/ FailRestore \/ Start

Spec == Init /\ [][Next]_vars

-----------------------------------------------------------------------------
\* The types of the variables.
TypeOK ==
    /\ DOMAIN sled \subseteq StoreKey
    /\ db \in {Torn} \cup 0 .. MaxUpdates + 1 /\ snapshots \in Seq(SnapshotStates)
    /\ \A i \in DOMAIN ops : ops[i].op \in {"write", "delete"} /\ <<ops[i].kind, ops[i].key>> \in StoreKey
    /\ app \in {"Running", "Lost", "Restored", "Restarted", "Unrestored"}
    /\ \A t \in tasks : t.op \in {"backup", "delete"} /\ t.key \in UserBackupKey
    /\ DOMAIN backup \subseteq UserBackupKey /\ fullBackup \in BOOLEAN
    /\ owned \in BOOLEAN /\ damaged \in BOOLEAN
    /\ (unsettled \cup DOMAIN expected \cup unsure) \subseteq UserBackupKey
    /\ faults \in 0 .. MaxFaults

\* The channel a device owns can be used whenever the app runs, however often it was
\* killed: the store has the channel and no longer the offer it came from; if it is signed
\* the node lists it, under its state too, and finds the key it signs with and the contract
\* it refers to, which in an established channel is one that the periodic check watches.
\* Not claimed when upsert_channel was cut between the channel and its contract, or when
\* the store was restored from a backup that was not settled.
ChannelIsUsable ==
    app \in {"Running", "Restarted"} /\ ops = << >> /\ owned /\ ~damaged =>
        /\ get_offered_channels = {}
        /\ \E channel \in get_channel("id") :
              channel.type = "Signed" =>
                  /\ channel.body \in get_signed_channels(None)
                  /\ channel.body \in get_signed_channels(channel.body.state)
                  /\ get_priv_key_for_pubkey(channel.body.key) # {}
                  /\ \E contract \in get_contract(channel.body.contract) :
                        contract.body \in
                            CASE channel.body.state = "Established" ->
                                    get_signed_contracts \cup get_confirmed_contracts
                              [] channel.body.state = "RenewOffered" -> get_contract_offers
                              [] OTHER -> {contract.body}

\* The backup follows the device: for every key without a request under way the
\* coordinator holds what the device holds, and nothing if the device deleted it, unless
\* the last request of the key failed, was lost with the process or had another one of
\* the same key beside it.
BackupIsCurrent ==
    app \in {"Running", "Restarted"} =>
        \A k \in (DOMAIN Local \cup DOMAIN backup) \ (unsettled \cup InFlight) :
            /\ k \in DOMAIN Local /\ k \in DOMAIN backup
            /\ Local[k] = decrypt(backup[k])

\* A restore that runs to its end brings back what the lost device had, entry by entry,
\* as far as the backup was settled when it was downloaded, and adds nothing else.
RestoreBringsBack ==
    app = "Restored" =>
        \A k \in (DOMAIN Local \cup DOMAIN expected) \ unsure :
            /\ k \in DOMAIN Local /\ k \in DOMAIN expected
            /\ Local[k] = expected[k]
=============================================================================
