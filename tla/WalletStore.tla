----------------------------- MODULE WalletStore -----------------------------
(***************************************************************************)
(* The wallets on the device: src/src/main/settings.ts (the index, one       *)
(* encrypted seed file per wallet, the active and the retained id),          *)
(* src/src/main/chain/wallet.ts (the one wallet whose keys are in memory),   *)
(* their handlers in ipc-handlers.ts, and the screens that call them         *)
(* (WalletPicker, MnemonicInput, WalletsTab, App).                           *)
(*                                                                           *)
(* Main writes its files synchronously, so nothing interleaves with the      *)
(* writes of one operation, but the process may be killed after any of them: *)
(* an operation is its last disk, or one of its interim disks and a dead     *)
(* process.  Deriving a key is asynchronous: it is a job, and jobs finish in *)
(* any order.                                                                *)
(*                                                                           *)
(* Ids are given in the order in which wallets are added, so the order of the *)
(* index is the order of its ids, and the index is a set.                    *)
(*                                                                           *)
(* A phrase is a seed; an address is the pair of a seed and a path.  A file  *)
(* in `foreign` was written under the application's previous name and can    *)
(* never be decrypted.                                                       *)
(***************************************************************************)
EXTENDS Integers, Sequences

CONSTANTS
    Seeds,        \* recovery phrases
    Paths,        \* derivation paths; a phrase is imported at path 0
    MaxWallets,   \* bound: wallet ids a behaviour may use
    MaxLaunches   \* bound: times the application is started

ASSUME WalletStoreAssumption ==
    /\ 0 \in Paths
    /\ MaxWallets \in Nat \ {0, 1}
    /\ MaxLaunches \in Nat

Ids == 1 .. MaxWallets
NoId == 0
NoSeed == "none"
Blank == <<>>    \* the address of an entry migrated and not yet derived

ASSUME SeedsAssumption == NoSeed \notin Seeds

VARIABLES
    disk,       \* [index, files, active, retained, single]
    foreign,    \* the ids whose files no longer decrypt
    nextId,     \* the next unused id
    up,         \* the process runs
    ready,      \* the renderer has read the store once and shows a screen
    secure,     \* a real keyring encrypts and decrypts, fixed at start
    live,       \* a session is live (connectionIsLive)
    loaded,     \* the wallet in memory: [id, address]
    jobs,       \* key derivations under way
    launches,   \* times started
    duplicate,  \* the wallet MnemonicInput says already holds the phrase
    owned,      \* history: seeds the user stored and did not ask to remove
    adopted,    \* history: the id the single-wallet file was migrated to
    removed,    \* history: seeds removed on request and not stored again
    cut         \* history: seeds a crash in the middle of "Keep seed" or of its
                \* undoing, or a launch without a keyring, may have misplaced

memory == <<up, ready, loaded, jobs, live, duplicate>>
history == <<owned, removed, cut, adopted>>
vars == <<disk, foreign, nextId, secure, launches, memory, history>>

Entries == [id : Ids, path : Paths, address : {Blank} \cup (Seeds \X Paths)]

Disk == [index : SUBSET Entries,
         files : [Ids -> Seeds \cup {NoSeed}], active : Ids \cup {NoId},
         retained : Ids \cup {NoId}, single : Seeds \cup {NoSeed}]

NoWallet == [id |-> NoId, address |-> Blank]

(***************************************************************************)
(* The store                                                                 *)
(***************************************************************************)

Stored(d) == {e.id : e \in d.index}
Entry(d, id) == CHOOSE e \in d.index : e.id = id

\* getWalletMnemonic returns rather than throws.  It asks for any backend where the
\* writes ask for a real keyring; a seed is only ever written under a real one, whose
\* ciphertext no other backend opens, so one condition stands for both.
Opens(d, id) == secure /\ id \notin foreign /\ d.files[id] # NoSeed

IsSeedSource(d, id) == id # NoId /\ (id \in Stored(d) \/ d.retained = id)

\* The seeds some screen can still derive a wallet from, given a keyring.
Reachable(d) ==
    ({d.files[id] : id \in (Stored(d) \cup ({d.retained} \ {NoId})) \ foreign} \cup {d.single})
        \ {NoSeed}

\* The wallets a loop over the index visits before one of them.
Earlier(d, id) == {m \in Stored(d) : m < id}

Smallest(ids) == IF ids = {} THEN NoId ELSE CHOOSE id \in ids : \A m \in ids : id <= m

\* The index without some wallets, their files removed, the active id moved on.
Without(d, gone) ==
    LET rest == {e \in d.index : e.id \notin gone}
    IN  [d EXCEPT !.index = rest,
                  !.files = [id \in Ids |-> IF id \in gone THEN NoSeed ELSE @[id]],
                  !.active = IF @ \in gone THEN Smallest({e.id : e \in rest}) ELSE @]

\* A plausible slip: the file goes before the index.
Removal_FileFirst(d, id, keepSeed) ==
    LET rest == {e \in d.index : e.id # id}
        sealed == IF keepSeed /\ rest = {}
                    THEN [d EXCEPT !.retained = id]
                    ELSE [d EXCEPT !.files[id] = NoSeed]
        indexed == [sealed EXCEPT !.index = rest]
    IN  <<sealed, indexed,
          IF d.active = id THEN [indexed EXCEPT !.active = Smallest(Stored(indexed))] ELSE indexed>>

\* deleteWalletEntry, write by write: the index, the file or the retained id,
\* the active id.
Removal(d, id, keepSeed) ==
    LET rest == {e \in d.index : e.id # id}
        indexed == [d EXCEPT !.index = rest]
        sealed == IF keepSeed /\ rest = {}
                    THEN [indexed EXCEPT !.retained = id]
                    ELSE [indexed EXCEPT !.files[id] = NoSeed]
    IN  <<indexed, sealed,
          IF d.active = id THEN [sealed EXCEPT !.active = Smallest(Stored(indexed))] ELSE sealed>>

\* addWalletEntry, write by write.
Addition(d, id, address, path) ==
    LET filed == [d EXCEPT !.files[id] = address[1]]
        indexed == [filed EXCEPT !.index =
                        @ \cup {[id |-> id, path |-> path, address |-> address]}]
    IN  <<filed, indexed,
          IF d.active = NoId THEN [indexed EXCEPT !.active = id] ELSE indexed>>

\* clearRetainedSeed.
Unretained(d) ==
    LET sealed == [d EXCEPT !.files[d.retained] = NoSeed]
    IN  IF d.retained = NoId THEN <<d>> ELSE <<sealed, [sealed EXCEPT !.retained = NoId]>>

Clashes_Active(d, address) ==
    {e.id : e \in {f \in d.index : f.id = d.active /\ f.address = address}}

\* The entries addWalletEntry's uniqueness guard would refuse an address for.
Clashes(d, address) == {e.id : e \in {f \in d.index : f.address # Blank /\ f.address = address}}

\* migrateOldWallet.
Migration(d) ==
    LET filed == [d EXCEPT !.files[nextId] = d.single]
        indexed == [filed EXCEPT !.index = {[id |-> nextId, path |-> 0, address |-> Blank]}]
        active == [indexed EXCEPT !.active = nextId]
    IN  CASE d.single = NoSeed -> <<d>>
          [] d.single # NoSeed /\ d.index # {} -> <<[d EXCEPT !.single = NoSeed]>>
          [] d.single # NoSeed /\ d.index = {} /\ ~secure -> <<d>>
          [] OTHER -> <<filed, indexed, active, [active EXCEPT !.single = NoSeed]>>

Last(s) == s[Len(s)]
Interim(s) == {s[i] : i \in 1 .. Len(s) - 1}

(***************************************************************************)
(* The process                                                               *)
(***************************************************************************)

\* The process is gone; whether the next one finds a keyring is open.
Killed ==
    /\ up' = FALSE /\ ready' = FALSE /\ live' = FALSE
    /\ loaded' = NoWallet /\ jobs' = {} /\ duplicate' = NoId
    /\ secure' \in BOOLEAN
    /\ UNCHANGED <<foreign, launches>>

\* Killed with one of the interim disks of an operation that was to remove `asked`.
KilledIn(interims, asked) ==
    /\ Killed
    /\ disk' \in interims
    /\ owned' = owned \ (asked \ Reachable(disk'))

\* Killed while adding a wallet of a seed.
KilledAdding(interims, seed) ==
    /\ Killed
    /\ disk' \in interims
    /\ owned' = owned
    /\ removed' = removed \ {seed}

Kill == up /\ Killed /\ UNCHANGED <<disk, nextId, history>>

HasStored(d) == d.active \in Stored(d)

\* What useWallet reports as the wallet in use, and the screens it leads to.
Shown == IF HasStored(disk) THEN loaded.id ELSE NoId
SavedSeedShown == ready /\ Shown = NoId /\ disk.index = {} /\ disk.retained # NoId
PickerShown == ready /\ Shown = NoId /\ (disk.index # {} \/ disk.retained # NoId)
AppShown == ready /\ Shown # NoId

\* The import screen, which the saved-seed screen does not lead to.
ImportShown == ready /\ ~SavedSeedShown

\* The import form and the derive modal stay, disabled, until their call answers.
FormFree == \A j \in jobs : j.kind \notin {"import", "derive"}

Job(kind, id, address, fill) == [kind |-> kind, id |-> id, address |-> address, fill |-> fill]

\* dedupeWalletEntries: the oldest entry of an address that opens survives.
SameAddress(d, address) == {e.id : e \in {f \in d.index : f.address = address}}

Survivor_Oldest(d, address) == Smallest(SameAddress(d, address))

Survivor(d, address) ==
    LET openable == {id \in SameAddress(d, address) : Opens(d, id)}
    IN  Smallest(IF openable # {} THEN openable ELSE SameAddress(d, address))

Merged(d) ==
    {e.id : e \in {f \in d.index : f.address # Blank /\ Survivor(d, f.address) # f.id}}

\* The application starts: duplicates are merged before anything else reads the
\* store.
Launch ==
    LET dropped == Merged(disk)
        indexed == [disk EXCEPT !.index = {e \in @ : e.id \notin dropped}]
        sealed(gone) == [indexed EXCEPT !.files =
                            [id \in Ids |-> IF id \in gone THEN NoSeed ELSE @[id]]]
        done == [sealed(dropped) EXCEPT !.active =
                    IF @ \in dropped THEN Survivor(disk, Entry(disk, @).address) ELSE @]
        lost == IF secure THEN {} ELSE {disk.files[id] : id \in dropped} \ {NoSeed}
    IN  /\ ~up /\ launches < MaxLaunches
        /\ launches' = launches + 1
        /\ cut' = cut \cup lost
        /\ UNCHANGED <<foreign, nextId, removed, owned, adopted, ready, live, loaded, jobs, duplicate>>
        /\ \/ up' = TRUE /\ disk' = done /\ UNCHANGED secure
           \/ dropped # {} /\ UNCHANGED up /\ secure' \in BOOLEAN
              /\ disk' \in {sealed(gone) : gone \in {dropped \cap Earlier(disk, id) : id \in dropped} \cup {dropped}}

(***************************************************************************)
(* Reading the active wallet                                                 *)
(***************************************************************************)

\* restoreWallet up to the derivation.
RestoreJobs(d) ==
    IF HasStored(d) /\ loaded = NoWallet /\ Opens(d, d.active)
      THEN {Job("restore", d.active, <<d.files[d.active], Entry(d, d.active).path>>,
                Entry(d, d.active).address = Blank)}
      ELSE {}

\* WALLET_HAS_STORED, WALLET_GET_ADDRESS and WALLET_SESSIONS: the old wallet is
\* migrated, and the active one restored when none is in memory.
Load ==
    LET writes == Migration(disk)
        d == Last(writes)
        adopts == d.index # disk.index
    IN  /\ up /\ (adopts => nextId <= MaxWallets)
        /\ nextId' = IF adopts THEN nextId + 1 ELSE nextId
        /\ adopted' = IF adopts THEN nextId ELSE adopted
        /\ UNCHANGED cut
        /\ \/ /\ disk' = d
              /\ jobs' = jobs \cup RestoreJobs(d)
              /\ ready' = (ready \/ RestoreJobs(d) = {})
              /\ UNCHANGED <<foreign, up, secure, launches, loaded, live, duplicate, owned, removed>>
           \/ KilledIn(Interim(writes), {}) /\ UNCHANGED removed

\* restoreWallet's keys are derived; a blank address is filled in.
Restored(j) ==
    /\ up /\ j \in jobs /\ j.kind = "restore"
    /\ jobs' = jobs \ {j}
    /\ loaded' = [id |-> j.id, address |-> j.address]
    /\ ready' = TRUE
    /\ disk' = IF j.fill
                 THEN [disk EXCEPT !.index =
                          {IF e.id = j.id THEN [e EXCEPT !.address = j.address] ELSE e : e \in @}]
                 ELSE disk
    /\ UNCHANGED <<foreign, nextId, secure, launches, up, live, duplicate, history>>

(***************************************************************************)
(* Switching                                                                 *)
(***************************************************************************)

\* A row of the picker or of the Wallets tab, and the wallet an import was
\* refused for, which is offered whether or not it opens.
PickerUses(id) == PickerShown /\ Opens(disk, id)
RowSwitches(id) == AppShown /\ id # disk.active /\ Opens(disk, id)
DuplicateUses(id) == id = duplicate

\* switchWallet up to the derivation: the choice is saved before the seed is
\* read, and a seed that does not open leaves the keys in memory as they were.
SwitchStarts(d, id) ==
    /\ disk' = [d EXCEPT !.active = id]
    /\ jobs' = IF Opens(d, id)
                 THEN jobs \cup {Job("switch", id, <<d.files[id], Entry(d, id).path>>, FALSE)}
                 ELSE jobs

Switch(id) ==
    /\ ready /\ ~live /\ FormFree
    /\ id \in Stored(disk)
    /\ PickerUses(id) \/ RowSwitches(id) \/ DuplicateUses(id)
    /\ SwitchStarts(disk, id)
    /\ duplicate' = NoId
    /\ UNCHANGED <<foreign, nextId, secure, launches, up, ready, loaded, live, history>>

Switched(j) ==
    /\ up /\ j \in jobs /\ j.kind = "switch"
    /\ jobs' = jobs \ {j}
    /\ loaded' = [id |-> j.id, address |-> j.address]
    /\ UNCHANGED <<disk, foreign, nextId, secure, launches, up, ready, live, duplicate, history>>

(***************************************************************************)
(* Adding                                                                    *)
(***************************************************************************)

\* WALLET_IMPORT, for a typed or a generated phrase.
Import(seed) ==
    /\ ImportShown /\ FormFree /\ ~live
    /\ nextId <= MaxWallets
    /\ jobs' = jobs \cup {Job("import", NoId, <<seed, 0>>, FALSE)}
    /\ duplicate' = NoId
    /\ UNCHANGED <<disk, foreign, nextId, secure, launches, up, ready, loaded, live, history>>

\* addWalletEntry refuses: no keyring, or the address is stored already.
ImportRefused(j) ==
    /\ up /\ j \in jobs /\ j.kind = "import"
    /\ ~secure \/ Clashes(disk, j.address) # {}
    /\ jobs' = jobs \ {j}
    /\ duplicate' = IF secure THEN CHOOSE id \in Clashes(disk, j.address) : TRUE ELSE NoId
    /\ UNCHANGED <<disk, foreign, nextId, secure, launches, up, ready, loaded, live, history>>

Imported(j) ==
    LET writes == Addition(disk, nextId, j.address, 0)
        done == [Last(writes) EXCEPT !.active = nextId]
    IN  /\ up /\ j \in jobs /\ j.kind = "import"
        /\ secure /\ Clashes(disk, j.address) = {}
        /\ nextId <= MaxWallets /\ nextId' = nextId + 1
        /\ UNCHANGED <<cut, adopted>>
        /\ \/ /\ disk' = done
              /\ loaded' = [id |-> nextId, address |-> j.address]
              /\ jobs' = jobs \ {j}
              /\ owned' = owned \cup {j.address[1]}
              /\ removed' = removed \ {j.address[1]}
              /\ UNCHANGED <<foreign, secure, launches, up, ready, live, duplicate>>
           \/ KilledAdding({writes[i] : i \in DOMAIN writes}, j.address[1])

\* A path the preview does not grey out.
FreePath(id, path) == Clashes(disk, <<disk.files[id], path>>) = {}

\* The derive modal acts on a group of the Wallets tab; the saved-seed screen
\* derives the first path without a preview.
GroupDerives(id, path) == AppShown /\ id \in Stored(disk) /\ FreePath(id, path)
SavedSeedDerives(id, path) == SavedSeedShown /\ id = disk.retained /\ path = 0

\* WALLET_DERIVE_SUBACCOUNT.
Derive(id, path) ==
    /\ ready /\ FormFree
    /\ nextId <= MaxWallets
    /\ GroupDerives(id, path) \/ SavedSeedDerives(id, path)
    /\ IsSeedSource(disk, id) /\ Opens(disk, id)
    /\ jobs' = jobs \cup {Job("derive", id, <<disk.files[id], path>>, FALSE)}
    /\ UNCHANGED <<disk, foreign, nextId, secure, launches, up, ready, loaded, live, duplicate, history>>

DeriveRefused(j) ==
    /\ up /\ j \in jobs /\ j.kind = "derive"
    /\ Clashes(disk, j.address) # {}
    /\ jobs' = jobs \ {j}
    /\ UNCHANGED <<disk, foreign, nextId, secure, launches, up, ready, loaded, live, duplicate, history>>

\* The new entry has its own copy, so a retained source is dropped.
Derived(j) ==
    LET added == Addition(disk, nextId, j.address, j.address[2])
        undone == IF disk.retained = j.id THEN Unretained(Last(added)) ELSE <<Last(added)>>
        writes == added \o undone
    IN  /\ up /\ j \in jobs /\ j.kind = "derive"
        /\ Clashes(disk, j.address) = {}
        /\ nextId <= MaxWallets /\ nextId' = nextId + 1
        /\ UNCHANGED adopted
        /\ \/ /\ disk' = Last(writes)
              /\ jobs' = jobs \ {j}
              /\ owned' = owned \cup {j.address[1]}
              /\ removed' = removed \ {j.address[1]}
              /\ UNCHANGED <<foreign, secure, launches, up, ready, loaded, live, duplicate, cut>>
           \/ /\ KilledAdding(Interim(writes), j.address[1])
              /\ cut' = IF disk.retained = j.id THEN cut \cup {j.address[1]} ELSE cut

(***************************************************************************)
(* Removing                                                                  *)
(***************************************************************************)

\* Seeds no wallet but these holds a copy of that opens.
OnlyIn(ids) ==
    {disk.files[id] : id \in ids \ foreign}
        \ ({disk.files[id] : id \in Stored(disk) \ (ids \cup foreign)} \cup {NoSeed})

\* The delete modal opens on a wallet that is not active.
DeleteOffered(id) == AppShown /\ FormFree /\ id \in Stored(disk) /\ id # disk.active

\* WALLET_DELETE.
DeleteWallet(id) ==
    LET writes == Removal(disk, id, FALSE)
    IN  /\ DeleteOffered(id) /\ ~live
        /\ UNCHANGED <<nextId, cut, adopted>>
        /\ \/ /\ disk' = Last(writes)
              /\ owned' = owned \ OnlyIn({id})
              /\ removed' = removed \cup OnlyIn({id})
              /\ UNCHANGED <<foreign, secure, launches, memory>>
           \/ KilledIn(Interim(writes), OnlyIn({id})) /\ UNCHANGED removed

SameSeed_Alone(id) == {id}

\* The wallets whose files hold one phrase, as WALLET_DELETE_SEED recomputes them.
SameSeed(id) == {m \in Stored(disk) : Opens(disk, m) /\ disk.files[m] = disk.files[id]}

\* The interim disks of a loop of removals in index order, and of the one
\* wallet, if any, whose seed is kept and which therefore goes last.
RemovalLoop(d, gone, kept) ==
    (UNION {LET w == Removal(Without(d, gone \cap Earlier(d, id)), id, FALSE)
            IN  {w[i] : i \in DOMAIN w} : id \in gone})
    \cup (IF kept = NoId THEN {} ELSE Interim(Removal(Without(d, gone), kept, TRUE)))

\* logout, and the switch to the first remaining wallet that opens.
SuccessorOf(d) ==
    Smallest({id \in Stored(d) : Opens(d, id)})

Forget == loaded' = NoWallet

\* The remove modal offers to keep a seed when no other wallet is stored.
RemovalOffered(id, keepSeed) ==
    /\ AppShown /\ FormFree
    /\ id \in Stored(disk) /\ Opens(disk, id)
    /\ keepSeed => Stored(disk) = SameSeed(id)

DeleteSeed(id, keepSeed) ==
    LET members == SameSeed(id)
        kept == IF ~keepSeed THEN NoId
                ELSE IF disk.active \in members THEN disk.active
                ELSE Smallest(members)
        emptied == Without(disk, members \ {kept})
        done == IF kept = NoId THEN emptied ELSE Last(Removal(emptied, kept, TRUE))
        next == SuccessorOf(done)
        asked == IF keepSeed THEN {} ELSE {disk.files[id]}
    IN  /\ RemovalOffered(id, keepSeed) /\ ~live
        /\ UNCHANGED <<nextId, adopted>>
        /\ \/ /\ \/ disk.active \notin members /\ disk' = done /\ UNCHANGED <<jobs, loaded>>
                 \/ disk.active \in members /\ next # NoId /\ SwitchStarts(done, next) /\ UNCHANGED loaded
                 \/ disk.active \in members /\ next = NoId /\ Forget
                    /\ disk' = [done EXCEPT !.active = NoId] /\ UNCHANGED jobs
              /\ owned' = owned \ asked
              /\ removed' = removed \cup asked
              /\ UNCHANGED <<foreign, secure, launches, up, ready, live, duplicate, cut>>
           \/ /\ KilledIn(RemovalLoop(disk, members \ {kept}, kept) \cup {done}, asked)
              /\ UNCHANGED removed
              /\ cut' = IF keepSeed THEN cut \cup {disk.files[id]} ELSE cut

\* WALLET_DELETE_ALL, from the picker.
DeleteAll ==
    LET emptied == Without(disk, Stored(disk))
        writes == Unretained(emptied)
        asked == Reachable(disk)
    IN  /\ PickerShown /\ ~live
        /\ UNCHANGED <<nextId, cut, adopted>>
        /\ \/ /\ disk' = [Last(writes) EXCEPT !.active = NoId]
              /\ Forget
              /\ owned' = owned \ asked
              /\ removed' = removed \cup asked
              /\ UNCHANGED <<foreign, secure, launches, up, ready, jobs, live, duplicate>>
           \/ KilledIn(RemovalLoop(disk, Stored(disk), NoId) \cup {emptied} \cup Interim(writes), asked)
              /\ UNCHANGED removed

\* A session starts or ends.
SessionTurns ==
    /\ up /\ (live \/ loaded # NoWallet)
    /\ live' = ~live
    /\ UNCHANGED <<disk, foreign, nextId, secure, launches, up, ready, loaded, jobs, duplicate, history>>

-----------------------------------------------------------------------------

Profile(index, files, active, single) ==
    [index |-> index, active |-> active, retained |-> NoId, single |-> single,
     files |-> [id \in Ids |-> IF id \in DOMAIN files THEN files[id] ELSE NoSeed]]

OldEntry(id, seed) == [id |-> id, path |-> 0, address |-> <<seed, 0>>]

\* What a first launch of this version may find: nothing; the single-wallet
\* file; a profile copied from under the previous name (migrateLegacyUserData);
\* such a wallet imported again, before addresses were unique.
FirstDisk(d, old) ==
    \/ d = Profile({}, <<>>, NoId, NoSeed) /\ old = {}
    \/ \E s \in Seeds :
        \/ d = Profile({}, <<>>, NoId, s) /\ old = {}
        \/ \E f \in {s, NoSeed} : d = Profile({OldEntry(1, s)}, <<f>>, 1, NoSeed) /\ old = {1}
        \/ \E a \in {1, 2} :
             d = Profile({OldEntry(1, s), OldEntry(2, s)}, <<s, s>>, a, NoSeed) /\ old = {1}

Init ==
    /\ FirstDisk(disk, foreign)
    /\ nextId = Smallest({id \in Ids \cup {MaxWallets + 1} : id \notin Stored(disk)})
    /\ secure \in BOOLEAN
    /\ up = FALSE /\ ready = FALSE /\ live = FALSE
    /\ loaded = NoWallet /\ jobs = {} /\ duplicate = NoId /\ launches = 0
    /\ owned = Reachable(disk) /\ removed = {} /\ cut = {} /\ adopted = NoId

Next ==
    \/ Launch \/ Kill \/ Load \/ DeleteAll \/ SessionTurns
    \/ \E j \in jobs : Restored(j) \/ Switched(j) \/ ImportRefused(j) \/ Imported(j)
                       \/ DeriveRefused(j) \/ Derived(j)
    \/ \E id \in Ids : Switch(id) \/ DeleteWallet(id)
    \/ \E seed \in Seeds : Import(seed)
    \/ \E id \in Ids, path \in Paths : Derive(id, path)
    \/ \E id \in Ids, keepSeed \in BOOLEAN : DeleteSeed(id, keepSeed)

Spec == Init /\ [][Next]_vars

-----------------------------------------------------------------------------

\* Types.
TypeOK ==
    /\ disk \in Disk
    /\ foreign \subseteq Ids /\ nextId \in 1 .. MaxWallets + 1
    /\ up \in BOOLEAN /\ ready \in BOOLEAN /\ secure \in BOOLEAN /\ live \in BOOLEAN
    /\ duplicate \in Ids \cup {NoId}
    /\ owned \subseteq Seeds /\ removed \subseteq Seeds /\ cut \subseteq Seeds

\* However the process dies, a wallet that is listed has its own seed file, and
\* the file gives the address the list shows.
WalletsHaveSeeds ==
    \A e \in disk.index : e.id \notin foreign =>
        /\ disk.files[e.id] # NoSeed
        /\ e.address # Blank => e.address = <<disk.files[e.id], e.path>>

\* No address is listed twice once the application has started, but for the
\* wallet migrated from the single-wallet format, which can be imported again
\* before its address is known.
OneEntryPerAddress ==
    up => \A e, f \in disk.index :
        e # f /\ e.address = f.address /\ e.address # Blank => adopted \in {e.id, f.id}

\* A seed stays usable until the user asks to remove it, whatever is killed when,
\* but for a "Keep seed" that was itself cut in two and for a merge of
\* duplicates made while the keyring was unavailable.
SeedsStay == owned \ Reachable(disk) \subseteq cut

\* A seed the user was told is removed can be derived from no more.
RemovedIsGone == removed \cap Reachable(disk) \subseteq cut

\* "Import the same recovery phrase again", says the picker of a wallet that
\* cannot be unlocked; an import is never refused on account of such a wallet.
LockedComesBack == duplicate \notin foreign

\* dedupeWalletEntries never throws away the only working copy of a seed.
MergeKeepsACopy == [][~up => Reachable(disk) \subseteq Reachable(disk')]_vars

=============================================================================
