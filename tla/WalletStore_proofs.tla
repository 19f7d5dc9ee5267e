-------------------------- MODULE WalletStore_proofs --------------------------
(***************************************************************************)
(* Proofs about the wallets on the device, for every set of phrases and       *)
(* paths and any number of wallets and launches: however the process dies,    *)
(* a listed wallet has its seed, no seed the user keeps is lost, and none the  *)
(* user removed comes back.                                                   *)
(***************************************************************************)
EXTENDS WalletStore, WellFoundedInduction, SequenceTheorems, TLAPS

-----------------------------------------------------------------------------
(* Ids. *)

LEMMA IdFacts ==
    /\ Ids \subseteq Nat /\ NoId \notin Ids
    /\ MaxWallets \in Nat /\ MaxWallets + 1 \in Nat /\ MaxWallets + 1 \notin Ids
    /\ \A id \in Nat : id \in Ids <=> 1 <= id /\ id <= MaxWallets
BY WalletStoreAssumption DEF Ids, NoId

Below == {pair \in Nat \X Nat : pair[1] < pair[2]}

LEMMA BelowWellFounded == IsWellFoundedOn(Below, Nat)
BY NatLessThanWellFounded DEF OpToRel, Below

LEMMA BelowFacts == \A x, y \in Nat : <<x, y>> \in Below <=> x < y
BY DEF Below

LEMMA BlankFacts ==
    \A address \in Seeds \X Paths :
        address # Blank /\ address = <<address[1], address[2]>> /\ address[1] \in Seeds
        /\ address[2] \in Paths /\ address[1] # NoSeed
<1> TAKE address \in Seeds \X Paths
<1>1. Len(address) = 2 /\ Len(Blank) = 0
  BY DEF Blank
<1> QED
  BY <1>1, SeedsAssumption

LEMMA SmallestIn ==
    ASSUME NEW S, S \subseteq Nat, S # {}
    PROVE  Smallest(S) \in S /\ \A m \in S : Smallest(S) <= m
<1>1. PICK x \in S : \A y \in S : ~(<<y, x>> \in Below)
  BY BelowWellFounded, WFMin
<1>2. ASSUME NEW y \in S PROVE x <= y
  <2>1. x \in Nat /\ y \in Nat
    OBVIOUS
  <2>2. ~(y < x)
    BY <1>1, <2>1, BelowFacts
  <2> QED
    BY <2>1, <2>2
<1> QED
  BY <1>2 DEF Smallest

LEMMA SmallestId ==
    ASSUME NEW S, S \subseteq Ids
    PROVE  Smallest(S) \in S \cup {NoId} /\ (S # {} => Smallest(S) \in S)
BY SmallestIn, IdFacts DEF Smallest

-----------------------------------------------------------------------------
(* Disks. *)

\* A disk whose listed wallets have an id given out already and a seed file that
\* gives the address shown, and which retains the seed of no listed wallet.
DiskOK(d, n) ==
    /\ d \in Disk
    /\ \A e \in d.index : e.id < n
    /\ \A e, f \in d.index : e.id = f.id => e = f
    /\ d.retained # NoId => d.retained < n /\ d.retained \notin Stored(d)
    /\ \A e \in d.index : e.id \notin foreign =>
           /\ d.files[e.id] # NoSeed
           /\ e.address # Blank => e.address = <<d.files[e.id], e.path>>

\* The ids whose files some screen can still use.
Held(d) == Stored(d) \cup ({d.retained} \ {NoId})

LEMMA DiskFacts ==
    ASSUME NEW d \in Disk
    PROVE  /\ Stored(d) \subseteq Ids /\ Held(d) \subseteq Ids
           /\ d.index \subseteq Entries /\ d.files \in [Ids -> Seeds \cup {NoSeed}]
           /\ d.active \in Ids \cup {NoId} /\ d.retained \in Ids \cup {NoId}
           /\ d.single \in Seeds \cup {NoSeed}
           /\ \A e \in d.index : e.id \in Ids /\ e.path \in Paths
                                 /\ e.address \in {Blank} \cup (Seeds \X Paths)
BY DEF Disk, Stored, Held, Entries

LEMMA ReachableFacts ==
    ASSUME NEW d, NEW s
    PROVE  s \in Reachable(d) <=>
               s # NoSeed /\ (s = d.single \/ \E id \in Held(d) \ foreign : d.files[id] = s)
BY DEF Reachable, Held

LEMMA EntryFacts ==
    ASSUME NEW d, NEW n, DiskOK(d, n), NEW id \in Stored(d)
    PROVE  /\ Entry(d, id) \in d.index /\ Entry(d, id).id = id
           /\ \A e \in d.index : e.id = id => e = Entry(d, id)
BY DEF DiskOK, Stored, Entry

\* What removing wallets leaves, whichever of its writes were made.
Trimmed(d, new, gone) ==
    /\ new \in Disk /\ new.retained = d.retained /\ new.single = d.single
    /\ new.index \subseteq d.index
    /\ \A e \in d.index : e.id \notin gone => e \in new.index
    /\ \A id \in Ids : \/ new.files[id] = d.files[id]
                       \/ id \in gone /\ new.files[id] = NoSeed /\ id \notin Stored(new)

LEMMA TrimmedOK ==
    ASSUME NEW d, NEW n, DiskOK(d, n), NEW gone \in SUBSET Stored(d), NEW new,
           Trimmed(d, new, gone)
    PROVE  /\ DiskOK(new, n)
           /\ Reachable(new) \subseteq Reachable(d)
           /\ \A s \in Reachable(d) \ Reachable(new) :
                  \E id \in gone \ foreign : d.files[id] = s
<1>1. d \in Disk /\ new \in Disk /\ Stored(d) \subseteq Ids /\ Held(new) \subseteq Ids
      /\ Held(d) \subseteq Ids
  BY DiskFacts DEF DiskOK, Trimmed
<1>2. Stored(new) \subseteq Stored(d) /\ Held(new) \subseteq Held(d)
      /\ \A id \in Held(d) : id \notin gone => id \in Held(new)
  BY DEF Trimmed, Stored, Held
<1>3. \A id \in Held(new) : new.files[id] = d.files[id]
  <2>1. \A id \in gone : id \notin Stored(new) => id \notin Held(new)
    BY DEF DiskOK, Trimmed, Held
  <2> QED
    BY <1>1, <2>1 DEF Trimmed
<1>4. DiskOK(new, n)
  <2>1. \A e \in new.index : e \in d.index /\ e.id \in Stored(new) /\ e.id \in Ids
        /\ new.files[e.id] = d.files[e.id]
    BY <1>1, <1>3, DiskFacts DEF Trimmed, Stored, Held
  <2> QED
    BY <1>1, <1>2, <2>1 DEF DiskOK, Trimmed
<1>5. Reachable(new) \subseteq Reachable(d)
  BY <1>2, <1>3, ReachableFacts DEF Trimmed
<1>6. ASSUME NEW s \in Reachable(d) \ Reachable(new)
      PROVE  \E id \in gone \ foreign : d.files[id] = s
  <2>1. s # NoSeed /\ s # new.single
    BY <1>6, ReachableFacts
  <2>2. PICK id \in Held(d) \ foreign : d.files[id] = s
    BY <1>6, <2>1, ReachableFacts DEF Trimmed
  <2>3. id \in gone
    BY <1>2, <1>3, <1>6, <2>1, <2>2, ReachableFacts
  <2> QED
    BY <2>2, <2>3
<1> QED
  BY <1>4, <1>5, <1>6

LEMMA TrimmedAgain ==
    ASSUME NEW d, NEW new, NEW newer, NEW gone, NEW more,
           Trimmed(d, new, gone), Trimmed(new, newer, more)
    PROVE  Trimmed(d, newer, gone \cup more)
BY DEF Trimmed, Stored

LEMMA ActiveMoves ==
    ASSUME NEW d, NEW new, NEW gone, Trimmed(d, new, gone), NEW id \in Ids \cup {NoId}
    PROVE  Trimmed(d, [new EXCEPT !.active = id], gone)
BY DEF Trimmed, Disk, Stored

LEMMA WithoutTrims ==
    ASSUME NEW d \in Disk, NEW gone
    PROVE  Trimmed(d, Without(d, gone), gone) /\ Stored(Without(d, gone)) = Stored(d) \ gone
<1> DEFINE rest == {e \in d.index : e.id \notin gone}
           active == IF d.active \in gone THEN Smallest({e.id : e \in rest}) ELSE d.active
           files == [id \in Ids |-> IF id \in gone THEN NoSeed ELSE d.files[id]]
<1>1. Without(d, gone) = [d EXCEPT !.index = rest, !.files = files, !.active = active]
  BY DEF Without
<1>2. {e.id : e \in rest} \subseteq Ids
  BY DiskFacts
<1>3. active \in Ids \cup {NoId}
  BY <1>2, SmallestId, DiskFacts
<1>4. files \in [Ids -> Seeds \cup {NoSeed}] /\ rest \subseteq d.index
  BY DiskFacts
<1> HIDE DEF active, files
<1>5. Without(d, gone) \in Disk /\ Without(d, gone).index = rest
      /\ Without(d, gone).files = files /\ Without(d, gone).retained = d.retained
      /\ Without(d, gone).single = d.single
  BY <1>1, <1>3, <1>4 DEF Disk
<1>6. Stored(Without(d, gone)) = Stored(d) \ gone
  BY <1>5 DEF Stored
<1> QED
  BY <1>5, <1>6 DEF Trimmed, files

LEMMA LastInterim ==
    \A a, b, c, x, y :
        /\ Last(<<a>>) = a /\ Interim(<<a>>) = {}
        /\ Last(<<a, b, c>>) = c /\ Interim(<<a, b, c>>) = {a, b}
        /\ Last(<<a, b, c, x>>) = x /\ Interim(<<a, b, c, x>>) = {a, b, c}
        /\ Last(<<x, y>>) = y /\ Interim(<<x, y>>) = {x}
        /\ Last(<<a, b, c>> \o <<x>>) = x /\ Interim(<<a, b, c>> \o <<x>>) = {a, b, c}
        /\ Last(<<a, b, c>> \o <<x, y>>) = y /\ Interim(<<a, b, c>> \o <<x, y>>) = {a, b, c, x}
<1> TAKE a, b, c, x, y
<1>1. \A i : i \in 1 .. 0 <=> FALSE
  OBVIOUS
<1>2. 1 .. 1 = {1} /\ 1 .. 2 = {1, 2} /\ 1 .. 3 = {1, 2, 3} /\ 1 .. 4 = {1, 2, 3, 4}
  OBVIOUS
<1>3. Last(<<a>>) = a /\ Interim(<<a>>) = {}
  BY <1>1 DEF Last, Interim
<1>4. Last(<<a, b, c>>) = c /\ Interim(<<a, b, c>>) = {a, b}
  BY <1>2 DEF Last, Interim
<1>5. Last(<<a, b, c, x>>) = x /\ Interim(<<a, b, c, x>>) = {a, b, c}
  BY <1>2 DEF Last, Interim
<1>6. Last(<<x, y>>) = y /\ Interim(<<x, y>>) = {x}
  BY <1>2 DEF Last, Interim
<1> DEFINE S == {a, b, c, x, y}
           three == <<a, b, c>>
           one == <<x>>
           two == <<x, y>>
<1>7. /\ three \in Seq(S) /\ Len(three) = 3 /\ three[1] = a /\ three[2] = b /\ three[3] = c
      /\ one \in Seq(S) /\ Len(one) = 1 /\ one[1] = x
      /\ two \in Seq(S) /\ Len(two) = 2 /\ two[1] = x /\ two[2] = y
  OBVIOUS
<1> HIDE DEF three, one, two, S
<1>8. Last(three \o one) = x /\ Interim(three \o one) = {a, b, c}
  <2> DEFINE t == three \o one
  <2>1. Len(t) = 4 /\ \A i \in 1 .. 4 : t[i] = IF i <= 3 THEN three[i] ELSE one[i - 3]
    <3>1. Len(t) = Len(three) + Len(one)
          /\ \A i \in 1 .. Len(three) + Len(one) :
                 t[i] = IF i <= Len(three) THEN three[i] ELSE one[i - Len(three)]
      BY <1>7, ConcatProperties
    <3> QED
      BY <1>7, <3>1
  <2>2. t[1] = a /\ t[2] = b /\ t[3] = c /\ t[4] = x
    BY <1>7, <2>1
  <2> HIDE DEF t
  <2> QED
    BY <1>2, <2>1, <2>2 DEF Last, Interim, t
<1>9. Last(three \o two) = y /\ Interim(three \o two) = {a, b, c, x}
  <2> DEFINE t == three \o two
  <2>1. Len(t) = 5 /\ \A i \in 1 .. 5 : t[i] = IF i <= 3 THEN three[i] ELSE two[i - 3]
    <3>1. Len(t) = Len(three) + Len(two)
          /\ \A i \in 1 .. Len(three) + Len(two) :
                 t[i] = IF i <= Len(three) THEN three[i] ELSE two[i - Len(three)]
      BY <1>7, ConcatProperties
    <3> QED
      BY <1>7, <3>1
  <2>2. t[1] = a /\ t[2] = b /\ t[3] = c /\ t[4] = x /\ t[5] = y
    BY <1>7, <2>1
  <2> HIDE DEF t
  <2> QED
    BY <1>2, <2>1, <2>2 DEF Last, Interim, t
<1> QED
  BY <1>3, <1>4, <1>5, <1>6, <1>8, <1>9 DEF three, one, two

Writes(s) == {s[i] : i \in DOMAIN s}

LEMMA ThreeWrites == \A a, b, c : Writes(<<a, b, c>>) = {a, b, c}
<1> TAKE a, b, c
<1>1. DOMAIN <<a, b, c>> = {1, 2, 3}
  <2>1. DOMAIN <<a, b, c>> = 1 .. 3
    OBVIOUS
  <2> QED
    BY <2>1
<1> QED
  BY <1>1 DEF Writes

\* The seed is removed with the wallet.
Removes(d, new, id) == Trimmed(d, new, {id}) /\ new.index = {e \in d.index : e.id # id}

LEMMA RemovalTrims ==
    ASSUME NEW d \in Disk, NEW id \in Stored(d)
    PROVE  \E a, b, c :
               /\ Removal(d, id, FALSE) = <<a, b, c>>
               /\ Removes(d, a, id) /\ Removes(d, b, id) /\ Removes(d, c, id)
<1> DEFINE rest == {e \in d.index : e.id # id}
           indexed == [d EXCEPT !.index = rest]
           sealed == [indexed EXCEPT !.files[id] = NoSeed]
           done == [sealed EXCEPT !.active = Smallest(Stored(indexed))]
           last == IF d.active = id THEN done ELSE sealed
<1>1. Removal(d, id, FALSE) = <<indexed, sealed, last>>
  BY DEF Removal
<1>2. id \in Ids /\ rest \subseteq d.index /\ rest \subseteq Entries
  BY DiskFacts
<1>3. indexed \in Disk /\ indexed.index = rest /\ indexed.files = d.files
      /\ indexed.retained = d.retained /\ indexed.single = d.single
  BY <1>2 DEF Disk
<1>4. Trimmed(d, indexed, {id})
  BY <1>3 DEF Trimmed
<1>5. id \notin Stored(indexed) /\ Stored(indexed) \subseteq Ids
  BY <1>3, DiskFacts DEF Stored
<1> HIDE DEF indexed, rest
<1>6. sealed = [indexed EXCEPT !.files = [d.files EXCEPT ![id] = NoSeed]]
  BY <1>3
<1>7. [d.files EXCEPT ![id] = NoSeed] \in [Ids -> Seeds \cup {NoSeed}]
  BY <1>2, DiskFacts
<1>8. sealed \in Disk /\ sealed.index = rest /\ sealed.files = [d.files EXCEPT ![id] = NoSeed]
      /\ sealed.retained = d.retained /\ sealed.single = d.single
  BY <1>3, <1>6, <1>7 DEF Disk
<1>9. Stored(sealed) = Stored(indexed)
  BY <1>3, <1>8 DEF Stored
<1>10. Trimmed(d, sealed, {id})
  <2>1. d.files \in [Ids -> Seeds \cup {NoSeed}] /\ rest \subseteq d.index
        /\ \A e \in d.index : e.id \notin {id} => e \in rest
    BY DiskFacts DEF rest
  <2> QED
    BY <1>5, <1>8, <1>9, <2>1 DEF Trimmed
<1> HIDE DEF sealed
<1>11. Trimmed(d, done, {id}) /\ done.index = rest
  <2>1. Smallest(Stored(indexed)) \in Ids \cup {NoId}
    BY <1>5, SmallestId
  <2> QED
    BY <2>1, <1>8, <1>10, ActiveMoves DEF Disk
<1> HIDE DEF done
<1>12. \A w \in {indexed, sealed, last} : Trimmed(d, w, {id}) /\ w.index = rest
  BY <1>3, <1>4, <1>8, <1>10, <1>11
<1>13. Removes(d, indexed, id) /\ Removes(d, sealed, id) /\ Removes(d, last, id)
  BY <1>12 DEF rest, Removes
<1> HIDE DEF last
<1> QED
  BY <1>1, <1>13

\* The last wallet is removed and its seed kept.
Keeps(d, new, id) ==
    /\ new \in Disk /\ new.index = {} /\ new.files = d.files /\ new.single = d.single
    /\ new.retained = id

LEMMA RemovalKeeps ==
    ASSUME NEW d \in Disk, NEW id \in Ids, Stored(d) = {id}
    PROVE  \E a, b, c : /\ Removal(d, id, TRUE) = <<a, b, c>>
                        /\ Trimmed(d, a, {id}) /\ Keeps(d, b, id) /\ Keeps(d, c, id)
<1> DEFINE rest == {e \in d.index : e.id # id}
           indexed == [d EXCEPT !.index = rest]
           sealed == [indexed EXCEPT !.retained = id]
           done == [sealed EXCEPT !.active = Smallest(Stored(indexed))]
           last == IF d.active = id THEN done ELSE sealed
<1>1. rest = {}
  BY DEF Stored
<1>2. Removal(d, id, TRUE) = <<indexed, sealed, last>>
  BY <1>1 DEF Removal
<1>3. indexed \in Disk /\ indexed.index = {} /\ indexed.files = d.files
      /\ indexed.retained = d.retained /\ indexed.single = d.single
  BY <1>1 DEF Disk
<1>4. Trimmed(d, indexed, {id})
  BY <1>1, <1>3 DEF Trimmed
<1>5. Stored(indexed) = {}
  BY <1>3 DEF Stored
<1> HIDE DEF indexed
<1>6. Keeps(d, sealed, id)
  BY <1>3 DEF Keeps, Disk
<1>7. Keeps(d, done, id)
  <2>1. Smallest(Stored(indexed)) \in Ids \cup {NoId}
    BY <1>5, SmallestId
  <2>2. sealed \in Disk
    BY <1>6 DEF Keeps
  <2> HIDE DEF sealed
  <2>3. done \in Disk /\ done.index = sealed.index /\ done.files = sealed.files
        /\ done.single = sealed.single /\ done.retained = sealed.retained
    BY <2>1, <2>2 DEF Disk
  <2> QED
    BY <2>3, <1>6 DEF Keeps
<1> HIDE DEF sealed, done
<1>8. Keeps(d, last, id)
  BY <1>6, <1>7
<1> HIDE DEF last
<1> QED
  BY <1>2, <1>4, <1>6, <1>8

\* The retained seed is dropped.
Drops(d, new) ==
    /\ new \in Disk /\ new.index = d.index /\ new.single = d.single
    /\ new.retained \in {d.retained, NoId}
    /\ \A id \in Ids : \/ new.files[id] = d.files[id]
                       \/ id = d.retained /\ new.files[id] = NoSeed

LEMMA UnretainedDrops ==
    ASSUME NEW d \in Disk, d.retained \in Ids
    PROVE  \E a, b : /\ Unretained(d) = <<a, b>>
                     /\ Drops(d, a) /\ a.retained = d.retained /\ a.files[d.retained] = NoSeed
                     /\ Drops(d, b) /\ b.retained = NoId
<1> DEFINE files == [d.files EXCEPT ![d.retained] = NoSeed]
           sealed == [d EXCEPT !.files = files]
           done == [sealed EXCEPT !.retained = NoId]
<1>1. Unretained(d) = <<sealed, done>>
  <2>1. d.retained # NoId
    BY IdFacts
  <2> QED
    BY <2>1 DEF Unretained
<1>2. files \in [Ids -> Seeds \cup {NoSeed}] /\ files[d.retained] = NoSeed
      /\ \A id \in Ids : files[id] = d.files[id] \/ (id = d.retained /\ files[id] = NoSeed)
  BY DiskFacts
<1> HIDE DEF files
<1>3. sealed \in Disk /\ sealed.index = d.index /\ sealed.single = d.single
      /\ sealed.retained = d.retained /\ sealed.files = files
  BY <1>2 DEF Disk
<1> HIDE DEF sealed
<1>4. done \in Disk /\ done.index = d.index /\ done.single = d.single
      /\ done.retained = NoId /\ done.files = files
  BY <1>3 DEF Disk
<1> HIDE DEF done
<1>5. Drops(d, sealed) /\ Drops(d, done)
  BY <1>2, <1>3, <1>4 DEF Drops
<1> QED
  BY <1>1, <1>2, <1>3, <1>4, <1>5

LEMMA DropsOK ==
    ASSUME NEW d, NEW n, DiskOK(d, n), d.retained \in Ids, NEW new, Drops(d, new)
    PROVE  /\ DiskOK(new, n)
           /\ Reachable(new) \subseteq Reachable(d)
           /\ \A s \in Reachable(d) \ Reachable(new) : s = d.files[d.retained]
<1>1. d \in Disk /\ new \in Disk /\ Stored(d) \subseteq Ids /\ Stored(new) = Stored(d)
      /\ Held(d) \subseteq Ids /\ Held(new) \subseteq Held(d)
      /\ \A id \in Held(d) : id # d.retained => id \in Held(new)
  BY DiskFacts DEF DiskOK, Drops, Stored, Held
<1>2. d.retained \notin Stored(d) /\ d.retained < n /\ d.retained # NoId
  BY IdFacts DEF DiskOK
<1>3. \A id \in Stored(d) : new.files[id] = d.files[id]
  BY <1>1, <1>2 DEF Drops
<1>4. DiskOK(new, n)
  <2>1. \A e \in new.index : e \in d.index /\ e.id \in Stored(d) /\ new.files[e.id] = d.files[e.id]
    BY <1>1, <1>3 DEF Drops, Stored
  <2> QED
    BY <1>1, <1>2, <2>1 DEF DiskOK, Drops
<1>5. Reachable(new) \subseteq Reachable(d)
  <2>1. \A id \in Held(new) : new.files[id] # NoSeed => new.files[id] = d.files[id]
    BY <1>1 DEF Drops
  <2> QED
    BY <1>1, <2>1, ReachableFacts DEF Drops
<1>6. ASSUME NEW s \in Reachable(d) \ Reachable(new)
      PROVE  s = d.files[d.retained]
  <2>1. s # NoSeed /\ s # new.single
    BY <1>6, ReachableFacts
  <2>2. PICK id \in Held(d) \ foreign : d.files[id] = s
    BY <1>6, <2>1, ReachableFacts DEF Drops
  <2>3. id # d.retained => id \in Held(new) /\ new.files[id] = s
    BY <1>1, <2>2 DEF Drops
  <2> QED
    BY <1>6, <2>1, <2>2, <2>3, ReachableFacts
<1> QED
  BY <1>4, <1>5, <1>6

\* A wallet is added, or its file only.
Grows(d, new, entry) ==
    /\ new \in Disk /\ new.retained = d.retained /\ new.single = d.single
    /\ new.index \in {d.index, d.index \cup {entry}}
    /\ \A id \in Ids : id # entry.id => new.files[id] = d.files[id]
    /\ new.files[entry.id] = entry.address[1]

NewEntry(n, address) == [id |-> n, path |-> address[2], address |-> address]

LEMMA AdditionGrows ==
    ASSUME NEW d \in Disk, NEW n \in Ids, NEW address \in Seeds \X Paths
    PROVE  \E a, b, c :
               /\ Addition(d, n, address, address[2]) = <<a, b, c>>
               /\ \A w \in {a, b, c} : Grows(d, w, NewEntry(n, address))
               /\ a.index = d.index
               /\ b.index = d.index \cup {NewEntry(n, address)}
               /\ c.index = d.index \cup {NewEntry(n, address)}
<1> DEFINE entry == NewEntry(n, address)
           files == [d.files EXCEPT ![n] = address[1]]
           filed == [d EXCEPT !.files = files]
           indexed == [filed EXCEPT !.index = d.index \cup {entry}]
           active == [indexed EXCEPT !.active = n]
           last == IF d.active = NoId THEN active ELSE indexed
<1>1. files \in [Ids -> Seeds \cup {NoSeed}] /\ files[n] = address[1]
      /\ \A id \in Ids : id # n => files[id] = d.files[id]
  BY DiskFacts
<1>2. entry \in Entries /\ entry.id = n /\ entry.address = address
  BY DEF NewEntry, Entries
<1> HIDE DEF files
<1>3. filed \in Disk /\ filed.index = d.index /\ filed.files = files
      /\ filed.retained = d.retained /\ filed.single = d.single /\ filed.active = d.active
  BY <1>1 DEF Disk
<1> HIDE DEF entry
<1>4. d.index \cup {entry} \in SUBSET Entries
  BY <1>2, DiskFacts
<1>5. Addition(d, n, address, address[2]) = <<filed, indexed, last>>
  BY <1>3 DEF Addition, entry, NewEntry, files
<1> HIDE DEF filed
<1>6. indexed \in Disk /\ indexed.index = d.index \cup {entry} /\ indexed.files = files
      /\ indexed.retained = d.retained /\ indexed.single = d.single
  BY <1>3, <1>4 DEF Disk
<1> HIDE DEF indexed
<1>7. active \in Disk /\ active.index = d.index \cup {entry} /\ active.files = files
      /\ active.retained = d.retained /\ active.single = d.single
  BY <1>6 DEF Disk
<1> HIDE DEF active
<1>8. last \in {indexed, active}
  OBVIOUS
<1> HIDE DEF last
<1>9. /\ Grows(d, filed, entry) /\ Grows(d, last, entry) /\ Grows(d, indexed, entry)
      /\ last.index = d.index \cup {entry}
  BY <1>1, <1>2, <1>3, <1>6, <1>7, <1>8 DEF Grows
<1> QED
  BY <1>3, <1>5, <1>6, <1>9 DEF entry

LEMMA GrowsOK ==
    ASSUME NEW d, NEW n \in Ids, DiskOK(d, n), n \notin foreign, NEW address \in Seeds \X Paths,
           NEW new, Grows(d, new, NewEntry(n, address))
    PROVE  /\ DiskOK(new, n + 1)
           /\ Reachable(d) \subseteq Reachable(new)
           /\ Reachable(new) \subseteq Reachable(d) \cup {address[1]}
           /\ n \in Stored(new) => address[1] \in Reachable(new)
<1> DEFINE entry == NewEntry(n, address)
<1>1. entry.id = n /\ entry.path = address[2] /\ entry.address = address
      /\ address = <<address[1], address[2]>> /\ address[1] \in Seeds /\ address[1] # NoSeed
  BY SeedsAssumption DEF NewEntry
<1> HIDE DEF entry
<1>2. Grows(d, new, entry)
  BY DEF entry
<1>3. d \in Disk /\ new \in Disk /\ n \in Nat
  BY <1>2, IdFacts DEF Grows, DiskOK
<1>4. n \notin Stored(d) /\ d.retained # n
  BY <1>3, IdFacts DEF DiskOK, Stored
<1>5. Stored(d) \subseteq Ids /\ d.retained \in Ids \cup {NoId} /\ Held(d) \subseteq Ids
      /\ \A e \in d.index : e.id \in Ids
  BY <1>3, DiskFacts
<1>6. Stored(new) \in {Stored(d), Stored(d) \cup {n}}
  BY <1>1, <1>2 DEF Grows, Stored
<1>7. Held(new) \in {Held(d), Held(d) \cup {n}} /\ n \notin Held(d)
  BY <1>2, <1>4, <1>6 DEF Held, Grows
<1>8. \A id \in Held(d) : new.files[id] = d.files[id]
  BY <1>1, <1>2, <1>5, <1>7 DEF Grows
<1>9. DiskOK(new, n + 1)
  <2>1. \A e \in new.index : e = entry \/ (e \in d.index /\ e.id \in Held(d) /\ e.id # n)
    BY <1>2, <1>4 DEF Grows, Stored, Held
  <2>2. \A e \in new.index : e.id < n + 1
    <3>1. \A e \in d.index : e.id < n /\ e.id \in Nat
      BY <1>5, IdFacts DEF DiskOK
    <3> QED
      BY <1>1, <1>3, <2>1, <3>1
  <2>3. \A e, f \in new.index : e.id = f.id => e = f
    BY <1>1, <2>1 DEF DiskOK
  <2>4. new.retained # NoId => new.retained < n + 1 /\ new.retained \notin Stored(new)
    <3>1. d.retained # NoId => d.retained < n /\ d.retained \in Nat /\ d.retained \notin Stored(d)
      BY <1>5, IdFacts DEF DiskOK
    <3>2. new.retained = d.retained
      BY <1>2 DEF Grows
    <3> QED
      BY <1>3, <1>4, <1>6, <3>1, <3>2
  <2>5. ASSUME NEW e \in new.index, e.id \notin foreign
        PROVE  new.files[e.id] # NoSeed /\ (e.address # Blank => e.address = <<new.files[e.id], e.path>>)
    <3>1. CASE e = entry
      BY <1>1, <1>2, <3>1 DEF Grows
    <3>2. CASE e \in d.index /\ e.id \in Held(d)
      BY <1>8, <2>5, <3>2 DEF DiskOK
    <3> QED
      BY <2>1, <3>1, <3>2
  <2> QED
    BY <1>3, <2>2, <2>3, <2>4, <2>5 DEF DiskOK
<1>10. new.single = d.single /\ new.files[n] = address[1]
  BY <1>1, <1>2 DEF Grows
<1>11. Reachable(d) \subseteq Reachable(new)
  BY <1>7, <1>8, <1>10, ReachableFacts
<1>12. Reachable(new) \subseteq Reachable(d) \cup {address[1]}
  BY <1>7, <1>8, <1>10, ReachableFacts
<1>13. n \in Stored(new) => address[1] \in Reachable(new)
  BY <1>1, <1>10, ReachableFacts DEF Held
<1> QED
  BY <1>9, <1>11, <1>12, <1>13

LEMMA TrimmedFiles ==
    ASSUME NEW d, NEW n, DiskOK(d, n), NEW gone \in SUBSET Stored(d), NEW new,
           Trimmed(d, new, gone)
    PROVE  /\ Stored(new) \subseteq Stored(d) /\ Held(new) \subseteq Held(d)
           /\ \A id \in Held(new) : id \in Ids /\ new.files[id] = d.files[id]
           /\ \A id \in Held(d) : id \notin gone => id \in Held(new)
<1>1. d \in Disk /\ new \in Disk /\ Held(d) \subseteq Ids /\ Held(new) \subseteq Ids
  BY DiskFacts DEF DiskOK, Trimmed
<1>2. Stored(new) \subseteq Stored(d) /\ Held(new) \subseteq Held(d)
      /\ \A id \in Held(d) : id \notin gone => id \in Held(new)
  BY DEF Trimmed, Stored, Held
<1>3. \A id \in gone : id \notin Stored(new) => id \notin Held(new)
  BY DEF DiskOK, Trimmed, Held
<1> QED
  BY <1>1, <1>2, <1>3 DEF Trimmed

-----------------------------------------------------------------------------
(* The invariant. *)

DiskInv ==
    /\ DiskOK(disk, nextId)
    /\ foreign \subseteq Ids /\ nextId \in Nat /\ \A id \in foreign : id < nextId

RunInv == ready \/ jobs # {} => up

\* What a job will write, or what it read of the disk and still relies on.
JobOK(j) ==
    /\ j.kind = "restore" =>
           /\ j.id \in Ids \ foreign /\ j.id < nextId /\ j.address \in Seeds \X Paths
           /\ \A e \in disk.index : e.id = j.id => j.address = <<disk.files[e.id], e.path>>
    /\ j.kind = "import" => j.address \in Seeds \X {0}
    /\ j.kind = "derive" =>
           /\ secure /\ j.id \in Ids /\ j.address \in Seeds \X Paths
           /\ disk.retained = j.id => disk.files[j.id] = j.address[1]

JobInv == \A j \in jobs : JobOK(j)

\* The single-wallet file is there beside its migrated copy, if beside any
\* wallet, and until the store is first read.
SingleInv ==
    disk.single # NoSeed =>
        /\ disk.retained = NoId
        /\ \A e \in disk.index : e.id \notin foreign /\ disk.files[e.id] = disk.single
        /\ ready \/ jobs # {} => disk.index = {} /\ ~secure

\* No seed is retained beside wallets, but for one a crash left.
Unkept == disk.retained = NoId \/ disk.files[disk.retained] \in cut \cup {NoSeed}

KeptInv ==
    /\ disk.index # {} => Unkept
    /\ \A j \in jobs : /\ j.kind = "import" => Unkept
                       /\ j.kind = "derive" => Unkept \/ disk.retained = j.id

BlankInv == \A e \in disk.index : e.address = Blank => e.id = adopted

Core == DiskInv /\ RunInv /\ JobInv /\ SingleInv /\ KeptInv /\ BlankInv

LEMMA Primes ==
    ASSUME foreign' = foreign
    PROVE  /\ DiskInv' <=> /\ DiskOK(disk', nextId')
                           /\ foreign \subseteq Ids /\ nextId' \in Nat
                           /\ \A id \in foreign : id < nextId'
           /\ Reachable(disk)' = Reachable(disk')
BY DEF DiskInv, DiskOK, Reachable, Stored

\* What becomes of the program when an operation writes: it dies, or goes on with
\* no job but a switch begun.
Quiet ==
    \/ ~ready' /\ jobs' = {}
    \/ /\ up' = up /\ (ready' => ready \/ jobs # {}) /\ secure' = secure
       /\ \A j \in jobs' : j \in jobs \/ (j.kind = "switch" /\ ready)

LEMMA QuietRuns ==
    ASSUME RunInv, Quiet
    PROVE  /\ RunInv'
           /\ ready' \/ jobs' # {} => (ready \/ jobs # {}) /\ secure' = secure
           /\ \A j \in jobs' : j \in jobs \/ j.kind = "switch"
BY DEF RunInv, Quiet

LEMMA TrimCore ==
    ASSUME Core, NEW gone \in SUBSET Stored(disk), Trimmed(disk, disk', gone),
           foreign' = foreign, nextId' = nextId, adopted' = adopted, cut \subseteq cut', Quiet
    PROVE  Core'
<1>1. DiskOK(disk, nextId) /\ RunInv
  BY DEF Core, DiskInv
<1>2. DiskInv'
  BY <1>1, TrimmedOK, Primes DEF Core, DiskInv
<1>3. /\ RunInv'
      /\ ready' \/ jobs' # {} => (ready \/ jobs # {}) /\ secure' = secure
      /\ \A j \in jobs' : j \in jobs \/ j.kind = "switch"
  BY <1>1, QuietRuns
<1>4. /\ disk'.retained = disk.retained /\ disk'.single = disk.single
      /\ disk'.index \subseteq disk.index
  BY DEF Trimmed
<1>5. /\ \A e \in disk'.index : disk'.files[e.id] = disk.files[e.id]
      /\ disk.retained # NoId => disk'.files[disk.retained] = disk.files[disk.retained]
  <2>1. (\A e \in disk'.index : e.id \in Held(disk'))
        /\ (disk.retained # NoId => disk.retained \in Held(disk'))
    BY <1>4 DEF Held, Stored
  <2>2. \A id \in Held(disk') : disk'.files[id] = disk.files[id]
    BY <1>1, TrimmedFiles
  <2> QED
    BY <2>1, <2>2
<1>6. JobInv'
  <2> SUFFICES ASSUME NEW j \in jobs' PROVE JobOK(j)'
    BY DEF JobInv
  <2>1. CASE j.kind = "switch"
    BY <2>1 DEF JobOK
  <2>2. CASE j \in jobs
    <3>1. JobOK(j) /\ secure' = secure
      BY <1>3, <2>2 DEF Core, JobInv
    <3>2. j.kind = "derive" => NoId # j.id
      BY <3>1, IdFacts DEF JobOK
    <3> QED
      BY <1>4, <1>5, <3>1, <3>2 DEF JobOK
  <2> QED
    BY <1>3, <2>1, <2>2
<1>7. SingleInv'
  BY <1>3, <1>4, <1>5 DEF Core, SingleInv
<1>8. Unkept => Unkept'
  BY <1>4, <1>5 DEF Unkept
<1>9. KeptInv'
  BY <1>3, <1>4, <1>8 DEF Core, KeptInv
<1>10. BlankInv'
  BY <1>4 DEF Core, BlankInv
<1> QED
  BY <1>2, <1>3, <1>6, <1>7, <1>9, <1>10 DEF Core

LEMMA SameTrims ==
    ASSUME NEW d \in Disk
    PROVE  Trimmed(d, d, {})
BY DEF Trimmed

\* The last wallet goes, and its seed may be kept.
LEMMA EmptyCore ==
    ASSUME Core, disk' \in Disk, disk'.index = {}, disk'.single = NoSeed,
           disk'.retained # NoId => disk'.retained < nextId,
           jobs' # {} => disk'.retained = NoId \/ \A j \in jobs : j.kind \notin {"import", "derive"},
           foreign' = foreign, nextId' = nextId, Quiet
    PROVE  Core'
<1>1. /\ RunInv'
      /\ ready' \/ jobs' # {} => (ready \/ jobs # {}) /\ secure' = secure
      /\ \A j \in jobs' : j \in jobs \/ j.kind = "switch"
  BY QuietRuns DEF Core
<1>2. DiskInv'
  <2>1. Stored(disk') = {}
    BY DEF Stored
  <2>2. DiskOK(disk', nextId)
    BY <2>1 DEF DiskOK
  <2> QED
    BY <2>2, Primes DEF Core, DiskInv
<1>3. JobInv'
  <2> SUFFICES ASSUME NEW j \in jobs' PROVE JobOK(j)'
    BY DEF JobInv
  <2>1. CASE j.kind = "switch"
    BY <2>1 DEF JobOK
  <2>2. CASE j \in jobs
    <3>1. JobOK(j) /\ secure' = secure
      BY <1>1, <2>2 DEF Core, JobInv
    <3>2. j.kind = "derive" => disk'.retained = NoId /\ NoId # j.id
      BY <2>2, <3>1, IdFacts DEF JobOK
    <3> QED
      BY <3>1, <3>2 DEF JobOK
  <2> QED
    BY <1>1, <2>1, <2>2
<1>4. SingleInv' /\ BlankInv'
  BY DEF SingleInv, BlankInv
<1>5. KeptInv'
  <2>1. ASSUME NEW j \in jobs', j.kind \in {"import", "derive"} PROVE Unkept'
    BY <1>1, <2>1 DEF Unkept
  <2> QED
    BY <2>1 DEF KeptInv
<1> QED
  BY <1>1, <1>2, <1>3, <1>4, <1>5 DEF Core

\* A wallet is added, or only its file.
LEMMA GrowCore ==
    ASSUME Core, nextId \in Ids, NEW address \in Seeds \X Paths,
           NEW g, Grows(disk, g, NewEntry(nextId, address)),
           disk' = g \/ (disk.retained \in Ids /\ Drops(g, disk')),
           disk'.index # {} => Unkept',
           disk'.index # disk.index => disk.single = NoSeed,
           \A j \in jobs' : j \in jobs /\ (j.kind = "import" => Unkept')
                            /\ (j.kind = "derive" => Unkept' \/ disk'.retained = j.id),
           jobs' # {} => secure' = secure /\ (disk' = g \/ disk'.retained = NoId),
           ready' \/ jobs' # {} => up',
           ready' => ready /\ secure' = secure,
           foreign' = foreign, nextId' = nextId + 1, adopted' = adopted
    PROVE  Core'
<1> DEFINE entry == NewEntry(nextId, address)
<1>1. entry.id = nextId /\ entry.path = address[2] /\ entry.address = address
      /\ entry.address # Blank /\ address = <<address[1], address[2]>>
  BY BlankFacts DEF NewEntry
<1> HIDE DEF entry
<1>2. Grows(disk, g, entry)
  BY DEF entry
<1>3. DiskOK(disk, nextId) /\ nextId \notin foreign /\ nextId \in Nat
      /\ foreign \subseteq Ids /\ \A id \in foreign : id < nextId
  BY IdFacts DEF Core, DiskInv
<1>4. DiskOK(g, nextId + 1)
  BY <1>3, GrowsOK
<1>5. g.retained = disk.retained /\ g.single = disk.single
      /\ g.index \in {disk.index, disk.index \cup {entry}}
  BY <1>2 DEF Grows
<1>6. DiskOK(disk', nextId + 1)
  BY <1>4, <1>5, DropsOK
<1>7. DiskInv'
  <2>1. \A id \in foreign : id < nextId + 1
    <3> SUFFICES ASSUME NEW id \in foreign PROVE id < nextId + 1
      OBVIOUS
    <3>1. id \in Nat /\ id < nextId
      BY <1>3, IdFacts
    <3> QED
      BY <1>3, <3>1
  <2> QED
    BY <1>3, <1>6, <2>1, Primes
<1>8. /\ disk'.index = g.index /\ disk'.single = disk.single
      /\ disk'.retained \in {disk.retained, NoId}
      /\ \A id \in Ids : \/ disk'.files[id] = g.files[id]
                         \/ id = disk.retained /\ disk'.files[id] = NoSeed
  BY <1>5 DEF Drops
<1>9. /\ \A e \in disk'.index : e = entry \/ (e \in disk.index /\ e.id < nextId /\ e.id \in Ids)
      /\ disk.retained # NoId => disk.retained < nextId /\ disk.retained \in Ids
  <2>1. disk \in Disk
    BY <1>3 DEF DiskOK
  <2>2. \A e \in disk.index : e.id < nextId /\ e.id \in Ids
    BY <1>3, <2>1, DiskFacts DEF DiskOK
  <2>3. disk.retained # NoId => disk.retained < nextId /\ disk.retained \in Ids
    BY <1>3, <2>1, DiskFacts DEF DiskOK
  <2> QED
    BY <1>5, <1>8, <2>2, <2>3
<1>10. \A e \in disk.index : disk'.files[e.id] = disk.files[e.id]
  <2> SUFFICES ASSUME NEW e \in disk.index PROVE disk'.files[e.id] = disk.files[e.id]
    OBVIOUS
  <2>1. e.id \in Ids /\ e.id # nextId /\ e.id # disk.retained
    <3>1. disk \in Disk /\ e.id < nextId /\ e.id \in Stored(disk)
      BY <1>3 DEF DiskOK, Stored
    <3>2. e.id \in Ids
      BY <3>1, DiskFacts
    <3> QED
      BY <1>3, <3>1, <3>2, IdFacts DEF DiskOK
  <2>2. g.files[e.id] = disk.files[e.id]
    BY <1>1, <1>2, <2>1 DEF Grows
  <2> QED
    BY <1>8, <2>1, <2>2
<1>11. RunInv'
  BY DEF RunInv
<1>12. JobInv'
  <2> SUFFICES ASSUME NEW j \in jobs' PROVE JobOK(j)'
    BY DEF JobInv
  <2>1. j \in jobs /\ JobOK(j) /\ secure' = secure
    BY DEF Core, JobInv
  <2>2. ASSUME j.kind = "restore"
        PROVE  /\ j.id \in Ids \ foreign /\ j.id < nextId + 1 /\ j.address \in Seeds \X Paths
               /\ \A e \in disk'.index : e.id = j.id => j.address = <<disk'.files[e.id], e.path>>
    <3>1. j.id \in Nat /\ j.id \in Ids \ foreign /\ j.id < nextId /\ j.address \in Seeds \X Paths
          /\ \A e \in disk.index : e.id = j.id => j.address = <<disk.files[e.id], e.path>>
      BY <2>1, <2>2, IdFacts DEF JobOK
    <3>2. j.id < nextId + 1 /\ j.id # nextId
      BY <1>3, <3>1
    <3> QED
      BY <1>1, <1>9, <1>10, <3>1, <3>2
  <2>3. j.kind = "import" => j.address \in Seeds \X {0}
    BY <2>1 DEF JobOK
  <2>4. ASSUME j.kind = "derive"
        PROVE  /\ secure' /\ j.id \in Ids /\ j.address \in Seeds \X Paths
               /\ disk'.retained = j.id => disk'.files[j.id] = j.address[1]
    <3>1. /\ secure' /\ j.id \in Ids /\ j.address \in Seeds \X Paths
          /\ disk.retained = j.id => disk.files[j.id] = j.address[1]
      BY <2>1, <2>4 DEF JobOK
    <3>2. ASSUME disk'.retained = j.id PROVE disk'.files[j.id] = disk.files[j.id]
      <4>1. j.id # NoId /\ disk' = g /\ disk.retained = j.id
        BY <1>5, <3>1, <3>2, IdFacts
      <4>2. j.id # nextId
        BY <1>3, <1>9, <4>1, IdFacts
      <4> QED
        BY <1>1, <1>2, <3>1, <4>1, <4>2 DEF Grows
    <3> QED
      BY <1>5, <1>8, <3>1, <3>2, IdFacts
  <2> QED
    BY <2>2, <2>3, <2>4 DEF JobOK
<1>13. SingleInv'
  <2>1. disk.single # NoSeed => disk'.index = disk.index
    OBVIOUS
  <2>2. ready' \/ jobs' # {} => (ready \/ jobs # {}) /\ secure' = secure
    OBVIOUS
  <2>3. disk.single # NoSeed => disk.retained = NoId
    BY DEF Core, SingleInv
  <2> QED
    BY <1>8, <1>10, <2>1, <2>2, <2>3 DEF Core, SingleInv
<1>14. KeptInv'
  BY DEF KeptInv
<1>15. BlankInv'
  BY <1>1, <1>9 DEF Core, BlankInv
<1> QED
  BY <1>7, <1>11, <1>12, <1>13, <1>14, <1>15 DEF Core

-----------------------------------------------------------------------------
(* What a step must show. *)

Inv == TypeOK /\ Core /\ OneEntryPerAddress /\ SeedsStay /\ RemovedIsGone

RestTyped ==
    /\ up \in BOOLEAN /\ ready \in BOOLEAN /\ secure \in BOOLEAN /\ live \in BOOLEAN
    /\ duplicate \in Ids \cup {NoId}

LEMMA InvFacts ==
    ASSUME Inv
    PROVE  /\ DiskOK(disk, nextId) /\ disk \in Disk /\ foreign \subseteq Ids
           /\ nextId \in 1 .. MaxWallets + 1 /\ RestTyped
           /\ Core /\ RunInv /\ JobInv /\ SingleInv /\ KeptInv /\ BlankInv
           /\ owned \subseteq Seeds /\ removed \subseteq Seeds /\ cut \subseteq Seeds
           /\ owned \subseteq Reachable(disk) \cup cut
           /\ \A s \in removed : s \in Reachable(disk) => s \in cut
           /\ Stored(disk) \subseteq Ids
BY DiskFacts DEF Inv, TypeOK, RestTyped, Core, DiskInv, SeedsStay, RemovedIsGone

LEMMA ReachableSeeds ==
    ASSUME NEW d \in Disk
    PROVE  Reachable(d) \subseteq Seeds
BY DiskFacts, ReachableFacts

LEMMA Dies ==
    ASSUME Killed
    PROVE  RestTyped' /\ Quiet /\ up' = FALSE /\ jobs' = {} /\ ready' = FALSE /\ foreign' = foreign
BY IdFacts DEF Killed, RestTyped, Quiet

\* The history is right: what is still owned and can be reached no more is in
\* cut, and so is what was removed and can be reached.
LEMMA HistoryKept ==
    ASSUME Inv, foreign' = foreign, cut \subseteq cut',
           \A s \in owned' : s \in Reachable(disk') \/ s \in cut' \/ (s \in owned /\ s \notin Reachable(disk)),
           \A s \in removed' : s \in Reachable(disk') =>
               s \in cut' \/ (s \in removed /\ s \in Reachable(disk))
    PROVE  (SeedsStay /\ RemovedIsGone)'
<1>1. \A s \in owned : s \in Reachable(disk) \/ s \in cut
  BY InvFacts
<1>2. \A s \in removed : s \in Reachable(disk) => s \in cut
  BY InvFacts
<1>3. Reachable(disk)' = Reachable(disk')
  BY Primes
<1> QED
  BY <1>1, <1>2, <1>3 DEF SeedsStay, RemovedIsGone

LEMMA TypeKept ==
    ASSUME disk' \in Disk, foreign' \subseteq Ids, nextId' \in 1 .. MaxWallets + 1, RestTyped',
           owned' \subseteq Seeds, removed' \subseteq Seeds, cut' \subseteq Seeds
    PROVE  TypeOK'
BY DEF TypeOK, RestTyped

LEMMA EntriesShrink ==
    ASSUME OneEntryPerAddress, disk'.index \subseteq disk.index, up' => up, adopted' = adopted
    PROVE  OneEntryPerAddress'
BY DEF OneEntryPerAddress

LEMMA TrimInv ==
    ASSUME Inv, NEW gone \in SUBSET Stored(disk), Trimmed(disk, disk', gone),
           foreign' = foreign, nextId' = nextId, adopted' = adopted, Quiet, RestTyped', up' => up,
           cut \subseteq cut', cut' \subseteq Seeds, owned' \subseteq owned, removed' \subseteq Seeds,
           \A s \in owned' : s \in Reachable(disk) \ Reachable(disk') => s \in cut',
           \A s \in removed' \ removed : s \in Reachable(disk') => s \in cut'
    PROVE  Inv'
<1>1. Core' /\ Reachable(disk') \subseteq Reachable(disk) /\ disk' \in Disk
  BY TrimCore, TrimmedOK, InvFacts DEF Trimmed
<1>2. TypeOK'
  BY <1>1, InvFacts, TypeKept
<1>3. OneEntryPerAddress'
  BY EntriesShrink DEF Inv, Trimmed
<1>4. (SeedsStay /\ RemovedIsGone)'
  BY <1>1, HistoryKept, InvFacts
<1> QED
  BY <1>1, <1>2, <1>3, <1>4 DEF Inv

LEMMA EmptyInv ==
    ASSUME Inv, disk' \in Disk, disk'.index = {}, disk'.single = NoSeed,
           disk'.retained # NoId => disk'.retained < nextId,
           jobs' # {} => disk'.retained = NoId \/ \A j \in jobs : j.kind \notin {"import", "derive"},
           foreign' = foreign, nextId' = nextId, adopted' = adopted, Quiet, RestTyped', up' => up,
           cut \subseteq cut', cut' \subseteq Seeds, owned' \subseteq owned, removed' \subseteq Seeds,
           \A s \in owned' : s \in Reachable(disk) \ Reachable(disk') => s \in cut',
           \A s \in removed' : s \in Reachable(disk') =>
               s \in cut' \/ (s \in removed /\ s \in Reachable(disk))
    PROVE  Inv'
<1>1. Core'
  BY EmptyCore, InvFacts
<1>2. TypeOK'
  BY InvFacts, TypeKept
<1>3. OneEntryPerAddress'
  BY EntriesShrink DEF Inv
<1>4. (SeedsStay /\ RemovedIsGone)'
  BY HistoryKept, InvFacts
<1> QED
  BY <1>1, <1>2, <1>3, <1>4 DEF Inv

LEMMA SameDisk ==
    ASSUME Inv, UNCHANGED <<disk, foreign, nextId, history>>, Quiet, RestTyped', up' => up
    PROVE  Inv'
<1>1. disk \in Disk /\ Trimmed(disk, disk', {}) /\ {} \in SUBSET Stored(disk)
  BY InvFacts, SameTrims
<1>2. /\ foreign' = foreign /\ nextId' = nextId /\ adopted' = adopted
      /\ cut' = cut /\ owned' = owned /\ removed' = removed
  BY DEF history
<1> QED
  BY <1>1, <1>2, InvFacts, TrimInv

-----------------------------------------------------------------------------
(* The process, and jobs that begin or come to nothing. *)

LEMMA KillStep == ASSUME Inv, Kill PROVE Inv'
<1>1. Killed /\ UNCHANGED <<disk, nextId, history>>
  BY DEF Kill
<1> QED
  BY <1>1, Dies, SameDisk

LEMMA SessionTurnsStep == ASSUME Inv, SessionTurns PROVE Inv'
<1>1. RestTyped' /\ Quiet /\ up' = up /\ UNCHANGED <<disk, foreign, nextId, history>>
  BY InvFacts DEF SessionTurns, RestTyped, Quiet
<1> QED
  BY <1>1, SameDisk

LEMMA SwitchedStep == ASSUME Inv, NEW j \in jobs, Switched(j) PROVE Inv'
<1>1. RestTyped' /\ Quiet /\ up' = up /\ UNCHANGED <<disk, foreign, nextId, history>>
  BY InvFacts DEF Switched, RestTyped, Quiet
<1> QED
  BY <1>1, SameDisk

LEMMA ImportRefusedStep == ASSUME Inv, NEW j \in jobs, ImportRefused(j) PROVE Inv'
<1>1. Clashes(disk, j.address) \subseteq Ids
  BY InvFacts, DiskFacts DEF Clashes
<1>2. duplicate' \in Ids \cup {NoId}
  BY <1>1 DEF ImportRefused
<1>3. RestTyped' /\ Quiet /\ up' = up /\ UNCHANGED <<disk, foreign, nextId, history>>
  BY <1>2, InvFacts DEF ImportRefused, RestTyped, Quiet
<1> QED
  BY <1>3, SameDisk

LEMMA DeriveRefusedStep == ASSUME Inv, NEW j \in jobs, DeriveRefused(j) PROVE Inv'
<1>1. RestTyped' /\ Quiet /\ up' = up /\ UNCHANGED <<disk, foreign, nextId, history>>
  BY InvFacts DEF DeriveRefused, RestTyped, Quiet
<1> QED
  BY <1>1, SameDisk

\* Only the jobs change, by one that is in order.
LEMMA JobBegins ==
    ASSUME Inv, NEW j, jobs' = jobs \cup {j}, ready, JobOK(j),
           j.kind = "import" => Unkept, j.kind = "derive" => Unkept \/ disk.retained = j.id,
           UNCHANGED <<disk, foreign, nextId, secure, up, ready, live, history>>,
           duplicate' \in Ids \cup {NoId}
    PROVE  Inv'
<1>1. /\ disk' = disk /\ foreign' = foreign /\ nextId' = nextId /\ secure' = secure /\ up' = up
      /\ ready' = ready /\ live' = live
      /\ owned' = owned /\ removed' = removed /\ cut' = cut /\ adopted' = adopted
  BY DEF history
<1>2. DiskInv' /\ SingleInv' /\ BlankInv' /\ RunInv' /\ (Unkept' <=> Unkept)
  <2>1. DiskInv'
    BY <1>1, Primes, InvFacts DEF Core, DiskInv
  <2> QED
    BY <1>1, <2>1, InvFacts DEF SingleInv, BlankInv, RunInv, Unkept
<1>3. \A i : JobOK(i)' <=> JobOK(i)
  BY <1>1 DEF JobOK
<1>4. JobInv' /\ KeptInv'
  BY <1>1, <1>2, <1>3, InvFacts DEF JobInv, KeptInv
<1>5. TypeOK' /\ OneEntryPerAddress'
  BY <1>1 DEF Inv, TypeOK, OneEntryPerAddress
<1>6. (SeedsStay /\ RemovedIsGone)'
  BY <1>1, HistoryKept, InvFacts
<1> QED
  BY <1>2, <1>4, <1>5, <1>6 DEF Inv, Core

LEMMA ImportStep == ASSUME Inv, NEW seed \in Seeds, Import(seed) PROVE Inv'
<1> DEFINE j == Job("import", NoId, <<seed, 0>>, FALSE)
<1>1. ready /\ jobs' = jobs \cup {j} /\ duplicate' = NoId
      /\ UNCHANGED <<disk, foreign, nextId, secure, up, ready, live, history>>
  BY DEF Import, ImportShown
<1>2. JobOK(j) /\ j.kind = "import"
  BY DEF JobOK, Job
<1>3. Unkept
  <2>1. disk.index # {} => Unkept
    BY InvFacts DEF KeptInv
  <2>2. disk.index = {} => Shown = NoId
    BY DEF Shown, HasStored, Stored
  <2>3. disk.index = {} => disk.retained = NoId
    BY <2>2 DEF Import, ImportShown, SavedSeedShown
  <2> QED
    BY <2>1, <2>3 DEF Unkept
<1> HIDE DEF j
<1> QED
  BY <1>1, <1>2, <1>3, JobBegins

LEMMA DeriveStep == ASSUME Inv, NEW id \in Ids, NEW path \in Paths, Derive(id, path) PROVE Inv'
<1> DEFINE j == Job("derive", id, <<disk.files[id], path>>, FALSE)
<1>1. ready /\ jobs' = jobs \cup {j} /\ duplicate' = duplicate
      /\ UNCHANGED <<disk, foreign, nextId, secure, up, ready, live, history>>
  BY DEF Derive
<1>2. secure /\ disk.files[id] \in Seeds
  BY InvFacts, DiskFacts DEF Derive, Opens
<1>3. JobOK(j) /\ j.kind = "derive" /\ j.id = id
  BY <1>2 DEF JobOK, Job
<1>4. Unkept \/ disk.retained = id
  BY InvFacts DEF Derive, GroupDerives, SavedSeedDerives, KeptInv, Stored
<1> HIDE DEF j
<1> QED
  BY <1>1, <1>3, <1>4, JobBegins, InvFacts DEF RestTyped

\* A choice is saved.
LEMMA SwitchStep == ASSUME Inv, NEW id \in Ids, Switch(id) PROVE Inv'
<1>1. Trimmed(disk, disk', {}) /\ {} \in SUBSET Stored(disk) /\ Reachable(disk') = Reachable(disk)
  <2>1. disk' = [disk EXCEPT !.active = id]
    BY DEF Switch, SwitchStarts
  <2>2. Trimmed(disk, disk', {})
    BY <2>1, InvFacts, SameTrims, ActiveMoves
  <2>3. Stored(disk') = Stored(disk) /\ disk'.files = disk.files
        /\ disk'.retained = disk.retained /\ disk'.single = disk.single
    BY <2>1, InvFacts DEF Disk, Stored
  <2> QED
    BY <2>2, <2>3 DEF Reachable
<1>2. Quiet /\ RestTyped' /\ up' = up /\ UNCHANGED <<foreign, nextId, history>>
  <2>1. ready /\ \A j \in jobs' : j \in jobs \/ j.kind = "switch"
    BY DEF Switch, SwitchStarts, Job
  <2> QED
    BY <2>1, InvFacts DEF Switch, Quiet, RestTyped
<1>3. /\ foreign' = foreign /\ nextId' = nextId /\ adopted' = adopted
      /\ cut' = cut /\ owned' = owned /\ removed' = removed
  BY <1>2 DEF history
<1> QED
  BY <1>1, <1>2, <1>3, TrimInv, InvFacts
-----------------------------------------------------------------------------
(* Removals. *)

LEMMA TrimmedMore ==
    ASSUME NEW d, NEW new, NEW gone, NEW more, Trimmed(d, new, gone), gone \subseteq more
    PROVE  Trimmed(d, new, more)
BY DEF Trimmed

\* The disks of a loop of removals.
LEMMA LoopTrims ==
    ASSUME NEW d \in Disk, NEW gone \in SUBSET Stored(d), NEW w \in RemovalLoop(d, gone, NoId)
    PROVE  Trimmed(d, w, gone)
<1>1. PICK id \in gone :
          w \in Writes(Removal(Without(d, gone \cap Earlier(d, id)), id, FALSE))
  BY DEF RemovalLoop, Writes
<1> DEFINE before == gone \cap Earlier(d, id)
           mid == Without(d, before)
<1>2. id \notin before
  <2>1. id \in Nat
    BY DiskFacts, IdFacts
  <2> QED
    BY <2>1 DEF Earlier
<1>3. Trimmed(d, mid, before) /\ id \in Stored(mid) /\ mid \in Disk
  BY <1>2, WithoutTrims DEF Trimmed
<1> HIDE DEF mid
<1>4. PICK a, b, c : Removal(mid, id, FALSE) = <<a, b, c>>
                     /\ Removes(mid, a, id) /\ Removes(mid, b, id) /\ Removes(mid, c, id)
  BY <1>3, RemovalTrims
<1>5. w \in {a, b, c}
  BY <1>1, <1>4, ThreeWrites DEF mid
<1>6. Trimmed(mid, w, {id})
  BY <1>4, <1>5 DEF Removes
<1>7. Trimmed(d, w, before \cup {id})
  BY <1>3, <1>6, TrimmedAgain
<1> QED
  BY <1>7, TrimmedMore

\* What is lost with some wallets is what only they hold, and what only they hold
\* is gone, but for a seed a crash left retained.
LEMMA OnlyFacts ==
    ASSUME Inv, ready, NEW ids \in SUBSET Stored(disk), ids # {},
           NEW new, Trimmed(disk, new, ids), Stored(new) \cap ids = {}
    PROVE  /\ Reachable(disk) \ Reachable(new) \subseteq OnlyIn(ids)
           /\ OnlyIn(ids) \cap Reachable(new) \subseteq cut
<1>1. /\ Stored(new) \subseteq Stored(disk) /\ Held(new) \subseteq Held(disk)
      /\ \A id \in Held(new) : id \in Ids /\ new.files[id] = disk.files[id]
      /\ \A id \in Held(disk) : id \notin ids => id \in Held(new)
  BY TrimmedFiles, InvFacts
<1>2. new.single = NoSeed /\ new.retained = disk.retained
  <2>1. disk.index # {}
    BY DEF Stored
  <2>2. disk.single = NoSeed
    BY <2>1, InvFacts DEF SingleInv
  <2> QED
    BY <2>2 DEF Trimmed
<1>3. ASSUME NEW s \in Reachable(disk) \ Reachable(new) PROVE s \in OnlyIn(ids)
  <2>1. PICK id \in ids \ foreign : disk.files[id] = s
    BY <1>3, TrimmedOK, InvFacts
  <2>2. s # NoSeed
    BY <1>3, ReachableFacts
  <2>3. ASSUME NEW m \in Stored(disk) \ (ids \cup foreign) PROVE disk.files[m] # s
    <3>1. m \in Held(new) \ foreign /\ new.files[m] = disk.files[m]
      BY <1>1 DEF Held
    <3> QED
      BY <1>3, <2>2, <3>1, ReachableFacts
  <2> QED
    BY <2>1, <2>2, <2>3 DEF OnlyIn
<1>4. ASSUME NEW s \in OnlyIn(ids), s \in Reachable(new) PROVE s \in cut
  <2>1. s # NoSeed
    BY DEF OnlyIn
  <2>2. PICK id \in Held(new) \ foreign : new.files[id] = s
    BY <1>2, <1>4, <2>1, ReachableFacts
  <2>3. disk.files[id] = s
    BY <1>1, <2>2
  <2>4. CASE id \in Stored(new)
    <3>1. id \in Stored(disk) \ (ids \cup foreign)
      BY <1>1, <2>2, <2>4
    <3> QED
      BY <2>3, <3>1 DEF OnlyIn
  <2>5. CASE id = new.retained /\ id # NoId
    <3>1. Unkept
      BY InvFacts DEF KeptInv, Stored
    <3> QED
      BY <1>2, <2>1, <2>3, <2>5, <3>1 DEF Unkept
  <2> QED
    BY <2>2, <2>4, <2>5 DEF Held
<1> QED
  BY <1>3, <1>4

LEMMA DeleteWalletStep == ASSUME Inv, NEW id \in Ids, DeleteWallet(id) PROVE Inv'
<1>1. ready /\ id \in Stored(disk) /\ disk \in Disk
  BY InvFacts DEF DeleteWallet, DeleteOffered, AppShown
<1>2. PICK a, b, c : Removal(disk, id, FALSE) = <<a, b, c>>
                     /\ Removes(disk, a, id) /\ Removes(disk, b, id) /\ Removes(disk, c, id)
  BY <1>1, RemovalTrims
<1>3. Last(<<a, b, c>>) = c /\ Interim(<<a, b, c>>) = {a, b}
  BY LastInterim
<1>4. /\ foreign' = foreign /\ nextId' = nextId /\ adopted' = adopted /\ cut' = cut
      /\ \/ /\ disk' = c /\ owned' = owned \ OnlyIn({id}) /\ removed' = removed \cup OnlyIn({id})
            /\ secure' = secure /\ UNCHANGED memory
         \/ /\ Killed /\ disk' \in {a, b} /\ removed' = removed
            /\ owned' = owned \ (OnlyIn({id}) \ Reachable(disk'))
  BY <1>2, <1>3 DEF DeleteWallet, KilledIn, Killed
<1>5. Removes(disk, disk', id)
  BY <1>2, <1>4
<1>6. Trimmed(disk, disk', {id}) /\ Stored(disk') \cap {id} = {} /\ {id} \in SUBSET Stored(disk)
  BY <1>1, <1>5 DEF Removes, Stored
<1>7. /\ Reachable(disk) \ Reachable(disk') \subseteq OnlyIn({id})
      /\ OnlyIn({id}) \cap Reachable(disk') \subseteq cut
  BY <1>1, <1>6, OnlyFacts
<1>8. Quiet /\ RestTyped' /\ (up' => up)
  <2>1. CASE Killed
    BY <2>1, Dies
  <2>2. CASE secure' = secure /\ UNCHANGED memory
    BY <2>2, InvFacts DEF memory, Quiet, RestTyped
  <2> QED
    BY <1>4, <2>1, <2>2
<1>9. OnlyIn({id}) \subseteq Seeds
  BY <1>1, DiskFacts DEF OnlyIn
<1>10. owned' \subseteq owned /\ removed' \subseteq Seeds
  BY <1>4, <1>9, InvFacts
<1> QED
  BY <1>4, <1>6, <1>7, <1>8, <1>10, InvFacts, TrimInv

\* The wallets of one seed are removed.
LEMMA DeleteSeedStep == ASSUME Inv, NEW id \in Ids, DeleteSeed(id, FALSE) PROVE Inv'
<1> DEFINE members == SameSeed(id)
           done == Without(disk, members)
           seed == disk.files[id]
<1>1. ready /\ secure /\ disk \in Disk /\ id \in Stored(disk) /\ Opens(disk, id)
  BY InvFacts DEF DeleteSeed, RemovalOffered, AppShown, Opens
<1>2. members \in SUBSET Stored(disk) /\ id \in members
      /\ \A m \in members : m \notin foreign /\ disk.files[m] = seed
      /\ seed # NoSeed /\ seed \in Seeds
  BY <1>1, DiskFacts DEF SameSeed, Opens
<1>3. members \ {NoId} = members
  BY <1>2, InvFacts, IdFacts
<1>4. /\ foreign' = foreign /\ nextId' = nextId /\ adopted' = adopted
      /\ \/ /\ \/ disk' = done /\ UNCHANGED <<jobs, loaded>>
               \/ SwitchStarts(done, SuccessorOf(done))
               \/ disk' = [done EXCEPT !.active = NoId] /\ UNCHANGED jobs
            /\ owned' = owned \ {seed} /\ removed' = removed \cup {seed} /\ cut' = cut
            /\ UNCHANGED <<secure, up, ready, live, duplicate>>
         \/ /\ Killed /\ disk' \in RemovalLoop(disk, members, NoId) \cup {done}
            /\ owned' = owned \ ({seed} \ Reachable(disk'))
            /\ removed' = removed /\ cut' = cut
  BY <1>3 DEF DeleteSeed, KilledIn, Killed
<1>5. Trimmed(disk, done, members) /\ Stored(done) = Stored(disk) \ members
  BY <1>1, WithoutTrims
<1>6. SuccessorOf(done) \in Ids \cup {NoId}
  <2>1. {m \in Stored(done) : Opens(done, m)} \subseteq Ids
    BY <1>5, InvFacts
  <2> QED
    BY <2>1, SmallestId DEF SuccessorOf
<1>7. ASSUME NEW m \in Ids \cup {NoId}
      PROVE  Trimmed(disk, [done EXCEPT !.active = m], members)
             /\ Stored([done EXCEPT !.active = m]) = Stored(done)
  <2>1. done \in Disk
    BY <1>5 DEF Trimmed
  <2> HIDE DEF done
  <2> QED
    BY <1>5, <2>1, ActiveMoves DEF Stored, Disk
<1> HIDE DEF members, done, seed
<1>8. Trimmed(disk, disk', members)
  BY <1>1, <1>2, <1>4, <1>5, <1>6, <1>7, LoopTrims DEF SwitchStarts
<1>9. ~Killed => Stored(disk') \cap members = {}
  BY <1>4, <1>5, <1>6, <1>7 DEF SwitchStarts
<1>10. seed \in OnlyIn(members)
  <2>1. \A m \in Stored(disk) \ (members \cup foreign) : disk.files[m] # seed
    BY <1>1, <1>2 DEF members, SameSeed, Opens, seed
  <2> QED
    BY <1>1, <1>2, <2>1 DEF OnlyIn
<1>11. \A s \in Reachable(disk) \ Reachable(disk') : s = seed
  BY <1>2, <1>8, TrimmedOK, InvFacts
<1>12. ~Killed /\ seed \in Reachable(disk') => seed \in cut
  BY <1>1, <1>2, <1>8, <1>9, <1>10, OnlyFacts
<1>13. Quiet /\ RestTyped' /\ (up' => up)
  <2>1. CASE Killed
    BY <2>1, Dies
  <2>2. CASE ~Killed
    <3>1. UNCHANGED <<secure, up, ready, live, duplicate>>
          /\ \A j \in jobs' : j \in jobs \/ j.kind = "switch"
      BY <1>4, <2>2 DEF SwitchStarts, Job
    <3> QED
      BY <1>1, <3>1, InvFacts DEF Quiet, RestTyped
  <2> QED
    BY <2>1, <2>2
<1>14. up' = up => ~Killed
  BY <1>1, InvFacts DEF RunInv, Killed
<1>15. owned' \subseteq owned /\ removed' \subseteq Seeds /\ cut' = cut
       /\ (\A s \in owned' : s \in Reachable(disk) \ Reachable(disk') => s \in cut')
       /\ (\A s \in removed' \ removed : s \in Reachable(disk') => s \in cut')
  BY <1>2, <1>4, <1>11, <1>12, <1>14, InvFacts
<1> QED
  BY <1>2, <1>4, <1>8, <1>13, <1>15, InvFacts, TrimInv

\* The last wallets are removed, and one keeps their seed for another day.
LEMMA KeepSeedStep == ASSUME Inv, NEW id \in Ids, DeleteSeed(id, TRUE) PROVE Inv'
<1> DEFINE members == SameSeed(id)
           kept == IF disk.active \in members THEN disk.active ELSE Smallest(members)
           emptied == Without(disk, members \ {kept})
           done == Last(Removal(emptied, kept, TRUE))
           seed == disk.files[id]
<1>1. /\ ready /\ up /\ secure /\ disk \in Disk /\ id \in Stored(disk) /\ Opens(disk, id) /\ FormFree
      /\ Stored(disk) = members
  BY InvFacts DEF DeleteSeed, RemovalOffered, AppShown, Opens, RunInv
<1>2. members \subseteq Ids /\ id \in members
      /\ (\A m \in members : m \notin foreign /\ disk.files[m] = seed)
      /\ seed # NoSeed /\ seed \in Seeds /\ disk.single = NoSeed /\ Unkept
  <2>1. disk.index # {}
    BY <1>1 DEF Stored
  <2> QED
    BY <1>1, <2>1, InvFacts, DiskFacts DEF SameSeed, Opens, SingleInv, KeptInv
<1>3. kept \in members /\ kept \in Ids /\ kept # NoId
  BY <1>2, SmallestId, IdFacts
<1>4. /\ foreign' = foreign /\ nextId' = nextId /\ adopted' = adopted
      /\ \/ /\ \/ disk' = done /\ UNCHANGED <<jobs, loaded>>
               \/ SwitchStarts(done, SuccessorOf(done))
               \/ disk' = [done EXCEPT !.active = NoId] /\ UNCHANGED jobs
            /\ owned' = owned /\ removed' = removed /\ cut' = cut
            /\ UNCHANGED <<secure, up, ready, live, duplicate>>
         \/ /\ Killed /\ disk' \in RemovalLoop(disk, members \ {kept}, kept) \cup {done}
            /\ owned' = owned
            /\ removed' = removed /\ cut' = cut \cup {seed}
  BY <1>3 DEF DeleteSeed, KilledIn, Killed
<1>5. Trimmed(disk, emptied, members \ {kept}) /\ Stored(emptied) = {kept} /\ emptied \in Disk
  BY <1>1, <1>3, WithoutTrims DEF Trimmed
<1> HIDE DEF members, kept, emptied, seed
<1>6. PICK a, b, c : /\ Removal(emptied, kept, TRUE) = <<a, b, c>>
                     /\ Trimmed(emptied, a, {kept}) /\ Keeps(emptied, b, kept) /\ Keeps(emptied, c, kept)
  BY <1>3, <1>5, RemovalKeeps
<1>7. done = c /\ Interim(Removal(emptied, kept, TRUE)) = {a, b}
  <2>1. Last(<<a, b, c>>) = c /\ Interim(<<a, b, c>>) = {a, b}
    BY LastInterim
  <2> QED
    BY <1>6, <2>1
<1> HIDE DEF done
<1>8. /\ emptied.files[kept] = seed /\ emptied.single = NoSeed
  BY <1>2, <1>3, <1>5, <1>6 DEF Trimmed
<1>9. ASSUME NEW m \in Ids \cup {NoId}
      PROVE  Keeps(emptied, [done EXCEPT !.active = m], kept)
  BY <1>6, <1>7 DEF Keeps, Disk
<1>10. SuccessorOf(done) \in Ids \cup {NoId}
  <2>1. Stored(done) = {}
    BY <1>6, <1>7 DEF Keeps, Stored
  <2>2. {m \in Stored(done) : Opens(done, m)} \subseteq Ids
    BY <2>1
  <2> QED
    BY <2>2, SmallestId DEF SuccessorOf
<1>11. RemovalLoop(disk, members \ {kept}, kept) = RemovalLoop(disk, members \ {kept}, NoId) \cup {a, b}
  BY <1>3, <1>7 DEF RemovalLoop, emptied
<1>12. \/ Keeps(emptied, disk', kept)
       \/ Killed /\ Trimmed(disk, disk', members) /\ cut' = cut \cup {seed}
  <2>1. ASSUME NEW w \in RemovalLoop(disk, members \ {kept}, NoId)
        PROVE  Trimmed(disk, w, members)
    <3>1. Trimmed(disk, w, members \ {kept})
      BY <1>1, LoopTrims
    <3> QED
      BY <3>1, TrimmedMore
  <2>2. Trimmed(disk, a, members)
    <3>1. (members \ {kept}) \cup {kept} = members
      BY <1>3
    <3> QED
      BY <1>5, <1>6, <3>1, TrimmedAgain
  <2> QED
    BY <1>4, <1>6, <1>7, <1>9, <1>10, <1>11, <2>1, <2>2 DEF SwitchStarts
<1>13. Quiet /\ RestTyped' /\ (up' => up)
  <2>1. CASE Killed
    BY <2>1, Dies
  <2>2. CASE ~Killed
    <3>1. UNCHANGED <<secure, up, ready, live, duplicate>>
          /\ \A j \in jobs' : j \in jobs \/ j.kind = "switch"
      BY <1>4, <2>2 DEF SwitchStarts, Job
    <3> QED
      BY <1>1, <3>1, InvFacts DEF Quiet, RestTyped
  <2> QED
    BY <2>1, <2>2
<1>14. owned' = owned /\ removed' = removed /\ cut \subseteq cut' /\ cut' \subseteq Seeds
  BY <1>2, <1>4, InvFacts
<1>15. \A s \in Reachable(disk) : s = seed \/ s \in cut
  <2> SUFFICES ASSUME NEW s \in Reachable(disk) PROVE s = seed \/ s \in cut
    OBVIOUS
  <2>1. PICK m \in Held(disk) : disk.files[m] = s /\ s # NoSeed
    BY <1>2, ReachableFacts
  <2> QED
    BY <1>1, <1>2, <2>1 DEF Held, Unkept
<1>16. seed \in Reachable(disk)
  BY <1>1, <1>2, ReachableFacts DEF Held, seed
<1>17. CASE Killed /\ Trimmed(disk, disk', members) /\ cut' = cut \cup {seed}
  BY <1>1, <1>4, <1>13, <1>14, <1>15, <1>17, InvFacts, TrimInv
<1>18. CASE Keeps(emptied, disk', kept)
  <2>1. disk' \in Disk /\ disk'.index = {} /\ disk'.single = NoSeed /\ disk'.retained = kept
        /\ disk'.files[kept] = seed
    BY <1>8, <1>18 DEF Keeps
  <2>2. Held(disk') = {kept}
    BY <1>3, <2>1 DEF Held, Stored
  <2>3. \A s : s \in Reachable(disk') <=> s = seed
    BY <1>2, <1>3, <2>1, <2>2, ReachableFacts
  <2>4. kept < nextId
    BY <1>1, <1>3, InvFacts DEF DiskOK, Stored
  <2>5. \A j \in jobs : j.kind \notin {"import", "derive"}
    BY <1>1 DEF FormFree
  <2> QED
    BY <1>4, <1>13, <1>14, <1>15, <1>16, <2>1, <2>3, <2>4, <2>5, InvFacts, EmptyInv
<1> QED
  BY <1>12, <1>17, <1>18

LEMMA DeleteAllStep == ASSUME Inv, DeleteAll PROVE Inv'
<1> DEFINE emptied == Without(disk, Stored(disk))
           writes == Unretained(emptied)
           final == Last(writes)
           asked == Reachable(disk)
<1>1. ready /\ disk \in Disk /\ disk.single = NoSeed
  BY InvFacts DEF DeleteAll, PickerShown, SingleInv
<1>2. Trimmed(disk, emptied, Stored(disk)) /\ Stored(emptied) = {} /\ emptied \in Disk
      /\ emptied.index = {} /\ emptied.single = NoSeed /\ emptied.retained = disk.retained
  <2>1. Trimmed(disk, emptied, Stored(disk)) /\ Stored(emptied) = {}
    BY <1>1, WithoutTrims
  <2> QED
    BY <1>1, <2>1 DEF Trimmed, Stored
<1>3. /\ foreign' = foreign /\ nextId' = nextId /\ adopted' = adopted /\ cut' = cut
      /\ \/ /\ disk' = [final EXCEPT !.active = NoId]
            /\ owned' = owned \ asked /\ removed' = removed \cup asked
            /\ UNCHANGED <<secure, up, ready, jobs, live, duplicate>>
         \/ /\ Killed /\ disk' \in RemovalLoop(disk, Stored(disk), NoId) \cup {emptied} \cup Interim(writes)
            /\ owned' = owned \ (asked \ Reachable(disk')) /\ removed' = removed
  BY DEF DeleteAll, KilledIn, Killed
<1> HIDE DEF emptied, asked
<1>4. /\ final \in Disk /\ final.index = {} /\ final.single = NoSeed /\ final.retained = NoId
      /\ \A w \in Interim(writes) : Drops(emptied, w) /\ w.retained = disk.retained /\ disk.retained \in Ids
  <2>1. CASE emptied.retained = NoId
    <3>1. writes = <<emptied>>
      BY <2>1 DEF Unretained
    <3>2. final = emptied /\ Interim(writes) = {}
      BY <3>1, LastInterim
    <3> QED
      BY <1>2, <2>1, <3>2
  <2>2. CASE emptied.retained # NoId
    <3>1. emptied.retained \in Ids
      BY <1>2, <2>2, DiskFacts
    <3>2. PICK a, b : /\ writes = <<a, b>> /\ Drops(emptied, a) /\ a.retained = emptied.retained
                      /\ Drops(emptied, b) /\ b.retained = NoId
      BY <1>2, <3>1, UnretainedDrops
    <3>3. final = b /\ Interim(writes) = {a}
      BY <3>2, LastInterim
    <3> QED
      BY <1>2, <3>1, <3>2, <3>3 DEF Drops
  <2> QED
    BY <2>1, <2>2
<1> HIDE DEF final, writes
<1>5. Quiet /\ RestTyped' /\ (up' => up)
  <2>1. CASE Killed
    BY <2>1, Dies
  <2>2. CASE ~Killed
    BY <1>3, <2>2, InvFacts DEF Quiet, RestTyped
  <2> QED
    BY <2>1, <2>2
<1>6. asked \subseteq Seeds
  BY <1>1, ReachableSeeds DEF asked
<1>7. owned' \subseteq owned /\ removed' \subseteq Seeds
      /\ (\A s \in owned' : s \in Reachable(disk) \ Reachable(disk') => s \in cut')
  BY <1>3, <1>6, InvFacts DEF asked
<1>8. CASE disk' = [final EXCEPT !.active = NoId] /\ jobs' = jobs
  <2>1. disk' \in Disk /\ disk'.index = {} /\ disk'.single = NoSeed /\ disk'.retained = NoId
    BY <1>4, <1>8 DEF Disk
  <2>2. \A s : s \notin Reachable(disk')
    BY <2>1, ReachableFacts DEF Held, Stored
  <2> QED
    BY <1>3, <1>5, <1>7, <2>1, <2>2, InvFacts, EmptyInv
<1>9. CASE Killed /\ removed' = removed /\ disk' \in RemovalLoop(disk, Stored(disk), NoId) \cup {emptied}
  <2>1. Trimmed(disk, disk', Stored(disk))
    BY <1>1, <1>2, <1>9, LoopTrims
  <2> QED
    BY <1>3, <1>5, <1>7, <1>9, <2>1, InvFacts, TrimInv
<1>10. CASE Killed /\ removed' = removed /\ disk' \in Interim(writes)
  <2>1. /\ disk' \in Disk /\ disk'.index = {} /\ disk'.single = NoSeed
        /\ disk'.retained = disk.retained /\ disk.retained \in Ids
    BY <1>2, <1>4, <1>10 DEF Drops
  <2>2. disk'.retained < nextId
    BY <2>1, InvFacts, IdFacts DEF DiskOK
  <2>3. Reachable(disk') \subseteq Reachable(disk)
    <3>1. DiskOK(emptied, nextId) /\ Reachable(emptied) \subseteq Reachable(disk)
      BY <1>2, InvFacts, TrimmedOK
    <3>2. Reachable(disk') \subseteq Reachable(emptied)
      BY <1>2, <1>4, <1>10, <2>1, <3>1, DropsOK
    <3> QED
      BY <3>1, <3>2
  <2>4. jobs' = {}
    BY <1>10, Dies
  <2> QED
    BY <1>3, <1>5, <1>7, <1>10, <2>1, <2>2, <2>3, <2>4, InvFacts, EmptyInv
<1> QED
  BY <1>3, <1>8, <1>9, <1>10

-----------------------------------------------------------------------------
(* The application starts. *)

\* The survivor of an address is listed under it and opens if any of them does.
LEMMA Survives ==
    ASSUME Inv, NEW id \in Merged(disk)
    PROVE  \E e, f \in disk.index :
               /\ e.id = id /\ e.address # Blank /\ f.address = e.address
               /\ f.id \notin Merged(disk)
               /\ Opens(disk, id) => Opens(disk, f.id)
<1>1. PICK e \in disk.index : e.id = id /\ e.address # Blank /\ Survivor(disk, e.address) # id
  BY DEF Merged
<1> DEFINE same == SameAddress(disk, e.address)
           openable == {m \in same : Opens(disk, m)}
<1>2. same \subseteq Ids /\ id \in same
  BY <1>1, InvFacts, DiskFacts DEF SameAddress
<1>3. Survivor(disk, e.address) = Smallest(IF openable # {} THEN openable ELSE same)
  BY DEF Survivor
<1>4. Survivor(disk, e.address) \in same
      /\ (Opens(disk, id) => Opens(disk, Survivor(disk, e.address)))
  <2>1. CASE openable # {}
    BY <1>2, <1>3, <2>1, SmallestId
  <2>2. CASE openable = {}
    BY <1>2, <1>3, <2>2, SmallestId
  <2> QED
    BY <2>1, <2>2
<1>5. PICK f \in disk.index : f.id = Survivor(disk, e.address) /\ f.address = e.address
  BY <1>4 DEF SameAddress
<1>6. f.id \notin Merged(disk)
  <2>1. ASSUME NEW g \in disk.index, g.id = f.id PROVE g = f
    BY <2>1, InvFacts DEF DiskOK
  <2> QED
    BY <1>5, <2>1 DEF Merged
<1> QED
  BY <1>1, <1>4, <1>5, <1>6

LEMMA LaunchStep == ASSUME Inv, Launch PROVE Inv'
<1> DEFINE dropped == Merged(disk)
           rest == {e \in disk.index : e.id \notin dropped}
           indexed == [disk EXCEPT !.index = rest]
           files(gone) == [id \in Ids |-> IF id \in gone THEN NoSeed ELSE disk.files[id]]
           sealed(gone) == [indexed EXCEPT !.files = files(gone)]
           active == IF disk.active \in dropped
                       THEN Survivor(disk, Entry(disk, disk.active).address) ELSE disk.active
           done == [sealed(dropped) EXCEPT !.active = active]
           lost == IF secure THEN {} ELSE {disk.files[id] : id \in dropped} \ {NoSeed}
<1>1. disk \in Disk /\ dropped \in SUBSET Stored(disk) /\ dropped \subseteq Ids
  BY InvFacts DEF Merged, Stored
<1>2. /\ ~up /\ foreign' = foreign /\ nextId' = nextId /\ adopted' = adopted
      /\ removed' = removed /\ owned' = owned /\ cut' = cut \cup lost
      /\ ready' = ready /\ jobs' = jobs /\ duplicate' = duplicate /\ live' = live
      /\ \/ up' = TRUE /\ disk' = done /\ secure' = secure
         \/ up' = up /\ secure' \in BOOLEAN /\ \E gone \in SUBSET dropped : disk' = sealed(gone)
  <2>1. indexed.files = disk.files
    BY <1>1 DEF Disk
  <2>2. \A gone : sealed(gone).active = disk.active
    BY <1>1 DEF Disk
  <2>3. \A gone \in {dropped \cap Earlier(disk, id) : id \in dropped} \cup {dropped} :
            gone \in SUBSET dropped
    OBVIOUS
  <2>4. /\ ~up /\ UNCHANGED <<foreign, nextId, removed, owned, adopted, ready, live, jobs, duplicate>>
        /\ cut' = cut \cup lost
    BY DEF Launch
  <2>5. \/ up' = TRUE /\ disk' = done /\ secure' = secure
        \/ /\ up' = up /\ secure' \in BOOLEAN
           /\ \E gone \in {dropped \cap Earlier(disk, id) : id \in dropped} \cup {dropped} :
                  disk' = sealed(gone)
    BY <2>1, <2>2 DEF Launch
  <2> QED
    BY <2>3, <2>4, <2>5
<1>3. ~ready /\ jobs = {}
  BY <1>2, InvFacts DEF RunInv
<1>4. active \in Ids \cup {NoId}
  <2>1. \A address : Survivor(disk, address) \in Ids \cup {NoId}
    <3> TAKE address
    <3>1. SameAddress(disk, address) \subseteq Ids
      BY InvFacts, DiskFacts DEF SameAddress
    <3>2. {id \in SameAddress(disk, address) : Opens(disk, id)} \subseteq Ids
      BY <3>1
    <3> QED
      BY <3>1, <3>2, SmallestId DEF Survivor
  <2> QED
    BY <1>1, <2>1, DiskFacts
<1>5. indexed \in Disk /\ indexed.index = rest /\ indexed.files = disk.files
      /\ indexed.retained = disk.retained /\ indexed.single = disk.single
  BY <1>1 DEF Disk
<1> HIDE DEF indexed, active, lost
<1>6. ASSUME NEW gone \in SUBSET dropped
      PROVE  Trimmed(disk, sealed(gone), dropped) /\ sealed(gone).index = rest
  <2>1. files(gone) \in [Ids -> Seeds \cup {NoSeed}]
    BY <1>1, DiskFacts
  <2> HIDE DEF files
  <2>2. sealed(gone) \in Disk /\ sealed(gone).index = rest /\ sealed(gone).files = files(gone)
        /\ sealed(gone).retained = disk.retained /\ sealed(gone).single = disk.single
    BY <1>5, <2>1 DEF Disk
  <2> HIDE DEF sealed
  <2>3. \A id \in Ids : \/ files(gone)[id] = disk.files[id]
                        \/ id \in dropped /\ files(gone)[id] = NoSeed
    BY DEF files
  <2>4. \A id \in dropped : id \notin Stored(sealed(gone))
    BY <2>2 DEF Stored
  <2> QED
    BY <2>2, <2>3, <2>4 DEF Trimmed
<1>7. Trimmed(disk, done, dropped) /\ done.index = rest
  <2>1. Trimmed(disk, sealed(dropped), dropped) /\ sealed(dropped).index = rest
    BY <1>6
  <2> HIDE DEF sealed
  <2> QED
    BY ZenonT(30), <1>4, <2>1, ActiveMoves DEF Disk, Trimmed
<1> HIDE DEF done, sealed
<1>8. Trimmed(disk, disk', dropped) /\ disk'.index = rest
  BY <1>2, <1>6, <1>7
<1> HIDE DEF dropped
<1>9. ASSUME NEW s \in Reachable(disk) \ Reachable(disk') PROVE s \in lost
  <2>1. PICK id \in dropped \ foreign : disk.files[id] = s
    BY <1>1, <1>8, <1>9, InvFacts, TrimmedOK
  <2>2. s # NoSeed
    BY <1>9, ReachableFacts
  <2>3. CASE secure
    <3>1. Opens(disk, id)
      BY <2>1, <2>2, <2>3 DEF Opens
    <3>2. PICK e, f \in disk.index :
              /\ e.id = id /\ e.address # Blank /\ f.address = e.address
              /\ f.id \notin dropped /\ Opens(disk, f.id)
      BY <2>1, <3>1, Survives DEF dropped
    <3>3. f.id \notin foreign /\ e.id \notin foreign
      BY <2>1, <3>2 DEF Opens
    <3>4. e.address = <<disk.files[e.id], e.path>> /\ f.address = <<disk.files[f.id], f.path>>
      BY <3>2, <3>3, InvFacts DEF DiskOK
    <3>5. disk.files[f.id] = s
      BY <2>1, <3>2, <3>4
    <3>6. f.id \in Held(disk')
      BY <1>8, <3>2 DEF Held, Stored
    <3>7. disk'.files[f.id] = s
      <4> HIDE DEF rest, files
      <4>1. DiskOK(disk, nextId) /\ dropped \in SUBSET Stored(disk) /\ Trimmed(disk, disk', dropped)
        BY <1>1, <1>8, InvFacts
      <4>2. \A m \in Held(disk') : disk'.files[m] = disk.files[m]
        <5> DEFINE new == disk'
        <5>1. Trimmed(disk, new, dropped)
          BY <4>1
        <5> HIDE DEF new
        <5>2. \A m \in Held(new) : new.files[m] = disk.files[m]
          BY <4>1, <5>1, TrimmedFiles
        <5> QED
          BY <5>2 DEF new
      <4> QED
        BY <3>5, <3>6, <4>2
    <3> QED
      BY <1>9, <2>2, <3>3, <3>6, <3>7, ReachableFacts
  <2>4. CASE ~secure
    BY <2>1, <2>2, <2>4 DEF lost
  <2> QED
    BY <2>3, <2>4
<1>10. cut' \subseteq Seeds
  <2>1. lost \subseteq Seeds
    BY <1>1, DiskFacts DEF lost
  <2> QED
    BY <1>2, <2>1, InvFacts
<1>11. Quiet /\ RestTyped'
  BY <1>2, <1>3, InvFacts DEF Quiet, RestTyped
<1>12. Core' /\ Reachable(disk') \subseteq Reachable(disk) /\ disk' \in Disk
  <2>1. DiskOK(disk, nextId) /\ dropped \in SUBSET Stored(disk) /\ Core /\ cut \subseteq cut'
    BY <1>1, <1>2, InvFacts
  <2>2. Core'
    BY <1>2, <1>8, <1>11, <2>1, TrimCore
  <2>3. Reachable(disk') \subseteq Reachable(disk)
    BY <1>8, <2>1, TrimmedOK
  <2> QED
    BY <1>8, <2>2, <2>3 DEF Trimmed
<1>13. TypeOK'
  BY <1>2, <1>10, <1>11, <1>12, InvFacts, TypeKept
<1>14. OneEntryPerAddress'
  <2> SUFFICES ASSUME NEW e \in rest, NEW f \in rest,
                      e.address = f.address, e.address # Blank
               PROVE  e = f
    BY <1>8 DEF OneEntryPerAddress
  <2>1. Survivor(disk, e.address) = e.id /\ Survivor(disk, f.address) = f.id
    BY DEF Merged, dropped
  <2> QED
    BY <2>1, InvFacts DEF DiskOK
<1>15. (SeedsStay /\ RemovedIsGone)'
  BY <1>2, <1>9, <1>12, InvFacts, HistoryKept
<1> QED
  BY <1>12, <1>13, <1>14, <1>15 DEF Inv

-----------------------------------------------------------------------------
(* The active wallet is read. *)

\* An address is filled in.
LEMMA FillStep ==
    ASSUME Inv, NEW j \in jobs, Restored(j), j.fill PROVE Inv'
<1> DEFINE filled(e) == IF e.id = j.id THEN [e EXCEPT !.address = j.address] ELSE e
           index == {filled(e) : e \in disk.index}
<1>1. /\ disk' = [disk EXCEPT !.index = index] /\ up /\ up' = up /\ jobs' = jobs \ {j}
      /\ ready' = TRUE /\ live' = live
      /\ j.kind = "restore" /\ foreign' = foreign /\ nextId' = nextId /\ secure' = secure
      /\ duplicate' = duplicate
      /\ owned' = owned /\ removed' = removed /\ cut' = cut /\ adopted' = adopted
  <2>1. index = {IF e.id = j.id THEN [e EXCEPT !.address = j.address] ELSE e : e \in disk.index}
    OBVIOUS
  <2> HIDE DEF index
  <2> QED
    BY <2>1, InvFacts DEF Restored, history, Disk
<1>2. /\ j.id \in Ids \ foreign /\ j.id < nextId /\ j.address \in Seeds \X Paths /\ j.address # Blank
      /\ \A e \in disk.index : e.id = j.id => j.address = <<disk.files[e.id], e.path>>
  BY <1>1, InvFacts, BlankFacts DEF JobInv, JobOK
<1>3. ASSUME NEW e \in disk.index
      PROVE  /\ filled(e) \in Entries /\ filled(e).id = e.id /\ filled(e).path = e.path
             /\ filled(e).address = IF e.id = j.id THEN j.address ELSE e.address
  <2>1. e \in Entries
    BY InvFacts, DiskFacts
  <2> QED
    BY <1>2, <2>1 DEF Entries
<1> HIDE DEF filled
<1>4. index \subseteq Entries
  BY <1>3
<1>5. /\ \A e \in index : \E f \in disk.index : e = filled(f)
      /\ \A f \in disk.index : filled(f) \in index
  OBVIOUS
<1> HIDE DEF index
<1>6. disk' \in Disk /\ disk'.index = index /\ disk'.files = disk.files
      /\ disk'.retained = disk.retained /\ disk'.single = disk.single
  BY <1>1, <1>4, InvFacts DEF Disk
<1>7. Stored(disk') = Stored(disk)
  BY <1>3, <1>5, <1>6 DEF Stored
<1>8. DiskOK(disk', nextId)
  <2>1. DiskOK(disk, nextId)
    BY InvFacts
  <2>2. ASSUME NEW e \in index, e.id \notin foreign
        PROVE  disk.files[e.id] # NoSeed /\ (e.address # Blank => e.address = <<disk.files[e.id], e.path>>)
    <3>1. PICK f \in disk.index : e = filled(f)
      BY <1>5
    <3> QED
      BY <1>2, <1>3, <2>1, <2>2, <3>1 DEF DiskOK
  <2>3. \A e \in index : e.id < nextId
    BY <1>3, <1>5, <2>1 DEF DiskOK
  <2>4. \A e, f \in index : e.id = f.id => e = f
    BY <1>3, <1>5, <2>1 DEF DiskOK
  <2> QED
    BY <1>6, <1>7, <2>1, <2>2, <2>3, <2>4 DEF DiskOK
<1>9. DiskInv'
  BY <1>1, <1>8, Primes, InvFacts DEF Core, DiskInv
<1>10. RunInv' /\ SingleInv' /\ BlankInv' /\ KeptInv'
  <2>1. \A e \in index : \E f \in disk.index : e.id = f.id /\ (e.address = Blank => f.address = Blank)
    BY <1>2, <1>3, <1>5
  <2>2. BlankInv'
    BY <1>1, <1>6, <2>1, InvFacts DEF BlankInv
  <2>3. SingleInv'
    BY <1>1, <1>6, <2>1, InvFacts DEF SingleInv
  <2>4. KeptInv'
    <3>1. Unkept' <=> Unkept
      BY <1>1, <1>6 DEF Unkept
    <3>2. index # {} => disk.index # {}
      BY <2>1
    <3> QED
      BY <1>1, <1>6, <3>1, <3>2, InvFacts DEF KeptInv
  <2> QED
    BY <1>1, <2>2, <2>3, <2>4 DEF RunInv
<1>11. JobInv'
  <2> SUFFICES ASSUME NEW i \in jobs' PROVE JobOK(i)'
    BY DEF JobInv
  <2>1. JobOK(i)
    BY <1>1, InvFacts DEF JobInv
  <2>2. \A e \in index : \E f \in disk.index : e.id = f.id /\ e.path = f.path
    BY <1>3, <1>5
  <2> QED
    BY <1>1, <1>6, <2>1, <2>2 DEF JobOK
<1>12. TypeOK'
  BY <1>1, <1>6, InvFacts, TypeKept DEF RestTyped
<1>13. OneEntryPerAddress'
  <2>1. ASSUME NEW e \in index, NEW f \in index, e # f, e.address = f.address, e.address # Blank
        PROVE  adopted \in {e.id, f.id}
    <3>1. PICK e0 \in disk.index, f0 \in disk.index : e = filled(e0) /\ f = filled(f0)
      BY <1>5
    <3>2. e0 # f0 /\ e0.id # f0.id /\ e.id = e0.id /\ f.id = f0.id
      BY <1>3, <2>1, <3>1, InvFacts DEF DiskOK
    <3>3. CASE e0.address = Blank \/ f0.address = Blank
      BY <3>2, <3>3, InvFacts DEF BlankInv
    <3>4. CASE e0.address # Blank /\ f0.address # Blank
      <4>1. e.address = e0.address /\ f.address = f0.address
        BY <1>2, <1>3, <3>1, <3>4, InvFacts DEF DiskOK
      <4> QED
        BY <1>1, <2>1, <3>2, <3>4, <4>1 DEF Inv, OneEntryPerAddress
    <3> QED
      BY <3>3, <3>4
  <2> QED
    BY <1>1, <1>6, <2>1 DEF OneEntryPerAddress
<1>14. (SeedsStay /\ RemovedIsGone)'
  <2>1. Reachable(disk') = Reachable(disk)
    BY <1>6, <1>7 DEF Reachable
  <2> QED
    BY <1>1, <2>1, InvFacts, HistoryKept
<1> QED
  BY <1>9, <1>10, <1>11, <1>12, <1>13, <1>14 DEF Inv, Core

LEMMA RestoredStep == ASSUME Inv, NEW j \in jobs, Restored(j) PROVE Inv'
<1>1. CASE j.fill
  BY <1>1, FillStep
<1>2. CASE ~j.fill
  <2>1. RestTyped' /\ Quiet /\ up' = up /\ UNCHANGED <<disk, foreign, nextId, history>>
    BY <1>2, InvFacts DEF Restored, RestTyped, Quiet
  <2> QED
    BY <2>1, SameDisk
<1> QED
  BY <1>1, <1>2

LEMMA RestoresInOrder ==
    ASSUME NEW d, NEW n, DiskOK(d, n), NEW j \in RestoreJobs(d)
    PROVE  /\ j.kind = "restore" /\ j.id \in Ids \ foreign /\ j.id < n /\ j.address \in Seeds \X Paths
           /\ \A e \in d.index : e.id = j.id => j.address = <<d.files[e.id], e.path>>
<1> DEFINE e == Entry(d, d.active)
<1>1. /\ d.active \in Stored(d) /\ Opens(d, d.active)
      /\ j = Job("restore", d.active, <<d.files[d.active], e.path>>, e.address = Blank)
  BY DEF RestoreJobs, HasStored
<1>2. e \in d.index /\ e.id = d.active /\ \A f \in d.index : f.id = d.active => f = e
  BY <1>1, EntryFacts
<1> HIDE DEF e
<1>3. d \in Disk /\ d.active \in Ids /\ e.path \in Paths
      /\ d.files[d.active] \in Seeds \cup {NoSeed}
  BY <1>1, <1>2, DiskFacts DEF DiskOK
<1>4. d.active < n /\ d.active \notin foreign /\ d.files[d.active] # NoSeed
  BY <1>1, <1>2 DEF DiskOK, Opens
<1>5. j.kind = "restore" /\ j.id = d.active /\ j.address = <<d.files[d.active], e.path>>
  BY <1>1 DEF Job
<1> QED
  BY <1>2, <1>3, <1>4, <1>5

\* The store is read, and nothing but the single-wallet file may go.
LEMMA LoadReads ==
    ASSUME Inv, Load, ~(disk.single # NoSeed /\ disk.index = {} /\ secure) PROVE Inv'
<1> DEFINE d == IF disk.index = {} THEN disk ELSE [disk EXCEPT !.single = NoSeed]
<1>1. disk \in Disk /\ d \in Disk /\ d.index = disk.index /\ d.files = disk.files
      /\ d.retained = disk.retained /\ d.active = disk.active
      /\ d.single \in {disk.single, NoSeed} /\ (disk.index # {} => d.single = NoSeed)
  BY InvFacts DEF Disk
<1>2. Migration(disk) = <<d>>
  <2>1. disk.single = NoSeed => [disk EXCEPT !.single = NoSeed] = disk
    BY InvFacts DEF Disk
  <2> QED
    BY <2>1 DEF Migration
<1> HIDE DEF d
<1>3. Last(<<d>>) = d /\ Interim(<<d>>) = {}
  BY LastInterim
<1>4. /\ up /\ disk' = d /\ jobs' = jobs \cup RestoreJobs(d)
      /\ nextId' = nextId /\ adopted' = adopted /\ cut' = cut /\ owned' = owned /\ removed' = removed
      /\ UNCHANGED <<foreign, up, secure, live, duplicate>>
      /\ ready' = (ready \/ RestoreJobs(d) = {})
  BY <1>1, <1>2, <1>3 DEF Load, KilledIn
<1>5. DiskOK(d, nextId) /\ Stored(d) = Stored(disk)
  BY <1>1, InvFacts DEF DiskOK, Stored
<1>6. DiskInv'
  BY <1>4, <1>5, Primes, InvFacts DEF Core, DiskInv
<1>7. JobInv'
  <2> SUFFICES ASSUME NEW j \in jobs' PROVE JobOK(j)'
    BY DEF JobInv
  <2>1. CASE j \in jobs
    <3>1. JobOK(j)
      BY <2>1, InvFacts DEF JobInv
    <3> QED
      BY <1>1, <1>4, <3>1 DEF JobOK
  <2>2. CASE j \in RestoreJobs(d)
    BY <1>4, <1>5, <2>2, RestoresInOrder DEF JobOK
  <2> QED
    BY <1>4, <2>1, <2>2
<1>8. RunInv' /\ SingleInv' /\ BlankInv' /\ KeptInv'
  <2>1. RunInv' /\ BlankInv'
    BY <1>1, <1>4, InvFacts DEF RunInv, BlankInv
  <2>2. SingleInv'
    BY <1>1, <1>4, InvFacts DEF SingleInv
  <2>3. KeptInv'
    <3>1. Unkept' <=> Unkept
      BY <1>1, <1>4 DEF Unkept
    <3>2. \A j \in jobs' : j \in jobs \/ j.kind = "restore"
      BY <1>4, <1>5, RestoresInOrder
    <3> QED
      BY <1>1, <1>4, <3>1, <3>2, InvFacts DEF KeptInv
  <2> QED
    BY <2>1, <2>2, <2>3
<1>9. TypeOK'
  <2>1. RestTyped'
    BY <1>4, InvFacts DEF RestTyped
  <2> QED
    BY <1>1, <1>4, <2>1, InvFacts, TypeKept
<1>10. OneEntryPerAddress'
  BY <1>1, <1>4, EntriesShrink DEF Inv
<1>11. Reachable(d) = Reachable(disk)
  <2>1. CASE d.single = disk.single
    BY <1>1, <1>5, <2>1 DEF Reachable
  <2>2. CASE d.single = NoSeed /\ disk.single # NoSeed
    <3>1. \E id \in Held(disk) \ foreign : disk.files[id] = disk.single
      <4>1. PICK e \in disk.index : e.id \notin foreign /\ disk.files[e.id] = disk.single
        <5>1. disk.index # {}
          BY <2>2 DEF d
        <5> QED
          BY <2>2, <5>1, InvFacts DEF SingleInv
      <4> QED
        BY <4>1 DEF Held, Stored
    <3>2. Held(d) = Held(disk)
      BY <1>1, <1>5 DEF Held
    <3>3. \A s : s \in Reachable(d) <=> s \in Reachable(disk)
      BY <1>1, <2>2, <3>1, <3>2, ReachableFacts
    <3> QED
      BY <3>3
  <2> QED
    BY <1>1, <2>1, <2>2
<1>12. (SeedsStay /\ RemovedIsGone)'
  BY <1>4, <1>11, InvFacts, HistoryKept
<1> QED
  BY <1>6, <1>7, <1>8, <1>9, <1>10, <1>12 DEF Inv, Core

\* The single-wallet file becomes a wallet.
Adopts(new, entry) ==
    /\ new \in Disk /\ new.index \in {{}, {entry}} /\ new.retained = NoId
    /\ new.files[nextId] = disk.single
    /\ new.single \in {disk.single, NoSeed} /\ (new.single = NoSeed => new.index = {entry})

LEMMA MigrationAdopts ==
    ASSUME Inv, disk.single # NoSeed, disk.index = {}, secure, nextId \in Ids,
           NEW entry, entry = [id |-> nextId, path |-> 0, address |-> Blank]
    PROVE  \E a, b, c, z : /\ Migration(disk) = <<a, b, c, z>>
                           /\ Adopts(a, entry) /\ Adopts(b, entry) /\ Adopts(c, entry) /\ Adopts(z, entry)
                           /\ z.single = NoSeed
<1> DEFINE files == [disk.files EXCEPT ![nextId] = disk.single]
           filed == [disk EXCEPT !.files = files]
           indexed == [filed EXCEPT !.index = {entry}]
           active == [indexed EXCEPT !.active = nextId]
           final == [active EXCEPT !.single = NoSeed]
<1>1. /\ disk \in Disk /\ disk.single \in Seeds /\ disk.retained = NoId
      /\ files \in [Ids -> Seeds \cup {NoSeed}] /\ files[nextId] = disk.single
  BY InvFacts, DiskFacts DEF SingleInv
<1>2. {entry} \in SUBSET Entries /\ {entry} # {}
  BY WalletStoreAssumption DEF Entries
<1>3. Migration(disk) = <<filed, indexed, active, final>>
  BY DEF Migration
<1> HIDE DEF files
<1>4. filed \in Disk /\ filed.index = {} /\ filed.retained = NoId
      /\ filed.files = files /\ filed.single = disk.single
  BY <1>1 DEF Disk
<1> HIDE DEF filed
<1>5. indexed \in Disk /\ indexed.index = {entry} /\ indexed.retained = NoId
      /\ indexed.files = files /\ indexed.single = disk.single
  BY <1>2, <1>4 DEF Disk
<1> HIDE DEF indexed
<1>6. active \in Disk /\ active.index = {entry} /\ active.retained = NoId
      /\ active.files = files /\ active.single = disk.single
  BY <1>5 DEF Disk
<1> HIDE DEF active
<1>7. final \in Disk /\ final.index = {entry} /\ final.retained = NoId
      /\ final.files = files /\ final.single = NoSeed
  BY <1>6 DEF Disk
<1> HIDE DEF final
<1>8. Adopts(filed, entry) /\ Adopts(indexed, entry) /\ Adopts(active, entry) /\ Adopts(final, entry)
  BY <1>1, <1>4, <1>5, <1>6, <1>7 DEF Adopts
<1> QED
  BY <1>3, <1>7, <1>8

LEMMA LoadMigrates ==
    ASSUME Inv, Load, disk.single # NoSeed, disk.index = {}, secure PROVE Inv'
<1> DEFINE entry == [id |-> nextId, path |-> 0, address |-> Blank]
<1>1. nextId <= MaxWallets => nextId \in Ids
  BY InvFacts, WalletStoreAssumption DEF Ids
<1>2. nextId \in Ids
  <2>1. (Last(Migration(disk))).index # disk.index
    <3>1. Migration(disk)[4].index # {} /\ Len(Migration(disk)) = 4
      <4> DEFINE z == Migration(disk)[4]
                 active == [[[disk EXCEPT !.files[nextId] = disk.single]
                                EXCEPT !.index = {entry}] EXCEPT !.active = nextId]
      <4>1. z = [active EXCEPT !.single = NoSeed] /\ Len(Migration(disk)) = 4
        BY DEF Migration
      <4>2. z.index = {entry}
        BY <4>1, InvFacts DEF Disk
      <4> QED
        BY <4>1, <4>2
    <3> QED
      BY <3>1 DEF Last
  <2> QED
    BY <1>1, <2>1 DEF Load
<1>3. PICK a, b, c, z : /\ Migration(disk) = <<a, b, c, z>>
                        /\ Adopts(a, entry) /\ Adopts(b, entry) /\ Adopts(c, entry) /\ Adopts(z, entry)
                        /\ z.single = NoSeed
  BY <1>2, MigrationAdopts
<1>4. Last(<<a, b, c, z>>) = z /\ Interim(<<a, b, c, z>>) = {a, b, c}
  BY LastInterim
<1>5. z.index = {entry}
  BY <1>3 DEF Adopts
<1>6. entry.id = nextId /\ entry.address = Blank
  OBVIOUS
<1> HIDE DEF entry
<1>7. ~ready /\ jobs = {} /\ disk.retained = NoId /\ disk.single \in Seeds
  BY InvFacts, DiskFacts DEF SingleInv
<1>8. /\ up /\ nextId' = nextId + 1 /\ adopted' = nextId /\ cut' = cut
      /\ owned' = owned /\ removed' = removed /\ foreign' = foreign
      /\ \/ /\ disk' = z /\ jobs' = RestoreJobs(z)
            /\ UNCHANGED <<up, secure, live, duplicate>>
            /\ ready' \in BOOLEAN
         \/ Killed /\ disk' \in {a, b, c}
  BY <1>3, <1>4, <1>5, <1>7 DEF Load, KilledIn, Killed
<1>9. Adopts(disk', entry) /\ (~Killed => disk'.single = NoSeed /\ jobs' = RestoreJobs(disk'))
  BY <1>3, <1>8
<1>10. nextId \in Nat /\ nextId \notin foreign
  BY <1>2, IdFacts, InvFacts DEF Core, DiskInv
<1>11. DiskOK(disk', nextId + 1)
  BY <1>6, <1>7, <1>9, <1>10, SeedsAssumption DEF Adopts, DiskOK
<1>12. DiskInv'
  <2>1. \A id \in foreign : id < nextId + 1
    <3> SUFFICES ASSUME NEW id \in foreign PROVE id < nextId + 1
      OBVIOUS
    <3>1. id \in Nat /\ id < nextId
      BY InvFacts, IdFacts DEF Core, DiskInv
    <3> QED
      BY <1>10, <3>1
  <2> QED
    BY <1>8, <1>10, <1>11, <2>1, Primes, InvFacts
<1>13. JobInv' /\ RunInv' /\ RestTyped' /\ (ready' \/ jobs' # {} => disk'.single = NoSeed)
       /\ \A j \in jobs' : j.kind = "restore"
  <2>1. CASE Killed
    <3>1. RestTyped' /\ jobs' = {} /\ ready' = FALSE
      BY <2>1, Dies
    <3> QED
      BY <3>1 DEF JobInv, RunInv
  <2>2. CASE ~Killed
    <3>1. jobs' = RestoreJobs(disk') /\ disk'.single = NoSeed
          /\ UNCHANGED <<up, secure, live, duplicate>> /\ ready' \in BOOLEAN
      BY <1>8, <1>9, <2>2
    <3>2. JobInv' /\ \A j \in jobs' : j.kind = "restore"
      <4> SUFFICES ASSUME NEW j \in jobs' PROVE JobOK(j)' /\ j.kind = "restore"
        BY DEF JobInv
      <4> QED
        BY <1>8, <1>11, <3>1, RestoresInOrder DEF JobOK
    <3>3. RestTyped' /\ RunInv'
      BY <1>8, <3>1, InvFacts DEF RestTyped, RunInv
    <3> QED
      BY <3>1, <3>2, <3>3
  <2> QED
    BY <2>1, <2>2
<1>14. SingleInv' /\ BlankInv' /\ KeptInv'
  BY <1>6, <1>8, <1>9, <1>10, <1>13 DEF Adopts, SingleInv, BlankInv, KeptInv, Unkept
<1>15. nextId' \in 1 .. MaxWallets + 1
  BY <1>2, <1>8, WalletStoreAssumption DEF Ids
<1>16. TypeOK'
  BY <1>8, <1>9, <1>13, <1>15, InvFacts, TypeKept DEF Adopts
<1>17. OneEntryPerAddress'
  BY <1>9 DEF Adopts, OneEntryPerAddress
<1>18. \A s : s \in Reachable(disk') <=> s \in Reachable(disk)
  <2>1. \A s : s \in Reachable(disk) <=> s = disk.single
    BY <1>7, ReachableFacts DEF Held, Stored
  <2>2. Held(disk') \in {{}, {nextId}} /\ (disk'.single = NoSeed => Held(disk') = {nextId})
    BY <1>6, <1>9 DEF Adopts, Held, Stored
  <2>3. disk'.files[nextId] = disk.single /\ disk'.single \in {disk.single, NoSeed}
    BY <1>9 DEF Adopts
  <2> QED
    BY <1>10, <2>1, <2>2, <2>3, ReachableFacts
<1>19. (SeedsStay /\ RemovedIsGone)'
  BY <1>8, <1>18, InvFacts, HistoryKept
<1> QED
  BY <1>12, <1>13, <1>14, <1>16, <1>17, <1>19 DEF Inv, Core

LEMMA LoadStep == ASSUME Inv, Load PROVE Inv'
BY LoadReads, LoadMigrates

-----------------------------------------------------------------------------
(* A wallet is added. *)

\* What an addition must show: the disk grows, and then a retained copy of the
\* same seed may be dropped.
LEMMA GrowInv ==
    ASSUME Inv, up, secure, jobs # {}, nextId \in Ids, NEW address \in Seeds \X Paths,
           Clashes(disk, address) = {},
           NEW g, Grows(disk, g, NewEntry(nextId, address)),
           \/ disk' = g
           \/ /\ disk.retained \in Ids /\ disk.files[disk.retained] = address[1]
              /\ g.index = disk.index \cup {NewEntry(nextId, address)} /\ Drops(g, disk'),
           jobs' \subseteq jobs,
           jobs' # {} => secure' = secure /\ (disk' = g \/ disk'.retained = NoId),
           ready' \/ jobs' # {} => up', ready' => ready /\ secure' = secure, RestTyped',
           Unkept', foreign' = foreign, nextId' = nextId + 1, adopted' = adopted,
           cut \subseteq cut', cut' \subseteq Seeds, owned' \subseteq owned \cup {address[1]},
           address[1] \in owned' \ owned => disk'.index # disk.index,
           removed' = removed \ {address[1]}
    PROVE  Inv'
<1> DEFINE entry == NewEntry(nextId, address)
           seed == address[1]
<1>1. entry.id = nextId /\ entry.address = address /\ address # Blank
      /\ seed \in Seeds /\ seed # NoSeed
  BY BlankFacts DEF NewEntry
<1>2. /\ DiskOK(disk, nextId) /\ disk \in Disk /\ nextId \notin foreign /\ nextId \in Nat
  BY InvFacts, IdFacts DEF Core, DiskInv
<1>3. Grows(disk, g, entry)
  OBVIOUS
<1> HIDE DEF entry
<1>4. g \in Disk /\ g.index \in {disk.index, disk.index \cup {entry}} /\ g.retained = disk.retained
      /\ g.files[nextId] = seed /\ (\A id \in Ids : id # nextId => g.files[id] = disk.files[id])
  BY <1>1, <1>3 DEF Grows
<1>5. disk' \in Disk /\ disk'.index = g.index
  BY <1>4 DEF Drops
<1>6. DiskOK(g, nextId + 1)
      /\ Reachable(disk) \subseteq Reachable(g) /\ Reachable(g) \subseteq Reachable(disk) \cup {seed}
      /\ (nextId \in Stored(g) => seed \in Reachable(g))
  BY <1>2, GrowsOK
<1>7. /\ Reachable(disk) \subseteq Reachable(disk')
      /\ Reachable(disk') \subseteq Reachable(disk) \cup {seed}
      /\ disk'.index # disk.index => seed \in Reachable(disk')
  <2>1. CASE disk' = g
    <3>1. disk'.index # disk.index => nextId \in Stored(g)
      BY <1>1, <1>4, <2>1 DEF Stored
    <3> QED
      BY <1>6, <2>1, <3>1
  <2>2. CASE /\ disk.retained \in Ids /\ disk.files[disk.retained] = seed
             /\ g.index = disk.index \cup {entry} /\ Drops(g, disk')
    <3>1. /\ Reachable(disk') \subseteq Reachable(g)
          /\ \A s \in Reachable(g) \ Reachable(disk') : s = g.files[g.retained]
      BY <1>4, <1>6, <2>2, DropsOK
    <3>2. g.retained # nextId
      BY <1>2, <1>4, <2>2, IdFacts DEF DiskOK
    <3>3. g.files[g.retained] = seed
      BY <1>4, <2>2, <3>2
    <3>4. disk'.files[nextId] = seed /\ nextId \in Held(disk')
      BY <1>1, <1>4, <1>5, <2>2, <3>2 DEF Drops, Held, Stored
    <3>5. seed \in Reachable(disk')
      BY <1>1, <1>2, <3>4, ReachableFacts
    <3> QED
      BY <1>6, <3>1, <3>3, <3>5
  <2> QED
    BY <2>1, <2>2 DEF entry
<1>8. Core'
  <2>1. disk.single = NoSeed
    BY InvFacts DEF SingleInv
  <2>2. \A j \in jobs' : j \in jobs /\ (j.kind = "import" => Unkept')
                         /\ (j.kind = "derive" => Unkept' \/ disk'.retained = j.id)
    OBVIOUS
  <2>3. disk' = g \/ (disk.retained \in Ids /\ Drops(g, disk'))
    OBVIOUS
  <2>4. Core
    BY InvFacts
  <2> QED
    BY <1>3, <2>1, <2>2, <2>3, <2>4, GrowCore DEF entry
<1>9. TypeOK'
  <2>1. nextId' \in 1 .. MaxWallets + 1
    BY WalletStoreAssumption DEF Ids
  <2> QED
    BY <1>1, <1>5, <2>1, InvFacts, TypeKept
<1>10. OneEntryPerAddress'
  <2>1. ASSUME NEW e \in disk'.index, NEW f \in disk'.index,
               e # f, e.address = f.address, e.address # Blank
        PROVE  adopted \in {e.id, f.id}
    <3>1. ASSUME NEW h \in disk.index, h.address = address PROVE FALSE
      <4>1. h \in {i \in disk.index : i.address # Blank /\ i.address = address}
        BY <1>1, <3>1
      <4>2. h.id \in Clashes(disk, address)
        BY <4>1 DEF Clashes
      <4> QED
        BY <4>2
    <3>2. e \in disk.index /\ f \in disk.index
      BY <1>1, <1>4, <1>5, <2>1, <3>1
    <3> QED
      BY <2>1, <3>2 DEF Inv, OneEntryPerAddress
  <2> QED
    BY <2>1 DEF OneEntryPerAddress
<1>11. (SeedsStay /\ RemovedIsGone)'
  <2>1. \A s \in owned' : s \in Reachable(disk') \/ s \in cut' \/ (s \in owned /\ s \notin Reachable(disk))
    BY <1>7
  <2>2. \A s \in removed' : s \in Reachable(disk') =>
            s \in cut' \/ (s \in removed /\ s \in Reachable(disk))
    BY <1>7
  <2> QED
    BY <2>1, <2>2, HistoryKept
<1> QED
  BY <1>8, <1>9, <1>10, <1>11 DEF Inv

LEMMA ImportedStep == ASSUME Inv, NEW j \in jobs, Imported(j) PROVE Inv'
<1> DEFINE address == j.address
           seed == address[1]
<1>1. /\ up /\ secure /\ j.kind = "import" /\ Clashes(disk, address) = {} /\ nextId <= MaxWallets
      /\ nextId' = nextId + 1 /\ cut' = cut /\ adopted' = adopted
  BY DEF Imported
<1>2. address \in Seeds \X Paths /\ address[2] = 0 /\ Unkept /\ disk \in Disk /\ seed \in Seeds
  BY <1>1, WalletStoreAssumption, InvFacts DEF JobInv, JobOK, KeptInv
<1>3. nextId \in Ids
  BY <1>1, InvFacts, WalletStoreAssumption DEF Ids
<1>4. PICK a, b, c :
          /\ Addition(disk, nextId, address, 0) = <<a, b, c>>
          /\ Grows(disk, a, NewEntry(nextId, address)) /\ Grows(disk, b, NewEntry(nextId, address))
          /\ Grows(disk, c, NewEntry(nextId, address))
          /\ c.index = disk.index \cup {NewEntry(nextId, address)}
  <2> HIDE DEF address
  <2>1. \E a, b, c :
            /\ Addition(disk, nextId, address, address[2]) = <<a, b, c>>
            /\ \A w \in {a, b, c} : Grows(disk, w, NewEntry(nextId, address))
            /\ a.index = disk.index
            /\ b.index = disk.index \cup {NewEntry(nextId, address)}
            /\ c.index = disk.index \cup {NewEntry(nextId, address)}
    BY <1>2, <1>3, AdditionGrows
  <2> QED
    BY <1>2, <2>1
<1> DEFINE done == [c EXCEPT !.active = nextId]
<1>5. Last(<<a, b, c>>) = c /\ Writes(<<a, b, c>>) = {a, b, c}
  BY LastInterim, ThreeWrites
<1>6. Grows(disk, done, NewEntry(nextId, address)) /\ done.index = disk.index \cup {NewEntry(nextId, address)}
  BY <1>3, <1>4 DEF Grows, Disk
<1>7. \/ /\ disk' = done /\ loaded' = [id |-> nextId, address |-> address]
         /\ jobs' = jobs \ {j} /\ owned' = owned \cup {seed} /\ removed' = removed \ {seed}
         /\ UNCHANGED <<foreign, secure, up, ready, live, duplicate>>
      \/ /\ Killed /\ disk' \in {a, b, c} /\ owned' = owned /\ removed' = removed \ {seed}
  BY <1>4, <1>5 DEF Imported, KilledAdding, Writes
<1> HIDE DEF done, address, seed
<1>8. Grows(disk, disk', NewEntry(nextId, address))
  BY <1>4, <1>6, <1>7
<1>9. Unkept'
  <2>1. disk.retained # NoId => disk.retained # nextId /\ disk.retained \in Ids
    BY <1>2, <1>3, InvFacts, DiskFacts, IdFacts DEF DiskOK
  <2>2. disk'.retained = disk.retained
        /\ \A id \in Ids : id # nextId => disk'.files[id] = disk.files[id]
    BY <1>8 DEF Grows, NewEntry
  <2> QED
    BY <1>1, <1>2, <2>1, <2>2 DEF Unkept
<1>10. /\ jobs' \subseteq jobs /\ foreign' = foreign
       /\ (jobs' # {} => secure' = secure) /\ (ready' \/ jobs' # {} => up')
       /\ (ready' => ready /\ secure' = secure) /\ RestTyped'
  <2>1. CASE Killed
    BY <2>1, Dies
  <2>2. CASE UNCHANGED <<foreign, secure, up, ready, live, duplicate>> /\ jobs' = jobs \ {j}
    BY <1>1, <2>2, InvFacts DEF RestTyped
  <2> QED
    BY <1>7, <2>1, <2>2
<1>11. seed \in owned' \ owned => disk'.index # disk.index
  <2>1. NewEntry(nextId, address) \notin disk.index
    BY <1>3, IdFacts, InvFacts DEF DiskOK, NewEntry
  <2> QED
    BY <1>6, <1>7, <2>1
<1>12. owned' \subseteq owned \cup {seed} /\ removed' = removed \ {seed} /\ cut \subseteq cut' /\ cut' \subseteq Seeds
  BY <1>1, <1>7, InvFacts
<1> QED
  BY <1>1, <1>2, <1>3, <1>8, <1>9, <1>10, <1>11, <1>12, GrowInv DEF address, seed

LEMMA DerivedStep == ASSUME Inv, NEW j \in jobs, Derived(j) PROVE Inv'
<1> DEFINE address == j.address
           seed == address[1]
           entry == NewEntry(nextId, address)
           added == Addition(disk, nextId, address, address[2])
           undone == IF disk.retained = j.id THEN Unretained(Last(added)) ELSE <<Last(added)>>
           writes == added \o undone
<1>1. /\ up /\ j.kind = "derive" /\ Clashes(disk, address) = {} /\ nextId <= MaxWallets
      /\ nextId' = nextId + 1 /\ adopted' = adopted
  BY DEF Derived
<1>2. /\ secure /\ j.id \in Ids /\ address \in Seeds \X Paths /\ seed \in Seeds /\ disk \in Disk
      /\ (disk.retained = j.id => disk.files[j.id] = seed)
      /\ (Unkept \/ disk.retained = j.id)
  BY <1>1, InvFacts DEF JobInv, JobOK, KeptInv
<1>3. nextId \in Ids
  BY <1>1, InvFacts, WalletStoreAssumption DEF Ids
<1>4. \/ /\ disk' = Last(writes)
         /\ jobs' = jobs \ {j} /\ owned' = owned \cup {seed} /\ removed' = removed \ {seed}
         /\ cut' = cut /\ UNCHANGED <<foreign, secure, up, ready, live, duplicate>>
      \/ /\ Killed /\ disk' \in Interim(writes) /\ owned' = owned /\ removed' = removed \ {seed}
         /\ cut' = IF disk.retained = j.id THEN cut \cup {seed} ELSE cut
  BY DEF Derived, KilledAdding
<1> HIDE DEF address, seed
<1>5. PICK a, b, c :
          /\ added = <<a, b, c>>
          /\ Grows(disk, a, entry) /\ Grows(disk, b, entry) /\ Grows(disk, c, entry)
          /\ c.index = disk.index \cup {entry}
  <2>1. \E a, b, c :
            /\ Addition(disk, nextId, address, address[2]) = <<a, b, c>>
            /\ \A w \in {a, b, c} : Grows(disk, w, NewEntry(nextId, address))
            /\ a.index = disk.index
            /\ b.index = disk.index \cup {NewEntry(nextId, address)}
            /\ c.index = disk.index \cup {NewEntry(nextId, address)}
    BY <1>2, <1>3, AdditionGrows
  <2> QED
    BY <2>1
<1>6. c \in Disk /\ c.retained = disk.retained /\ Last(added) = c
  <2>1. Last(<<a, b, c>>) = c
    BY LastInterim
  <2> QED
    BY <1>5, <2>1 DEF Grows
<1> HIDE DEF entry, added
<1>7. \/ Last(writes) = c /\ disk.retained # j.id /\ Interim(writes) = {a, b, c}
      \/ \E x, y : /\ Last(writes) = y /\ disk.retained = j.id /\ Interim(writes) = {a, b, c, x}
                   /\ Drops(c, x) /\ Drops(c, y) /\ y.retained = NoId
  <2>1. CASE disk.retained # j.id
    <3>1. writes = <<a, b, c>> \o <<c>>
      BY <1>5, <1>6, <2>1
    <3>2. Last(<<a, b, c>> \o <<c>>) = c /\ Interim(<<a, b, c>> \o <<c>>) = {a, b, c}
      BY LastInterim
    <3> QED
      BY <2>1, <3>1, <3>2
  <2>2. CASE disk.retained = j.id
    <3>1. PICK x, y : Unretained(c) = <<x, y>> /\ Drops(c, x) /\ Drops(c, y) /\ y.retained = NoId
      BY <1>2, <1>6, <2>2, UnretainedDrops
    <3>2. writes = <<a, b, c>> \o <<x, y>>
      BY <1>5, <1>6, <2>2, <3>1
    <3>3. Last(<<a, b, c>> \o <<x, y>>) = y /\ Interim(<<a, b, c>> \o <<x, y>>) = {a, b, c, x}
      BY LastInterim
    <3> QED
      BY <2>2, <3>1, <3>2, <3>3
  <2> QED
    BY <2>1, <2>2
<1> HIDE DEF writes
<1>8. PICK g : /\ Grows(disk, g, entry)
               /\ \/ disk' = g
                  \/ /\ disk.retained = j.id /\ g.index = disk.index \cup {entry} /\ Drops(g, disk')
               /\ ~Killed /\ disk.retained = j.id => disk'.retained = NoId
               /\ ~Killed => disk'.index = disk.index \cup {entry} /\ (disk' = g \/ disk'.retained = NoId)
  <2>1. CASE disk' \in {a, b, c} /\ (Killed \/ (disk' = c /\ disk.retained # j.id))
    BY <1>5, <2>1
  <2>2. CASE Drops(c, disk') /\ disk.retained = j.id /\ (Killed \/ disk'.retained = NoId)
    <3>1. disk'.index = disk.index \cup {entry}
      BY <1>5, <2>2 DEF Drops
    <3> QED
      BY <1>5, <2>2, <3>1
  <2> QED
    BY <1>4, <1>7, <2>1, <2>2
<1>9. nextId \notin Held(disk) /\ disk.retained \in Ids \cup {NoId}
  BY <1>2, <1>3, InvFacts, DiskFacts, IdFacts DEF DiskOK, Held, Stored
<1>10. /\ g.retained = disk.retained
       /\ disk.retained # NoId => g.files[disk.retained] = disk.files[disk.retained]
  BY <1>8, <1>9 DEF Grows, entry, NewEntry, Held
<1>11. disk'.retained = NoId \/ (/\ disk'.retained = disk.retained
                                 /\ disk'.files[disk.retained] \in {disk.files[disk.retained], NoSeed})
  BY <1>8, <1>9, <1>10 DEF Drops
<1>12. cut \subseteq cut' /\ cut' \subseteq Seeds
       /\ owned' \subseteq owned \cup {seed} /\ removed' = removed \ {seed}
  BY <1>2, <1>4, InvFacts
<1>13. up' = up => ~Killed
  BY <1>1, InvFacts DEF Killed, RestTyped
<1>14. Unkept'
  <2>1. CASE disk.retained # j.id
    BY <1>2, <1>11, <1>12, <2>1 DEF Unkept
  <2>2. CASE disk.retained = j.id
    <3>1. CASE Killed
      <4>1. cut' = cut \cup {seed} /\ disk.files[disk.retained] = seed
        BY <1>2, <1>4, <1>13, <2>2, <3>1
      <4> QED
        BY <1>11, <4>1 DEF Unkept
    <3>2. CASE ~Killed
      BY <1>8, <2>2, <3>2 DEF Unkept
    <3> QED
      BY <3>1, <3>2
  <2> QED
    BY <2>1, <2>2
<1>15. /\ jobs' \subseteq jobs /\ foreign' = foreign
       /\ (jobs' # {} => secure' = secure /\ (disk' = g \/ disk'.retained = NoId))
       /\ (ready' \/ jobs' # {} => up')
       /\ (ready' => ready /\ secure' = secure) /\ RestTyped'
  <2>1. CASE Killed
    BY <2>1, Dies
  <2>2. CASE ~Killed
    <3>1. jobs' = jobs \ {j} /\ UNCHANGED <<foreign, secure, up, ready, live, duplicate>>
      BY <1>4, <2>2
    <3>2. disk' = g \/ disk'.retained = NoId
      BY <1>8, <2>2
    <3>3. RestTyped'
      BY <3>1, InvFacts DEF RestTyped
    <3> QED
      BY <1>1, <3>1, <3>2, <3>3
  <2> QED
    BY <2>1, <2>2
<1>16. seed \in owned' \ owned => disk'.index # disk.index
  <2>1. entry \notin disk.index
    BY <1>9 DEF Held, Stored, entry, NewEntry
  <2> QED
    BY <1>4, <1>8, <1>13, <2>1
<1>17. \/ disk' = g
       \/ /\ disk.retained \in Ids /\ disk.files[disk.retained] = seed
          /\ g.index = disk.index \cup {entry} /\ Drops(g, disk')
  BY <1>2, <1>8
<1> QED
  BY <1>1, <1>2, <1>3, <1>8, <1>12, <1>14, <1>15, <1>16, <1>17, GrowInv DEF address, seed, entry

-----------------------------------------------------------------------------
(* The specification. *)

LEMMA NextIdAbove ==
    ASSUME NEW d \in Disk, Stored(d) \in {{}, {1}, {1, 2}},
           NEW n, n = Smallest({id \in Ids \cup {MaxWallets + 1} : id \notin Stored(d)})
    PROVE  n \in 1 .. MaxWallets + 1 /\ \A id \in Stored(d) : id < n
<1> DEFINE free == {id \in Ids \cup {MaxWallets + 1} : id \notin Stored(d)}
<1>1. free \subseteq Nat /\ MaxWallets + 1 \in free
  BY DiskFacts, IdFacts
<1>2. n \in free
  BY <1>1, SmallestIn
<1>3. n \in 1 .. MaxWallets + 1 /\ n \notin Stored(d)
  BY <1>2, WalletStoreAssumption DEF Ids
<1> HIDE DEF free
<1>4. CASE Stored(d) = {}
  BY <1>3, <1>4
<1>5. CASE Stored(d) = {1}
  BY <1>3, <1>5, WalletStoreAssumption
<1>6. CASE Stored(d) = {1, 2}
  BY <1>3, <1>6, WalletStoreAssumption
<1> QED
  BY <1>3, <1>4, <1>5, <1>6

\* What every first disk is like.
Fresh(d, old) ==
    /\ d \in Disk /\ d.retained = NoId /\ Stored(d) \in {{}, {1}, {1, 2}} /\ old \subseteq Stored(d)
    /\ \A e, f \in d.index : e.id = f.id => e = f
    /\ d.single # NoSeed => d.index = {}
    /\ \A e \in d.index : /\ e.address # Blank
                          /\ e.id \notin old => /\ d.files[e.id] # NoSeed
                                                /\ e.address = <<d.files[e.id], e.path>>

SomeFiles(files) == \A id \in DOMAIN files : files[id] \in Seeds \cup {NoSeed}
SomeIndex(index) == index \subseteq Entries

LEMMA ProfileIs ==
    ASSUME NEW index, SomeIndex(index), NEW files, SomeFiles(files),
           NEW active \in Ids \cup {NoId}, NEW single \in Seeds \cup {NoSeed},
           NEW d, d = Profile(index, files, active, single)
    PROVE  /\ d \in Disk /\ d.index = index /\ d.retained = NoId /\ d.single = single
           /\ \A id \in Ids \cap DOMAIN files : d.files[id] = files[id]
<1> DEFINE all == [id \in Ids |-> IF id \in DOMAIN files THEN files[id] ELSE NoSeed]
<1>1. all \in [Ids -> Seeds \cup {NoSeed}]
      /\ \A id \in Ids \cap DOMAIN files : all[id] = files[id]
  BY DEF SomeFiles
<1>2. d = [index |-> index, active |-> active, retained |-> NoId, single |-> single, files |-> all]
  BY DEF Profile
<1> HIDE DEF all
<1> QED
  BY <1>1, <1>2 DEF Disk, SomeIndex

LEMMA FirstIsFresh ==
    ASSUME NEW d, NEW old, FirstDisk(d, old) PROVE Fresh(d, old)
<1>1. 1 \in Ids /\ 2 \in Ids /\ 0 \in Paths /\ NoSeed \notin Seeds
  BY WalletStoreAssumption, SeedsAssumption DEF Ids
<1>2. ASSUME NEW s \in Seeds, NEW id \in {1, 2}
      PROVE  /\ OldEntry(id, s) \in Entries /\ OldEntry(id, s).id = id
             /\ OldEntry(id, s).path = 0 /\ OldEntry(id, s).address = <<s, 0>>
             /\ <<s, 0>> # Blank /\ s # NoSeed
  <2>1. <<s, 0>> \in Seeds \X Paths
    BY <1>1
  <2> QED
    BY <1>1, <2>1, BlankFacts DEF OldEntry, Entries
<1>3. ASSUME NEW s \in Seeds \cup {NoSeed}, d = Profile({}, <<>>, NoId, s), old = {}
      PROVE  Fresh(d, old)
  <2> DEFINE index == {}
             files == <<>>
  <2>1. SomeIndex(index) /\ SomeFiles(files)
    BY DEF SomeIndex, SomeFiles
  <2>2. d = Profile(index, files, NoId, s) /\ NoId \in Ids \cup {NoId}
    BY <1>3
  <2> HIDE DEF index, files
  <2>3. d \in Disk /\ d.index = index /\ d.retained = NoId
    BY <2>1, <2>2, ProfileIs
  <2>4. d.index = {} /\ Stored(d) = {}
    BY <2>3 DEF index, Stored
  <2> QED
    BY <1>3, <2>3, <2>4 DEF Fresh
<1>4. ASSUME NEW s \in Seeds, NEW f \in {s, NoSeed},
             d = Profile({OldEntry(1, s)}, <<f>>, 1, NoSeed), old = {1}
      PROVE  Fresh(d, old)
  <2> DEFINE one == OldEntry(1, s)
             index == {one}
             files == <<f>>
  <2>1. one \in Entries /\ one.id = 1 /\ one.address # Blank
    BY <1>2
  <2> HIDE DEF one
  <2>2. SomeIndex(index) /\ SomeFiles(files)
    BY <2>1 DEF SomeIndex, SomeFiles
  <2>3. d = Profile(index, files, 1, NoSeed)
    BY <1>4 DEF one
  <2> HIDE DEF index, files
  <2>4. d \in Disk /\ d.index = index /\ d.retained = NoId /\ d.single = NoSeed
    BY <1>1, <2>2, <2>3, ProfileIs
  <2>5. d.index = {one} /\ Stored(d) = {1}
    BY <2>1, <2>4 DEF index, Stored
  <2> QED
    BY <1>4, <2>1, <2>4, <2>5 DEF Fresh
<1>5. ASSUME NEW s \in Seeds, NEW a \in {1, 2},
             d = Profile({OldEntry(1, s), OldEntry(2, s)}, <<s, s>>, a, NoSeed), old = {1}
      PROVE  Fresh(d, old)
  <2> DEFINE one == OldEntry(1, s)
             two == OldEntry(2, s)
             index == {one, two}
             files == <<s, s>>
  <2>1. /\ one \in Entries /\ one.id = 1 /\ one.address # Blank
        /\ two \in Entries /\ two.id = 2 /\ two.address = <<s, 0>> /\ two.path = 0
        /\ two.address # Blank /\ s # NoSeed
    BY <1>2
  <2> HIDE DEF one, two
  <2>2. SomeIndex(index) /\ SomeFiles(files)
    BY <2>1 DEF SomeIndex, SomeFiles
  <2>3. d = Profile(index, files, a, NoSeed)
    BY <1>5 DEF one, two
  <2>4. 2 \in DOMAIN files /\ files[2] = s
    OBVIOUS
  <2> HIDE DEF index, files
  <2>5. /\ d \in Disk /\ d.index = index /\ d.retained = NoId /\ d.single = NoSeed
        /\ d.files[2] = s
    BY <1>1, <2>2, <2>3, <2>4, ProfileIs
  <2>6. d.index = {one, two} /\ Stored(d) = {1, 2}
    BY <2>1, <2>5 DEF index, Stored
  <2>7. \A e \in d.index : /\ e.address # Blank
                           /\ e.id \notin old => /\ d.files[e.id] # NoSeed
                                                 /\ e.address = <<d.files[e.id], e.path>>
    BY <1>5, <2>1, <2>5, <2>6
  <2>8. ASSUME NEW e \in d.index, NEW f \in d.index, e.id = f.id PROVE e = f
    <3>1. e \in {one, two} /\ f \in {one, two}
      BY <2>6
    <3> QED
      BY <2>1, <2>8, <3>1
  <2>9. old \subseteq Stored(d) /\ Stored(d) \in {{}, {1}, {1, 2}}
    BY <1>5, <2>6
  <2> QED
    BY <2>5, <2>7, <2>8, <2>9 DEF Fresh
<1> QED
  BY <1>3, <1>4, <1>5 DEF FirstDisk

LEMMA InitInv == ASSUME Init PROVE Inv
<1>1. Fresh(disk, foreign)
  BY FirstIsFresh DEF Init
<1>2. disk \in Disk /\ Stored(disk) \subseteq Ids /\ foreign \subseteq Ids
  BY <1>1, DiskFacts DEF Fresh
<1>3. nextId \in 1 .. MaxWallets + 1 /\ \A id \in Stored(disk) : id < nextId
  BY <1>1, <1>2, NextIdAbove DEF Init, Fresh
<1>4. nextId \in Nat
  BY <1>3, WalletStoreAssumption
<1>5. /\ up = FALSE /\ ready = FALSE /\ live = FALSE /\ jobs = {} /\ duplicate = NoId
      /\ secure \in BOOLEAN /\ owned = Reachable(disk) /\ removed = {} /\ cut = {}
  BY DEF Init
<1>6. DiskOK(disk, nextId)
  BY <1>1, <1>3 DEF Fresh, DiskOK, Stored
<1>7. DiskInv
  BY <1>1, <1>2, <1>3, <1>4, <1>6 DEF DiskInv, Fresh
<1>8. RunInv /\ JobInv /\ SingleInv /\ KeptInv /\ BlankInv
  BY <1>1, <1>5 DEF RunInv, JobInv, SingleInv, KeptInv, Unkept, BlankInv, Fresh
<1>9. TypeOK
  <2>1. owned \subseteq Seeds /\ removed \subseteq Seeds /\ cut \subseteq Seeds
    BY <1>2, <1>5, ReachableSeeds
  <2> QED
    BY <1>2, <1>3, <1>5, <2>1 DEF TypeOK
<1>10. OneEntryPerAddress /\ SeedsStay /\ RemovedIsGone
  BY <1>5 DEF OneEntryPerAddress, SeedsStay, RemovedIsGone
<1> QED
  BY <1>7, <1>8, <1>9, <1>10 DEF Inv, Core

LEMMA StutterStep == ASSUME Inv, UNCHANGED vars PROVE Inv'
<1>1. RestTyped' /\ Quiet /\ up' = up /\ UNCHANGED <<disk, foreign, nextId, history>>
  BY InvFacts DEF vars, memory, RestTyped, Quiet
<1> QED
  BY <1>1, SameDisk

LEMMA InvStep == ASSUME Inv, [Next]_vars PROVE Inv'
<1>1. CASE Launch
  BY <1>1, LaunchStep
<1>2. CASE Kill
  BY <1>2, KillStep
<1>3. CASE Load
  BY <1>3, LoadStep
<1>4. CASE DeleteAll
  BY <1>4, DeleteAllStep
<1>5. CASE SessionTurns
  BY <1>5, SessionTurnsStep
<1>6. ASSUME NEW j \in jobs,
             Restored(j) \/ Switched(j) \/ ImportRefused(j) \/ Imported(j)
                 \/ DeriveRefused(j) \/ Derived(j)
      PROVE  Inv'
  BY <1>6, RestoredStep, SwitchedStep, ImportRefusedStep, ImportedStep, DeriveRefusedStep, DerivedStep
<1>7. ASSUME NEW id \in Ids, Switch(id) \/ DeleteWallet(id) PROVE Inv'
  BY <1>7, SwitchStep, DeleteWalletStep
<1>8. ASSUME NEW seed \in Seeds, Import(seed) PROVE Inv'
  BY <1>8, ImportStep
<1>9. ASSUME NEW id \in Ids, NEW path \in Paths, Derive(id, path) PROVE Inv'
  BY <1>9, DeriveStep
<1>10. ASSUME NEW id \in Ids, NEW keepSeed \in BOOLEAN, DeleteSeed(id, keepSeed) PROVE Inv'
  <2>1. CASE keepSeed = TRUE
    BY <1>10, <2>1, KeepSeedStep
  <2>2. CASE keepSeed = FALSE
    BY <1>10, <2>2, DeleteSeedStep
  <2> QED
    BY <2>1, <2>2
<1>11. CASE UNCHANGED vars
  BY <1>11, StutterStep
<1> QED
  BY <1>1, <1>2, <1>3, <1>4, <1>5, <1>6, <1>7, <1>8, <1>9, <1>10, <1>11 DEF Next

LEMMA SpecInv == Spec => []Inv
<1>1. Init => Inv
  BY InitInv
<1>2. Inv /\ [Next]_vars => Inv'
  BY InvStep
<1> QED
  BY <1>1, <1>2, PTL DEF Spec

\* The variables have their types, whichever disk an operation or a crash in the
\* middle of one leaves.
THEOREM TypeCorrect == Spec => []TypeOK
<1>1. Inv => TypeOK
  BY DEF Inv
<1> QED
  BY <1>1, SpecInv, PTL

\* However the process dies in addWalletEntry, deleteWalletEntry, the merge or the
\* migration, a wallet that is listed has its own seed file, and the file gives
\* the address the list shows.
THEOREM ListedWalletsOpen == Spec => []WalletsHaveSeeds
<1>1. Inv => WalletsHaveSeeds
  BY DEF Inv, Core, DiskInv, DiskOK, WalletsHaveSeeds
<1> QED
  BY <1>1, SpecInv, PTL

\* While the application runs no address is listed twice, but for the wallet that
\* was migrated from the single-wallet file: the merge at start and the guard of
\* addWalletEntry together.
THEOREM AddressesStayUnique == Spec => []OneEntryPerAddress
<1>1. Inv => OneEntryPerAddress
  BY DEF Inv
<1> QED
  BY <1>1, SpecInv, PTL

\* A phrase the user stored stays usable until it is asked away, whichever writes a
\* crash cut off, but for a "Keep seed" cut in two and a merge without a keyring.
THEOREM StoredSeedsStay == Spec => []SeedsStay
<1>1. Inv => SeedsStay
  BY DEF Inv
<1> QED
  BY <1>1, SpecInv, PTL

\* A phrase the user was told is removed can be derived from no more: no copy is
\* left in another wallet, in the retained file or in the single-wallet file.
THEOREM RemovedSeedsAreGone == Spec => []RemovedIsGone
<1>1. Inv => RemovedIsGone
  BY DEF Inv
<1> QED
  BY <1>1, SpecInv, PTL
=============================================================================
