-------------------------- MODULE RoomMetadataProofs --------------------------
(***************************************************************************)
(* What RoomMetadata guarantees for any number of devices, edits and       *)
(* deletions.  The index of the owner is written outside the transaction   *)
(* that writes its room; the inductive invariant says what connects the    *)
(* two: the row of the room is either still on its way to the index or     *)
(* covered by an index row that is at least as new.                        *)
(***************************************************************************)
EXTENDS RoomMetadata, TLAPS

\* The owner's row has a real name, and no version that was never made.
OwnerRowIsMade ==
    rooms[Owner] # None => rooms[Owner].name >= 1 /\ rooms[Owner].version <= edits

\* The owner's row is in the index, in its place or newer, or about to be written.
OwnerRowIsCovered ==
    rooms[Owner] # None =>
        \/ rooms[Owner] \in unsaved
        \/ index[Owner] # None /\ index[Owner].version >= rooms[Owner].version

IInv == TypeOK /\ OwnerRowIsMade /\ OwnerRowIsCovered
-----------------------------------------------------------------------------
\* The upsert keeps the newer of two rows.
LEMMA UpsertKeepsNewer ==
    ASSUME NEW row \in Row \union {None}, NEW new \in Row
    PROVE  /\ Upserted(row, new) \in Row
           /\ Upserted(row, new) # None
           /\ Upserted(row, new).version >= new.version
           /\ row # None => Upserted(row, new).version >= row.version
  BY BoundsAreNaturals, NoneIsNoRow DEF Upserted, Row

\* The backfill keeps the newer of the two versions, and the index of a lone row.
LEMMA BackfillKeepsNewer ==
    ASSUME TypeOK, NEW d \in Devices
    PROVE  /\ BackfilledIndex(d) \in Row \union {None}
           /\ rooms[d] # None => /\ BackfilledIndex(d) # None
                                 /\ BackfilledIndex(d).version >= rooms[d].version
           /\ index[d] # None => /\ BackfilledIndex(d) # None
                                 /\ BackfilledIndex(d).version >= index[d].version
<1>1. rooms[d] \in Row \union {None} /\ index[d] \in Row \union {None}
  BY DEF TypeOK
<1>2. CASE rooms[d] = None
  BY <1>1, <1>2, BoundsAreNaturals DEF BackfilledIndex, Row
<1>3. CASE /\ rooms[d] # None
           /\ index[d] = None \/ index[d].version <= rooms[d].version
  BY <1>1, <1>3, BoundsAreNaturals DEF BackfilledIndex, Row
<1>4. CASE /\ rooms[d] # None
           /\ ~(index[d] = None \/ index[d].version <= rooms[d].version)
  <2> DEFINE row == [rooms[d] EXCEPT !.version = index[d].version]
  <2>1. BackfilledIndex(d) = row
    BY <1>4 DEF BackfilledIndex
  <2>2. row \in Row /\ row.version = index[d].version
    BY <1>1, <1>4 DEF Row
  <2>3. index[d].version >= rooms[d].version
    BY <1>1, <1>4, BoundsAreNaturals DEF Row
  <2>4. index[d].version \in Nat
    BY <1>1, <1>4, BoundsAreNaturals DEF Row
  <2> HIDE DEF row
  <2>5. QED
    BY <2>1, <2>2, <2>3, <2>4, NoneIsNoRow
<1>5. QED
  BY <1>2, <1>3, <1>4

\* An announcement of a row leaves every inbox a set of rows.
LEMMA AnnounceType ==
    ASSUME TypeOK, NEW a \in Row, NEW reached \in SUBSET Viewers, Announce(a, reached)
    PROVE  inbox' \in [Devices -> SUBSET Row]
  BY DEF TypeOK, Announce

\* Filling the placeholders of a row makes a row.
LEMMA FilledType ==
    ASSUME NEW row \in Row, NEW a \in Row
    PROVE  Filled(row, a) \in Row
  BY BoundsAreNaturals DEF Filled, Row

\* The placeholder row of a room, with a name or without.
LEMMA FreshRow ==
    ASSUME NEW name \in 0..MaxEdits
    PROVE  [name |-> name, desc |-> 0, version |-> 1] \in Row
  BY BoundsAreNaturals DEF Row

\* A viewer is another device than the owner.
LEMMA ViewersAreOthers == Owner \in Devices /\ \A d \in Viewers : d \in Devices /\ d # Owner
  BY OwnerIsADevice DEF Viewers
-----------------------------------------------------------------------------
LEMMA InitEstablishes == Init => IInv
<1> SUFFICES ASSUME Init PROVE IInv
  OBVIOUS
<1>1. TypeOK
  BY BoundsAreNaturals DEF Init, TypeOK
<1>2. rooms[Owner] = None
  BY OwnerIsADevice DEF Init
<1>3. QED
  BY <1>1, <1>2 DEF IInv, OwnerRowIsMade, OwnerRowIsCovered

\* What of the owner's two rows a step must leave alone to leave the invariant alone.
LEMMA OwnerRowsKept ==
    ASSUME IInv, TypeOK', rooms'[Owner] = rooms[Owner], edits' = edits,
           unsaved' = unsaved,
           index[Owner] # None => /\ index'[Owner] # None
                                  /\ index'[Owner].version >= index[Owner].version
    PROVE  IInv'
<1>1. OwnerRowIsMade'
  BY DEF IInv, OwnerRowIsMade
<1>2. OwnerRowIsCovered'
  <2>1. SUFFICES ASSUME rooms[Owner] # None, rooms[Owner] \notin unsaved
                 PROVE  /\ index'[Owner] # None
                        /\ index'[Owner].version >= rooms[Owner].version
    BY DEF OwnerRowIsCovered
  <2>2. index[Owner] # None /\ index[Owner].version >= rooms[Owner].version
    BY <2>1 DEF IInv, OwnerRowIsCovered
  <2>3. /\ rooms[Owner].version \in Nat /\ index[Owner].version \in Nat
        /\ index'[Owner] # None => index'[Owner].version \in Nat
    BY <2>1, <2>2, OwnerIsADevice, BoundsAreNaturals DEF IInv, TypeOK, Row
  <2>4. QED
    BY <2>2, <2>3
<1>3. QED
  BY <1>1, <1>2 DEF IInv

LEMMA CreateKeeps == ASSUME IInv, Create PROVE IInv'
<1> DEFINE row == [name |-> 1, desc |-> 0, version |-> 1]
<1>1. row \in Row /\ row.name = 1 /\ row.version = 1
  BY BoundsAreNaturals DEF Row
<1>2. rooms' = [rooms EXCEPT ![Owner] = row] /\ unsaved' = unsaved \union {row}
  BY DEF Create
<1> HIDE DEF row
<1>3. edits' \in 0..MaxEdits /\ edits' >= 1
  BY BoundsAreNaturals DEF Create, IInv, TypeOK
<1>4. TypeOK'
  BY <1>1, <1>2, <1>3 DEF Create, IInv, TypeOK, network
<1>5. rooms'[Owner] = row
  BY <1>2, OwnerIsADevice DEF IInv, TypeOK
<1>6. OwnerRowIsMade' /\ OwnerRowIsCovered'
  BY <1>1, <1>2, <1>3, <1>5 DEF OwnerRowIsMade, OwnerRowIsCovered
<1>7. QED
  BY <1>4, <1>6 DEF IInv

LEMMA EditKeeps == ASSUME IInv, Edit PROVE IInv'
<1> DEFINE row == [name |-> edits', desc |-> edits', version |-> rooms[Owner].version + 1]
<1>1. edits' = edits + 1 /\ edits' \in 1..MaxEdits
  BY BoundsAreNaturals DEF Edit, IInv, TypeOK
<1>2. rooms[Owner].version + 1 \in 1..MaxEdits /\ rooms[Owner].version + 1 <= edits'
  <2>1. rooms[Owner] \in Row /\ rooms[Owner].version <= edits /\ edits \in Nat
    BY OwnerIsADevice, BoundsAreNaturals DEF Edit, IInv, TypeOK, OwnerRowIsMade
  <2>2. QED
    BY <1>1, <2>1, BoundsAreNaturals DEF Row
<1>3. row \in Row /\ row.name = edits' /\ row.version <= edits'
  BY <1>1, <1>2, BoundsAreNaturals DEF Row
<1>4. rooms' = [rooms EXCEPT ![Owner] = row] /\ unsaved' = unsaved \union {row}
  BY DEF Edit
<1> HIDE DEF row
<1>5. TypeOK'
  <2>1. edits' \in 0..MaxEdits
    BY <1>1, BoundsAreNaturals
  <2>2. QED
    BY <1>3, <1>4, <2>1 DEF Edit, IInv, TypeOK, network
<1>6. rooms'[Owner] = row
  BY <1>4, OwnerIsADevice DEF IInv, TypeOK
<1>7. OwnerRowIsMade' /\ OwnerRowIsCovered'
  BY <1>1, <1>3, <1>4, <1>6 DEF OwnerRowIsMade, OwnerRowIsCovered
<1>8. QED
  BY <1>5, <1>7 DEF IInv

LEMMA SaveIndexKeeps ==
    ASSUME IInv, NEW reached \in SUBSET Viewers, NEW row \in unsaved, SaveIndex(row, reached)
    PROVE  IInv'
<1>1. row \in Row /\ index[Owner] \in Row \union {None}
  BY OwnerIsADevice DEF IInv, TypeOK
<1>2. index'[Owner] = Upserted(index[Owner], row)
  BY OwnerIsADevice DEF SaveIndex, IInv, TypeOK
<1>3. /\ index'[Owner] \in Row /\ index'[Owner] # None
      /\ index'[Owner].version >= row.version
      /\ index[Owner] # None => index'[Owner].version >= index[Owner].version
  BY <1>1, <1>2, UpsertKeepsNewer
<1>4. TypeOK'
  <2>1. inbox' \in [Devices -> SUBSET Row]
    BY <1>1, AnnounceType DEF SaveIndex, IInv
  <2>2. index' \in [Devices -> Row \union {None}]
    BY <1>1, <1>2, <1>3 DEF SaveIndex, IInv, TypeOK
  <2>3. QED
    BY <2>1, <2>2 DEF SaveIndex, IInv, TypeOK
<1>5. OwnerRowIsMade'
  BY DEF SaveIndex, IInv, OwnerRowIsMade
<1>6. OwnerRowIsCovered'
  <2>1. SUFFICES ASSUME rooms[Owner] # None, rooms[Owner] \notin unsaved \ {row}
                 PROVE  index'[Owner].version >= rooms[Owner].version
    BY <1>3 DEF SaveIndex, OwnerRowIsCovered
  <2>2. CASE rooms[Owner] = row
    BY <1>3, <2>2
  <2>3. CASE rooms[Owner] # row
    <3>1. index[Owner] # None /\ index[Owner].version >= rooms[Owner].version
      BY <2>1, <2>3 DEF IInv, OwnerRowIsCovered
    <3>2. /\ rooms[Owner].version \in Nat /\ index[Owner].version \in Nat
          /\ index'[Owner].version \in Nat
      BY <1>3, <2>1, <3>1, OwnerIsADevice, BoundsAreNaturals DEF IInv, TypeOK, Row
    <3>3. QED
      BY <1>3, <3>1, <3>2
  <2>4. QED
    BY <2>2, <2>3
<1>7. QED
  BY <1>4, <1>5, <1>6 DEF IInv

LEMMA AnnouncementKeeps ==
    ASSUME IInv, NEW reached \in SUBSET Viewers, Publish(reached) \/ Heartbeat(reached)
    PROVE  IInv'
<1>1. rooms[Owner] \in Row
  BY OwnerIsADevice DEF Publish, Heartbeat, IInv, TypeOK
<1>2. [name |-> rooms[Owner].name, desc |-> 0, version |-> 1] \in Row
  BY <1>1, FreshRow DEF Row
<1>3. inbox' \in [Devices -> SUBSET Row]
  BY <1>1, <1>2, AnnounceType DEF Publish, Heartbeat, IInv
<1>4. TypeOK'
  BY <1>3 DEF Publish, Heartbeat, IInv, TypeOK, tables
<1>5. QED
  BY <1>4 DEF Publish, Heartbeat, IInv, OwnerRowIsMade, OwnerRowIsCovered, tables
-----------------------------------------------------------------------------
LEMMA HearKeeps ==
    ASSUME IInv, NEW d \in Viewers, NEW a \in inbox[d], Hear(d, a)
    PROVE  IInv'
<1>1. d \in Devices /\ d # Owner /\ a \in Row /\ index[d] \in Row \union {None}
  BY ViewersAreOthers DEF IInv, TypeOK
<1>2. Upserted(index[d], a) \in Row
  BY <1>1, UpsertKeepsNewer
<1>3. index' = [index EXCEPT ![d] = Upserted(index[d], a)]
  BY DEF Hear
<1>4. TypeOK'
  BY <1>1, <1>2, <1>3 DEF Hear, IInv, TypeOK
<1>5. index'[Owner] = index[Owner]
  BY <1>1, <1>3, OwnerIsADevice DEF IInv, TypeOK
<1>6. QED
  BY <1>4, <1>5 DEF Hear, IInv, OwnerRowIsMade, OwnerRowIsCovered

LEMMA ApplyKeeps == ASSUME IInv, NEW d \in Viewers, ApplyToRoom(d) PROVE IInv'
<1>1. d \in Devices /\ d # Owner /\ heard[d] \in Row /\ rooms[d] \in Row \union {None}
  BY ViewersAreOthers DEF ApplyToRoom, IInv, TypeOK
<1> DEFINE row == IF rooms[d] = None THEN None ELSE Filled(rooms[d], heard[d])
<1>2. row \in Row \union {None}
  BY <1>1, FilledType
<1>3. rooms' = [rooms EXCEPT ![d] = row]
  BY DEF ApplyToRoom
<1> HIDE DEF row
<1>4. TypeOK'
  BY <1>1, <1>2, <1>3 DEF ApplyToRoom, IInv, TypeOK, network
<1>5. rooms'[Owner] = rooms[Owner]
  BY <1>1, <1>3, OwnerIsADevice DEF IInv, TypeOK
<1>6. QED
  BY <1>4, <1>5 DEF ApplyToRoom, IInv, OwnerRowIsMade, OwnerRowIsCovered

LEMMA JoinKeeps == ASSUME IInv, NEW d \in Viewers, Join(d) PROVE IInv'
<1>1. d \in Devices /\ d # Owner /\ index[d] \in Row \union {None}
  BY ViewersAreOthers DEF IInv, TypeOK
<1>2. PICK name \in {0} \union (IF index[d] = None THEN {} ELSE {index[d].name}) :
         LET row == [name |-> name, desc |-> 0, version |-> 1]
         IN  /\ rooms' = [rooms EXCEPT ![d] = row]
             /\ index' = [index EXCEPT ![d] = Upserted(@, row)]
  BY DEF Join
<1> DEFINE row == [name |-> name, desc |-> 0, version |-> 1]
<1>3. name \in 0..MaxEdits
  BY <1>1, <1>2, BoundsAreNaturals DEF Row
<1>4. row \in Row
  BY <1>3, FreshRow
<1>5. rooms' = [rooms EXCEPT ![d] = row] /\ index' = [index EXCEPT ![d] = Upserted(index[d], row)]
  BY <1>2
<1> HIDE DEF row
<1>6. Upserted(index[d], row) \in Row
  BY <1>1, <1>4, UpsertKeepsNewer
<1>7. TypeOK'
  BY <1>1, <1>4, <1>5, <1>6 DEF Join, IInv, TypeOK, network
<1>8. rooms'[Owner] = rooms[Owner] /\ index'[Owner] = index[Owner]
  BY <1>1, <1>5, OwnerIsADevice DEF IInv, TypeOK
<1>9. QED
  BY <1>7, <1>8 DEF Join, IInv, OwnerRowIsMade, OwnerRowIsCovered

LEMMA DeleteKeeps == ASSUME IInv, NEW d \in Devices, Delete(d) PROVE IInv'
<1>1. TypeOK'
  BY BoundsAreNaturals DEF Delete, IInv, TypeOK, network
<1>2. CASE d = Owner
  <2>1. rooms'[Owner] = None
    BY <1>2 DEF Delete, IInv, TypeOK
  <2>2. QED
    BY <1>1, <2>1 DEF IInv, OwnerRowIsMade, OwnerRowIsCovered
<1>3. CASE d # Owner
  <2>1. rooms'[Owner] = rooms[Owner] /\ index'[Owner] = index[Owner]
    BY <1>3, OwnerIsADevice DEF Delete, IInv, TypeOK
  <2>2. QED
    BY <1>1, <2>1 DEF Delete, IInv, OwnerRowIsMade, OwnerRowIsCovered
<1>4. QED
  BY <1>2, <1>3

LEMMA HearNameKeeps ==
    ASSUME IInv, NEW d \in Devices, NEW m \in chat, HearName(d, m)
    PROVE  IInv'
<1>1. rooms[d] \in Row /\ index[d] \in Row \union {None} /\ m.name \in 1..MaxEdits
  BY DEF HearName, IInv, TypeOK
<1> DEFINE room == [rooms[d] EXCEPT !.name = IF rooms[d].name = 0 THEN m.name ELSE rooms[d].name]
           row == IF index[d] = None THEN None ELSE [index[d] EXCEPT !.name = m.name]
<1>2. room \in Row /\ (rooms[d].name # 0 => room = rooms[d])
  BY <1>1, BoundsAreNaturals DEF Row
<1>3. /\ row \in Row \union {None}
      /\ index[d] # None => row # None /\ row.version = index[d].version
  BY <1>1, BoundsAreNaturals, NoneIsNoRow DEF Row
<1>4. rooms' = [rooms EXCEPT ![d] = room] /\ index' = [index EXCEPT ![d] = row]
  BY DEF HearName, IInv, TypeOK
<1> HIDE DEF room, row
<1>5. TypeOK'
  BY <1>2, <1>3, <1>4 DEF HearName, IInv, TypeOK, network
<1>6. rooms'[Owner] = rooms[Owner]
  <2>1. CASE d = Owner
    <3>1. rooms[d].name # 0
      BY <1>1, <2>1 DEF HearName, IInv, OwnerRowIsMade
    <3>2. QED
      BY <1>2, <1>4, <2>1, <3>1 DEF IInv, TypeOK
  <2>2. CASE d # Owner
    BY <1>4, <2>2, OwnerIsADevice DEF IInv, TypeOK
  <2>3. QED
    BY <2>1, <2>2
<1>7. index[Owner] # None => /\ index'[Owner] # None
                             /\ index'[Owner].version >= index[Owner].version
  <2>1. CASE d = Owner
    BY <1>1, <1>3, <1>4, <2>1, BoundsAreNaturals DEF IInv, TypeOK, Row
  <2>2. CASE d # Owner
    <3>1. index'[Owner] = index[Owner] /\ index[Owner] \in Row \union {None}
      BY <1>4, <2>2, OwnerIsADevice DEF IInv, TypeOK
    <3>2. QED
      BY <3>1, BoundsAreNaturals DEF Row
  <2>3. QED
    BY <2>1, <2>2
<1>8. QED
  BY <1>5, <1>6, <1>7, OwnerRowsKept DEF HearName

LEMMA RestartKeeps == ASSUME IInv, NEW d \in Devices, Restart(d) PROVE IInv'
<1>1. BackfilledIndex(d) \in Row \union {None}
  BY BackfillKeepsNewer DEF IInv
<1>2. index' = [index EXCEPT ![d] = BackfilledIndex(d)]
  BY DEF Restart
<1>3. TypeOK'
  BY <1>1, <1>2 DEF Restart, IInv, TypeOK
<1>4. CASE d = Owner
  <2>1. index'[Owner] = BackfilledIndex(Owner)
    BY <1>2, <1>4 DEF IInv, TypeOK
  <2>2. QED
    BY <1>3, <1>4, <2>1, BackfillKeepsNewer
    DEF Restart, IInv, OwnerRowIsMade, OwnerRowIsCovered
<1>5. CASE d # Owner
  <2>1. index'[Owner] = index[Owner]
    BY <1>2, <1>5, OwnerIsADevice DEF IInv, TypeOK
  <2>2. QED
    BY <1>3, <1>5, <2>1 DEF Restart, IInv, OwnerRowIsMade, OwnerRowIsCovered
<1>6. QED
  BY <1>4, <1>5

LEMMA ChatKeeps ==
    ASSUME IInv, \/ \E m \in chat : Forget(m)
                 \/ \E d \in Devices : Say(d)
    PROVE  IInv'
<1>1. chat' \subseteq [from: Devices, name: 1..MaxEdits]
  <2>1. ASSUME NEW d \in Devices, Say(d)
        PROVE  chat' \subseteq [from: Devices, name: 1..MaxEdits]
    <3>1. rooms[d].name \in 1..MaxEdits
      BY <2>1, BoundsAreNaturals DEF Say, IInv, TypeOK, Row
    <3>2. QED
      BY <2>1, <3>1 DEF Say, IInv, TypeOK
  <2>2. QED
    BY <2>1 DEF Forget, IInv, TypeOK
<1>2. QED
  BY <1>1 DEF Forget, Say, IInv, TypeOK, OwnerRowIsMade, OwnerRowIsCovered, tables
-----------------------------------------------------------------------------
LEMMA NextKeeps == IInv /\ [Next]_vars => IInv'
<1> SUFFICES ASSUME IInv, [Next]_vars PROVE IInv'
  OBVIOUS
<1>1. CASE Create \/ Edit
  BY <1>1, CreateKeeps, EditKeeps
<1>2. ASSUME NEW reached \in SUBSET Viewers,
             Publish(reached) \/ Heartbeat(reached) \/ \E row \in unsaved : SaveIndex(row, reached)
      PROVE  IInv'
  BY <1>2, AnnouncementKeeps, SaveIndexKeeps
<1>3. ASSUME NEW d \in Viewers, NEW a \in inbox[d], Hear(d, a)
      PROVE  IInv'
  BY <1>3, HearKeeps
<1>4. ASSUME NEW m \in chat, Forget(m) \/ \E d \in Devices : HearName(d, m)
      PROVE  IInv'
  BY <1>4, ChatKeeps, HearNameKeeps
<1>5. ASSUME NEW d \in Viewers, ApplyToRoom(d) \/ Join(d)
      PROVE  IInv'
  BY <1>5, ApplyKeeps, JoinKeeps
<1>6. ASSUME NEW d \in Devices, Delete(d) \/ Say(d) \/ Restart(d)
      PROVE  IInv'
  BY <1>6, DeleteKeeps, ChatKeeps, RestartKeeps
<1>7. CASE UNCHANGED vars
  BY <1>7 DEF vars, tables, network, IInv, TypeOK, OwnerRowIsMade, OwnerRowIsCovered
<1>8. QED
  BY <1>1, <1>2, <1>3, <1>4, <1>5, <1>6, <1>7 DEF Next

LEMMA InvariantHolds == Spec => []IInv
  BY InitEstablishes, NextKeeps, PTL DEF Spec

(* The two tables, the inboxes and the chat always hold rows and messages  *)
(* of the shape the code declares.                                         *)
THEOREM TypeCorrect == Spec => []TypeOK
  BY InvariantHolds, PTL DEF IInv

(* Once nothing is left to write, the owner's index has the version of its *)
(* room or a newer one, wherever the program died in between (CreateRoom,  *)
(* UpdatePublicRoomMetadata, backfillPublicRoomIndex).                     *)
THEOREM OwnerIndexCatchesUp == Spec => []OwnerIndexFollows
<1>1. IInv => OwnerIndexFollows
  BY DEF IInv, OwnerRowIsCovered, OwnerIndexFollows
<1>2. QED
  BY <1>1, InvariantHolds, PTL

\* One step of whatever actor lowers no version in the index.
LEMMA VersionKept ==
    ASSUME TypeOK, [Next]_vars, NEW d \in Devices, index[d] # None, index'[d] # None
    PROVE  index'[d].version >= index[d].version
<1>1. index[d] \in Row /\ index[d].version \in Nat
  BY BoundsAreNaturals DEF TypeOK, Row
<1>2. CASE index' = index
  BY <1>1, <1>2
<1>3. ASSUME NEW e \in Devices, NEW row \in Row,
             index' = [index EXCEPT ![e] = Upserted(index[e], row)]
      PROVE  index'[d].version >= index[d].version
  <2>1. CASE e = d
    BY <1>1, <1>3, <2>1, UpsertKeepsNewer DEF TypeOK
  <2>2. CASE e # d
    BY <1>1, <1>3, <2>2 DEF TypeOK
  <2>3. QED
    BY <2>1, <2>2
<1>4. ASSUME NEW row \in unsaved, NEW reached \in SUBSET Viewers, SaveIndex(row, reached)
      PROVE  index'[d].version >= index[d].version
  BY <1>3, <1>4, OwnerIsADevice DEF SaveIndex, TypeOK
<1>5. ASSUME NEW e \in Viewers, NEW a \in inbox[e], Hear(e, a)
      PROVE  index'[d].version >= index[d].version
  BY <1>3, <1>5, ViewersAreOthers DEF Hear, TypeOK
<1>6. ASSUME NEW e \in Viewers, Join(e)
      PROVE  index'[d].version >= index[d].version
  <2>1. PICK name \in {0} \union (IF index[e] = None THEN {} ELSE {index[e].name}) :
           LET row == [name |-> name, desc |-> 0, version |-> 1]
           IN  index' = [index EXCEPT ![e] = Upserted(@, row)]
    BY <1>6 DEF Join
  <2>2. name \in 0..MaxEdits /\ e \in Devices
    BY <2>1, ViewersAreOthers, BoundsAreNaturals DEF TypeOK, Row
  <2>3. QED
    BY <1>3, <2>1, <2>2, FreshRow
<1>7. ASSUME NEW e \in Devices, Delete(e)
      PROVE  index'[d].version >= index[d].version
  BY <1>1, <1>7 DEF Delete, TypeOK
<1>8. ASSUME NEW e \in Devices, NEW m \in chat, HearName(e, m)
      PROVE  index'[d].version >= index[d].version
  <2>1. CASE e = d
    <3>1. index'[d] = [index[d] EXCEPT !.name = m.name]
      BY <1>8, <2>1 DEF HearName, TypeOK
    <3>2. QED
      BY <1>1, <3>1 DEF Row
  <2>2. CASE e # d
    BY <1>1, <1>8, <2>2 DEF HearName, TypeOK
  <2>3. QED
    BY <2>1, <2>2
<1>9. ASSUME NEW e \in Devices, Restart(e)
      PROVE  index'[d].version >= index[d].version
  <2>1. CASE e = d
    BY <1>9, <2>1, BackfillKeepsNewer DEF Restart, TypeOK
  <2>2. CASE e # d
    BY <1>1, <1>9, <2>2 DEF Restart, TypeOK
  <2>3. QED
    BY <2>1, <2>2
<1>10. QED
  BY <1>2, <1>4, <1>5, <1>6, <1>7, <1>8, <1>9
  DEF Next, Create, Edit, Publish, Heartbeat, Forget, ApplyToRoom, Say, vars, tables

(* No announcement, join, chat message or restart lowers the version of an *)
(* index row, whatever the network loses, repeats or reorders              *)
(* (UpsertPublicRoomIndex, backfillPublicRoomIndex).                       *)
THEOREM VersionsOnlyGrow == Spec => VersionsNeverFall
<1>1. TypeOK /\ [Next]_vars =>
         [\A d \in Devices:
            index[d] # None /\ index'[d] # None => index'[d].version >= index[d].version]_vars
  BY VersionKept
<1>2. QED
  BY <1>1, TypeCorrect, PTL DEF Spec, VersionsNeverFall
=============================================================================
