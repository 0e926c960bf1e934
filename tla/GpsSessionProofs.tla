-------------------------- MODULE GpsSessionProofs --------------------------
(***************************************************************************)
(* What GpsSession promises of names and files, for any connections,       *)
(* trackers, packets and bounds.  Inv is inductive: an entry of a track is *)
(* its tracker's because the name it is filed under is, and that name came *)
(* back from a registry that files every name under itself; nothing of an  *)
(* acknowledged packet is lost because at every place in the handler each  *)
(* of its records is still to be parsed, listed for a file, or in one.     *)
(***************************************************************************)
EXTENDS GpsSession, DataLemmas, TLAPS

\* The inductive invariant.
Inv == TypeOK /\ NamesAreOwn /\ EntriesAreOwn /\ Accounted

USE DeviceAssumption, PacketAssumption, NumberAssumption, FlagAssumption

\* What the parser makes of the first record left is an entry of its tracker.
LEMMA EntryType ==
  ASSUME NEW d \in Device, NEW c \in Conn, NEW r \in Record, NEW b \in BOOLEAN
  PROVE  [dev |-> d, via |-> c, rec |-> r, early |-> b] \in Entry
  BY DEF Entry

\* The records of entries are records.
LEMMA RecordsType ==
  ASSUME NEW s \in Seq(Entry) PROVE RecordsOf(s) \subseteq Record
<1> SUFFICES ASSUME NEW i \in DOMAIN s PROVE s[i].rec \in Record
  BY DEF RecordsOf
<1>1. s[i] \in Entry
  OBVIOUS
<1> QED BY <1>1 DEF Entry

\* What is written of two lists of entries.
LEMMA RecordsJoined ==
  ASSUME NEW s \in Seq(Entry), NEW t \in Seq(Entry)
  PROVE  RecordsOf(s \o t) = RecordsOf(s) \cup RecordsOf(t)
  BY RecordsOfConcat

\* A day is a number.
LEMMA DayType == ASSUME NEW t \in Nat PROVE Day(t) \in Nat
  BY DEF Day

\* Every variable keeps its type.
LEMMA TypeNext == TypeOK /\ [Next]_vars => TypeOK'
<1> SUFFICES ASSUME TypeOK, [Next]_vars PROVE TypeOK'
  OBVIOUS
<1> USE DEF TypeOK, Goes, session, scratch, files
<1>1. ASSUME NEW c \in Conn, NEW d \in Device, Connect(c, d) PROVE TypeOK'
  BY <1>1 DEF Pcs, Connect
<1>2. ASSUME NEW c \in Conn, Disconnect(c) PROVE TypeOK'
  BY <1>2 DEF Pcs, Disconnect
<1>3. ASSUME NEW c \in Conn, NEW p \in Packet, Receive(c, p) PROVE TypeOK'
  <2>1. /\ p \in [kind : Kinds, recs : Seq(Record), cut : BOOLEAN]
        /\ p.recs \in Seq(Record)
    OBVIOUS
  <2>2. GetGPS(name[c]).name \in Seq(Device) /\ GetGPS(name[c]).last \in Time
    BY DEF GetGPS, Info, Time
  <2>3. name' \in [Conn -> Seq(Device)] /\ last' \in [Conn -> Time]
    BY <1>3, <2>2 DEF Receive
  <2>4. /\ pc' \in [Conn -> Pcs]
        /\ \A k \in Conn : device'[k] = NoDevice <=> pc'[k] = "unused"
    BY <1>3 DEF Receive, Pcs
  <2>5. /\ input' \in [Conn -> Packet \cup {NoPacket}]
        /\ rest' \in [Conn -> Seq(Record)]
        /\ result' \in [Conn -> {"ok", "bad"}]
        /\ sent' \in [Conn -> 0 .. MaxPackets]
    BY <1>3, <2>1 DEF Receive
  <2> QED BY <1>3, <2>3, <2>4, <2>5 DEF Receive
<1>4. ASSUME NEW c \in Conn, Login(c) PROVE TypeOK'
  <2>1. device[c] \in Device
    BY <1>4 DEF Login
  <2>2. LoggedIn(name[c], device[c]) \in Seq(Device)
    BY <2>1 DEF LoggedIn
  <2> QED BY <1>4, <2>2 DEF Login, Pcs
<1>5. ASSUME NEW c \in Conn, ParseRecord(c) PROVE TypeOK'
  <2> DEFINE r == Head(rest[c])
             e == [dev |-> device[c], via |-> c, rec |-> r, early |-> Early(c, r)]
  <2>1. r \in Record /\ Tail(rest[c]) \in Seq(Record)
    BY <1>5, HeadAndTail DEF ParseRecord
  <2>2. device[c] \in Device
    BY <1>5 DEF ParseRecord
  <2>3. Early(c, r) \in BOOLEAN
    BY DEF Early
  <2>4. e \in Entry
    BY <2>1, <2>2, <2>3, EntryType
  <2>5. r.time \in Time /\ Day(r.time) \in Nat
    <3>1. r.time \in Time
      BY <2>1 DEF Record
    <3> QED BY <3>1, DayType DEF Time
  <2>6. rest' \in [Conn -> Seq(Record)]
    BY <1>5, <2>1 DEF ParseRecord
  <2> HIDE DEF e
  <2>7. CASE Fits(c, r)
    <3>1. /\ last' = [last EXCEPT ![c] = r.time]
          /\ toSave' = [toSave EXCEPT ![c] = AppendTo(@, Day(r.time), <<e>>)]
          /\ errList' = errList
      BY <1>5, <2>7 DEF ParseRecord, e
    <3>2. \A d \in DOMAIN AppendTo(toSave[c], Day(r.time), <<e>>) :
             /\ d \in Nat
             /\ AppendTo(toSave[c], Day(r.time), <<e>>)[d] \in Seq(Entry)
      <4>1. /\ <<e>> \in Seq(Entry)
            /\ \A d \in DOMAIN toSave[c] : d \in Nat /\ toSave[c][d] \in Seq(Entry)
        BY <2>4
      <4> HIDE DEF TypeOK, r
      <4> QED BY <2>5, <4>1, AppendToType
    <3>3. /\ toSave' = [k \in Conn |-> toSave'[k]]
          /\ \A k \in Conn : \A d \in DOMAIN toSave'[k] :
                d \in Nat /\ toSave'[k][d] \in Seq(Entry)
      BY <3>1, <3>2
    <3>4. last' \in [Conn -> Time]
      BY <3>1, <2>5
    <3> QED BY <1>5, <2>6, <3>1, <3>3, <3>4 DEF ParseRecord
  <2>8. CASE ~Fits(c, r)
    <3>1. errList' = [errList EXCEPT ![c] = Append(@, e)] /\ UNCHANGED <<last, toSave>>
      BY <1>5, <2>8 DEF ParseRecord, e
    <3>2. errList' \in [Conn -> Seq(Entry)]
      BY <3>1, <2>4
    <3> QED BY <1>5, <2>6, <3>1, <3>2 DEF ParseRecord
  <2> QED BY <2>7, <2>8
<1>6. ASSUME NEW c \in Conn, EndOfRecords(c) PROVE TypeOK'
  BY <1>6 DEF Pcs, EndOfRecords
<1>7. ASSUME NEW c \in Conn, SaveErrorList(c) PROVE TypeOK'
  <2>1. \A n \in DOMAIN errors' : n \in Seq(Device) /\ errors'[n] \in Seq(Entry)
    <3>1. /\ name[c] \in Seq(Device) /\ errList[c] \in Seq(Entry)
          /\ \A n \in DOMAIN errors : n \in Seq(Device) /\ errors[n] \in Seq(Entry)
      OBVIOUS
    <3>2. errors' = errors \/ errors' = AppendTo(errors, name[c], errList[c])
      BY <1>7 DEF SaveErrorList
    <3> HIDE DEF TypeOK
    <3> QED BY <3>1, <3>2, AppendToType
  <2>2. RecordsOf(errList[c]) \subseteq Record
    BY RecordsType
  <2>3. wrote' \in [Conn -> SUBSET Record]
    BY <1>7, <2>2 DEF SaveErrorList
  <2> QED BY <1>7, <2>1, <2>3 DEF SaveErrorList, Pcs
<1>8. ASSUME NEW c \in Conn, SaveToFileList(c) PROVE TypeOK'
  <2>1. CASE DOMAIN toSave[c] = {}
    BY <1>8, <2>1 DEF SaveToFileList, Pcs
  <2>2. CASE DOMAIN toSave[c] # {}
    <3>1. PICK d \in DOMAIN toSave[c] :
            /\ track' = AppendTo(track, <<d, name[c]>>, toSave[c][d])
            /\ wrote' = [wrote EXCEPT ![c] = @ \cup RecordsOf(toSave[c][d])]
      BY <1>8, <2>2 DEF SaveToFileList
    <3>2. \A k \in DOMAIN track' :
             k \in Nat \X Seq(Device) /\ track'[k] \in Seq(Entry)
      <4>1. /\ <<d, name[c]>> \in Nat \X Seq(Device) /\ toSave[c][d] \in Seq(Entry)
            /\ \A k \in DOMAIN track :
                  k \in Nat \X Seq(Device) /\ track[k] \in Seq(Entry)
        OBVIOUS
      <4> HIDE DEF TypeOK
      <4> QED BY <3>1, <4>1, AppendToType
    <3>3. RecordsOf(toSave[c][d]) \subseteq Record
      BY RecordsType
    <3>4. wrote' \in [Conn -> SUBSET Record]
      BY <3>1, <3>3
    <3> QED BY <1>8, <3>2, <3>4 DEF SaveToFileList, Pcs
  <2> QED BY <2>1, <2>2
<1>9. ASSUME NEW c \in Conn, SaveODPList(c) PROVE TypeOK'
  <2>1. device[c] \in Device
    BY <1>9 DEF SaveODPList
  <2>2. ASSUME NEW i \in DOMAIN rest[c]
        PROVE  [dev |-> device[c], via |-> c, rec |-> rest[c][i], early |-> FALSE] \in Entry
    <3>1. rest[c][i] \in Record
      OBVIOUS
    <3> QED BY <2>1, <3>1, EntryType
  <2>3. OdpLines(c) \in Seq(Entry)
    <3>1. Len(rest[c]) \in Nat /\ DOMAIN rest[c] = 1 .. Len(rest[c])
      OBVIOUS
    <3> HIDE DEF TypeOK
    <3> QED BY <2>2, <3>1 DEF OdpLines
  <2>4. \A n \in DOMAIN odp' : n \in Seq(Device) /\ odp'[n] \in Seq(Entry)
    <3>1. /\ name[c] \in Seq(Device)
          /\ \A n \in DOMAIN odp : n \in Seq(Device) /\ odp[n] \in Seq(Entry)
      OBVIOUS
    <3>2. odp' = odp \/ odp' = AppendTo(odp, name[c], OdpLines(c))
      BY <1>9 DEF SaveODPList
    <3> HIDE DEF TypeOK
    <3> QED BY <2>3, <3>1, <3>2, AppendToType
  <2>5. RecordsOf(OdpLines(c)) \subseteq Record
    BY <2>3, RecordsType
  <2>6. wrote' \in [Conn -> SUBSET Record]
    BY <1>9, <2>5 DEF SaveODPList
  <2> QED BY <1>9, <2>4, <2>6 DEF SaveODPList, Pcs
<1>10. ASSUME NEW c \in Conn, SaveFails(c) PROVE TypeOK'
  BY <1>10 DEF Pcs, SaveFails
<1>11. ASSUME NEW c \in Conn, SetGPS(c) PROVE TypeOK'
  <2>1. \A n \in DOMAIN registry' : n \in Seq(Device) /\ registry'[n] \in Info
    <3> DEFINE i == [name |-> name[c], last |-> last[c]]
    <3>1. /\ name[c] \in Seq(Device) /\ i \in Info
          /\ \A n \in DOMAIN registry : n \in Seq(Device) /\ registry[n] \in Info
      BY DEF Info
    <3>2. registry' = registry \/ registry' = Put(registry, name[c], i)
      BY <1>11 DEF SetGPS
    <3> HIDE DEF TypeOK, i
    <3>3. /\ DOMAIN Put(registry, name[c], i) = DOMAIN registry \cup {name[c]}
          /\ \A n \in DOMAIN registry \cup {name[c]} :
                Put(registry, name[c], i)[n] = IF n = name[c] THEN i ELSE registry[n]
      BY DEF Put
    <3> QED BY <3>1, <3>2, <3>3
  <2> QED BY <1>11, <2>1 DEF SetGPS, Pcs
<1>12. ASSUME NEW c \in Conn, Reply(c) PROVE TypeOK'
  <2>1. /\ toSave' = [k \in Conn |-> toSave'[k]]
        /\ \A k \in Conn : \A d \in DOMAIN toSave'[k] :
              d \in Nat /\ toSave'[k][d] \in Seq(Entry)
    <3>1. DOMAIN Empty = {}
      BY DEF Empty
    <3> QED BY <1>12, <3>1 DEF Reply
  <2>2. /\ input' \in [Conn -> Packet \cup {NoPacket}]
        /\ rest' \in [Conn -> Seq(Record)]
        /\ errList' \in [Conn -> Seq(Entry)]
        /\ wrote' \in [Conn -> SUBSET Record]
        /\ result' \in [Conn -> {"ok", "bad"}]
    BY <1>12 DEF Reply
  <2>3. /\ pc' \in [Conn -> Pcs]
        /\ \A k \in Conn : device'[k] = NoDevice <=> pc'[k] = "unused"
    BY <1>12 DEF Reply, Pcs
  <2> QED BY <1>12, <2>1, <2>2, <2>3 DEF Reply
<1>13. ASSUME ResetRegistry PROVE TypeOK'
  BY <1>13 DEF ResetRegistry, Empty
<1>14. ASSUME Restart PROVE TypeOK'
  BY <1>14 DEF Restart, Empty, Live, Pcs
<1>15. CASE UNCHANGED vars
  BY <1>15 DEF vars
<1> QED
  BY <1>1, <1>2, <1>3, <1>4, <1>5, <1>6, <1>7, <1>8, <1>9, <1>10, <1>11,
     <1>12, <1>13, <1>14, <1>15 DEF Next, Exhausted, HandlerStep

\* Names and registry entries stay those of their own tracker: the registry
\* gives back under a name what was filed under it.
LEMMA NamesNext == TypeOK /\ NamesAreOwn /\ [Next]_vars => NamesAreOwn'
<1> SUFFICES ASSUME TypeOK, NamesAreOwn, [Next]_vars PROVE NamesAreOwn'
  OBVIOUS
<1> USE DEF NamesAreOwn, session, scratch, files
<1>0. /\ device \in [Conn -> Device \cup {NoDevice}]
      /\ name \in [Conn -> Seq(Device)]
      /\ \A c \in Conn : device[c] = NoDevice <=> pc[c] = "unused"
      /\ \A n \in DOMAIN registry : n \in Seq(Device)
  BY DEF TypeOK
<1>1. ASSUME NEW c \in Conn, NEW d \in Device, Connect(c, d) PROVE NamesAreOwn'
  <2>1. device' = [device EXCEPT ![c] = d] /\ UNCHANGED <<name, registry>>
    BY <1>1 DEF Connect
  <2>2. device[c] = NoDevice
    BY <1>0, <1>1 DEF Connect
  <2>3. ASSUME NEW i \in DOMAIN name[c] PROVE FALSE
    BY <1>0, <2>2, <2>3, DeviceAssumption
  <2> QED BY <1>0, <2>1, <2>3
<1>2. ASSUME NEW c \in Conn, NEW p \in Packet, Receive(c, p) PROVE NamesAreOwn'
  <2>1. UNCHANGED <<device, registry>>
    BY <1>2 DEF Receive
  <2>2. name' = name \/ name' = [name EXCEPT ![c] = GetGPS(name[c]).name]
    BY <1>2 DEF Receive
  <2>3. GetGPS(name[c]).name = IF name[c] \in DOMAIN registry THEN name[c] ELSE <<>>
    BY DEF GetGPS
  <2> QED BY <1>0, <2>1, <2>2, <2>3
<1>3. ASSUME NEW c \in Conn, Login(c) PROVE NamesAreOwn'
  <2>1. UNCHANGED <<device, registry>>
    BY <1>3 DEF Login
  <2>2. \/ name' = [name EXCEPT ![c] = <<>>]
        \/ name' = [name EXCEPT ![c] = Append(@, device[c])]
    BY <1>3 DEF Login, LoggedIn
  <2>3. CASE name' = [name EXCEPT ![c] = <<>>]
    BY <1>0, <2>1, <2>3
  <2>4. CASE name' = [name EXCEPT ![c] = Append(@, device[c])]
    <3>1. ASSUME NEW i \in DOMAIN Append(name[c], device[c])
          PROVE  Append(name[c], device[c])[i] = device[c]
      BY <1>0
    <3> QED BY <1>0, <2>1, <2>4, <3>1
  <2> QED BY <2>2, <2>3, <2>4
<1>4. ASSUME NEW c \in Conn, SetGPS(c) PROVE NamesAreOwn'
  <2> DEFINE i == [name |-> name[c], last |-> last[c]]
  <2>1. UNCHANGED <<device, name>>
    BY <1>4 DEF SetGPS
  <2>2. registry' = registry \/ registry' = Put(registry, name[c], i)
    BY <1>4 DEF SetGPS
  <2>3. Put(registry, name[c], i) =
          [n \in DOMAIN registry \cup {name[c]} |-> IF n = name[c] THEN i ELSE registry[n]]
    BY DEF Put
  <2> QED BY <2>1, <2>2, <2>3
<1>5. ASSUME registry' = Empty, UNCHANGED <<device, name>> PROVE NamesAreOwn'
  BY <1>5 DEF Empty
<1>6. ASSUME NEW c \in Conn,
             \/ Disconnect(c) \/ ParseRecord(c) \/ EndOfRecords(c) \/ SaveErrorList(c)
             \/ SaveToFileList(c) \/ SaveODPList(c) \/ SaveFails(c) \/ Reply(c)
      PROVE  NamesAreOwn'
  <2>1. UNCHANGED <<device, name, registry>>
    BY <1>6 DEF Disconnect, ParseRecord, EndOfRecords, SaveErrorList,
       SaveToFileList, SaveODPList, SaveFails, Reply
  <2> QED BY <2>1
<1>7. CASE UNCHANGED vars
  BY <1>7 DEF vars
<1>8. ASSUME ResetRegistry \/ Restart PROVE NamesAreOwn'
  BY <1>5, <1>8 DEF ResetRegistry, Restart
<1> QED BY <1>1, <1>2, <1>3, <1>4, <1>6, <1>7, <1>8
        DEF Next, Exhausted, HandlerStep

\* Two lists of one tracker's entries make a list of that tracker's entries.
LEMMA ConcatOwn ==
  ASSUME NEW s \in Seq(Entry), NEW t \in Seq(Entry), NEW d,
         \A i \in DOMAIN s : s[i].dev = d, \A i \in DOMAIN t : t[i].dev = d
  PROVE  \A i \in DOMAIN (s \o t) : (s \o t)[i].dev = d
  BY ConcatElement

\* What is collected and what a track holds stay records of the right tracker.
LEMMA EntriesNext ==
  TypeOK /\ NamesAreOwn /\ EntriesAreOwn /\ [Next]_vars => EntriesAreOwn'
<1> SUFFICES ASSUME TypeOK, NamesAreOwn, EntriesAreOwn, [Next]_vars
             PROVE  EntriesAreOwn'
  OBVIOUS
<1> USE DEF EntriesAreOwn, session, scratch, files
<1>0. /\ device \in [Conn -> Device \cup {NoDevice}]
      /\ \A c \in Conn : device[c] = NoDevice <=> pc[c] = "unused"
      /\ toSave = [c \in Conn |-> toSave[c]]
      /\ \A c \in Conn : \A d \in DOMAIN toSave[c] :
            d \in Nat /\ toSave[c][d] \in Seq(Entry)
      /\ \A k \in DOMAIN track : k \in Nat \X Seq(Device) /\ track[k] \in Seq(Entry)
      /\ name \in [Conn -> Seq(Device)] /\ rest \in [Conn -> Seq(Record)]
  BY DEF TypeOK
<1>1. ASSUME NEW c \in Conn, NEW d \in Device, Connect(c, d) PROVE EntriesAreOwn'
  <2>1. device' = [device EXCEPT ![c] = d] /\ UNCHANGED <<toSave, track>>
    BY <1>1 DEF Connect
  <2>2. device[c] = NoDevice
    BY <1>0, <1>1 DEF Connect
  <2>3. ASSUME NEW t \in DOMAIN toSave[c], NEW i \in DOMAIN toSave[c][t] PROVE FALSE
    <3>1. toSave[c][t][i] \in Entry
      BY <1>0
    <3>2. toSave[c][t][i].dev \in Device
      BY <3>1 DEF Entry
    <3> QED BY <2>2, <3>2, DeviceAssumption
  <2> QED BY <1>0, <2>1, <2>3
<1>2. ASSUME NEW c \in Conn, ParseRecord(c) PROVE EntriesAreOwn'
  <2> DEFINE r == Head(rest[c])
             e == [dev |-> device[c], via |-> c, rec |-> r, early |-> Early(c, r)]
             day == Day(r.time)
             f == AppendTo(toSave[c], day, <<e>>)
  <2>1. UNCHANGED <<device, track>>
    BY <1>2 DEF ParseRecord
  <2>2. toSave' = toSave \/ toSave' = [toSave EXCEPT ![c] = f]
    BY <1>2 DEF ParseRecord
  <2>3. e \in Entry
    <3>1. r \in Record
      BY <1>0, <1>2, HeadAndTail DEF ParseRecord
    <3>2. device[c] \in Device
      BY <1>0, <1>2 DEF ParseRecord
    <3>3. Early(c, r) \in BOOLEAN
      BY DEF Early
    <3> QED BY <3>1, <3>2, <3>3, EntryType
  <2>4. e.dev = device[c]
    OBVIOUS
  <2>5. f = [d \in DOMAIN toSave[c] \cup {day} |->
               IF d = day THEN Old(toSave[c], day) \o <<e>> ELSE toSave[c][d]]
    BY DEF AppendTo, Put, Old
  <2> HIDE DEF e, r, day, f
  <2>6. \A i \in DOMAIN (Old(toSave[c], day) \o <<e>>) :
           (Old(toSave[c], day) \o <<e>>)[i].dev = device[c]
    <3>1. /\ Old(toSave[c], day) \in Seq(Entry)
          /\ \A i \in DOMAIN Old(toSave[c], day) : Old(toSave[c], day)[i].dev = device[c]
      BY <1>0 DEF Old
    <3>2. <<e>> \in Seq(Entry) /\ \A i \in DOMAIN <<e>> : <<e>>[i].dev = device[c]
      BY <2>3, <2>4
    <3> QED BY <3>1, <3>2, ConcatOwn
  <2>7. \A d \in DOMAIN f : \A i \in DOMAIN f[d] : f[d][i].dev = device[c]
    BY <2>5, <2>6
  <2>8. ASSUME toSave' = [toSave EXCEPT ![c] = f] PROVE EntriesAreOwn'
    BY <1>0, <2>1, <2>7, <2>8
  <2> QED BY <2>1, <2>2, <2>8
<1>3. ASSUME NEW c \in Conn, SaveToFileList(c) PROVE EntriesAreOwn'
  <2>1. UNCHANGED <<device, toSave>>
    BY <1>3 DEF SaveToFileList
  <2>2. CASE track' = track
    BY <2>1, <2>2
  <2>3. ASSUME NEW d \in DOMAIN toSave[c],
               track' = AppendTo(track, <<d, name[c]>>, toSave[c][d])
        PROVE  EntriesAreOwn'
    <3> DEFINE key == <<d, name[c]>>
               f == AppendTo(track, key, toSave[c][d])
    <3>1. f = [k \in DOMAIN track \cup {key} |->
                 IF k = key THEN Old(track, key) \o toSave[c][d] ELSE track[k]]
      BY DEF AppendTo, Put, Old
    <3>2. toSave[c][d] \in Seq(Entry) /\ Old(track, key) \in Seq(Entry)
      BY <1>0 DEF Old
    <3>3. key[2] = name[c]
      OBVIOUS
    <3>4. track' = f
      BY <2>3
    <3> HIDE DEF key, f
    <3>5. ASSUME NEW j \in DOMAIN name[c]
          PROVE  \A i \in DOMAIN (Old(track, key) \o toSave[c][d]) :
                    (Old(track, key) \o toSave[c][d])[i].dev = name[c][j]
      <4>1. \A i \in DOMAIN Old(track, key) : Old(track, key)[i].dev = name[c][j]
        BY <3>3, <3>5 DEF Old
      <4>2. \A i \in DOMAIN toSave[c][d] : toSave[c][d][i].dev = name[c][j]
        BY <3>5 DEF NamesAreOwn
      <4> QED BY <3>2, <4>1, <4>2, ConcatOwn
    <3>6. ASSUME NEW k \in DOMAIN f, NEW i \in DOMAIN f[k], NEW j \in DOMAIN k[2]
          PROVE  k[2][j] = f[k][i].dev
      <4>1. CASE k = key
        BY <3>1, <3>3, <3>5, <3>6, <4>1
      <4>2. CASE k # key
        BY <3>1, <3>6, <4>2
      <4> QED BY <4>1, <4>2
    <3> QED BY <2>1, <3>4, <3>6
  <2> QED BY <1>3, <2>2, <2>3 DEF SaveToFileList
<1>4. ASSUME NEW c \in Conn, Reply(c) PROVE EntriesAreOwn'
  <2>1. toSave' = [toSave EXCEPT ![c] = Empty] /\ UNCHANGED <<device, track>>
    BY <1>4 DEF Reply
  <2>2. DOMAIN Empty = {}
    BY DEF Empty
  <2> QED BY <1>0, <2>1, <2>2
<1>5. ASSUME UNCHANGED <<device, toSave, track>> PROVE EntriesAreOwn'
  BY <1>5
<1>6. ASSUME NEW c \in Conn,
             \/ Disconnect(c) \/ Login(c) \/ EndOfRecords(c) \/ SaveErrorList(c)
             \/ SaveODPList(c) \/ SaveFails(c) \/ SetGPS(c)
             \/ \E p \in Packet : Receive(c, p)
      PROVE  EntriesAreOwn'
  <2>1. UNCHANGED <<device, toSave, track>>
    BY <1>6 DEF Disconnect, Login, EndOfRecords, SaveErrorList, SaveODPList,
       SaveFails, SetGPS, Receive
  <2> QED BY <1>5, <2>1
<1>7. ASSUME ResetRegistry \/ Restart PROVE EntriesAreOwn'
  BY <1>5, <1>7 DEF ResetRegistry, Restart
<1>8. CASE UNCHANGED vars
  BY <1>5, <1>8 DEF vars
<1> QED BY <1>1, <1>2, <1>3, <1>4, <1>6, <1>7, <1>8
        DEF Next, Exhausted, HandlerStep

\* What is on a connection is untouched: its records stay accounted for.
LEMMA AccountedFrame ==
  ASSUME NEW k \in Conn, AccountedAt(k),
         pc'[k] = pc[k], input'[k] = input[k], rest'[k] = rest[k],
         errList'[k] = errList[k], toSave'[k] = toSave[k],
         wrote'[k] = wrote[k], result'[k] = result[k]
  PROVE  AccountedAt(k)'
  BY DEF AccountedAt, Fitted

\* The states in which nothing is owed.
LEMMA AccountedNothing ==
  ASSUME NEW k \in Conn, pc'[k] \in {"unused", "reading", "gone", "killed"}
  PROVE  AccountedAt(k)'
  BY DEF AccountedAt

\* No record is lost between the input and the files of an acknowledged packet.
LEMMA AccountedNext == TypeOK /\ Accounted /\ [Next]_vars => Accounted'
<1> SUFFICES ASSUME TypeOK, Accounted, [Next]_vars, NEW k \in Conn
             PROVE  AccountedAt(k)'
  BY DEF Accounted
<1> USE DEF session, scratch, files, Goes
<1>0. /\ AccountedAt(k)
      /\ pc \in [Conn -> Pcs] /\ input \in [Conn -> Packet \cup {NoPacket}]
      /\ rest \in [Conn -> Seq(Record)] /\ errList \in [Conn -> Seq(Entry)]
      /\ toSave = [c \in Conn |-> toSave[c]]
      /\ \A c \in Conn : \A d \in DOMAIN toSave[c] :
            d \in Nat /\ toSave[c][d] \in Seq(Entry)
      /\ wrote \in [Conn -> SUBSET Record] /\ result \in [Conn -> {"ok", "bad"}]
  BY DEF TypeOK, Accounted
\* a step of another connection
<1>1. ASSUME NEW c \in Conn, NEW d \in Device, Connect(c, d) PROVE AccountedAt(k)'
  <2>1. CASE c = k
    BY <1>0, <1>1, <2>1, AccountedNothing DEF Connect
  <2>2. CASE c # k
    BY <1>0, <1>1, <2>2, AccountedFrame DEF Connect
  <2> QED BY <2>1, <2>2
<1>2. ASSUME NEW c \in Conn, c # k, HandlerStep(c) PROVE AccountedAt(k)'
  <2>1. /\ pc'[k] = pc[k] /\ input'[k] = input[k] /\ rest'[k] = rest[k]
        /\ errList'[k] = errList[k] /\ toSave'[k] = toSave[k]
        /\ wrote'[k] = wrote[k] /\ result'[k] = result[k]
    BY <1>0, <1>2 DEF HandlerStep, Disconnect, Receive, Login, ParseRecord,
       EndOfRecords, SaveErrorList, SaveToFileList, SaveODPList, SaveFails,
       SetGPS, Reply
  <2> QED BY <1>0, <2>1, AccountedFrame
\* a step of this one
<1>3. ASSUME Disconnect(k) \/ Reply(k) PROVE AccountedAt(k)'
  BY <1>0, <1>3, AccountedNothing DEF Disconnect, Reply
<1>4. ASSUME NEW p \in Packet, Receive(k, p) PROVE AccountedAt(k)'
  <2>1. p.kind \in Kinds /\ p.cut \in BOOLEAN
    BY PacketAssumption
  <2>2. /\ input'[k] = p /\ rest'[k] = p.recs
        /\ result'[k] = IF p.kind = "getinfo" THEN "bad" ELSE "ok"
        /\ pc'[k] = CASE p.kind = "getinfo" -> "reply"
                      [] p.kind = "login"   -> "login"
                      [] p.kind = "gps"     -> "parse"
                      [] p.kind = "odp" /\ ~p.cut -> "saveOdp"
                      [] OTHER              -> "set"
    BY <1>0, <1>4 DEF Receive
  <2>3. CASE p.kind = "getinfo"
    BY <2>2, <2>3 DEF AccountedAt
  <2>4. CASE p.kind = "login"
    BY <2>2, <2>4 DEF AccountedAt
  <2>5. CASE p.kind = "gps"
    BY <2>2, <2>5 DEF AccountedAt
  <2>6. CASE p.kind = "odp"
    BY <2>2, <2>6 DEF AccountedAt
  <2>7. CASE p.kind = "other"
    BY <2>2, <2>7 DEF AccountedAt
  <2> QED BY <2>1, <2>3, <2>4, <2>5, <2>6, <2>7 DEF Kinds
<1>5. ASSUME Login(k) PROVE AccountedAt(k)'
  <2>1. pc[k] = "login" /\ pc'[k] = "set" /\ input'[k] = input[k]
    BY <1>0, <1>5 DEF Login
  <2> QED BY <1>0, <2>1 DEF AccountedAt
<1>6. ASSUME ParseRecord(k) PROVE AccountedAt(k)'
  <2> DEFINE r == Head(rest[k])
             e == [dev |-> device[k], via |-> k, rec |-> r, early |-> Early(k, r)]
             day == Day(r.time)
             f == AppendTo(toSave[k], day, <<e>>)
  <2>1. /\ pc[k] = "parse" /\ pc'[k] = "parse" /\ input'[k] = input[k]
        /\ rest'[k] = Tail(rest[k])
    BY <1>0, <1>6 DEF ParseRecord
  <2>2. r \in Record /\ Elements(rest[k]) = {r} \cup Elements(Tail(rest[k]))
    BY <1>0, <1>6, HeadAndTail DEF ParseRecord
  <2>3. e \in Entry
    <3>1. device[k] \in Device
      BY <1>0, <1>6 DEF ParseRecord, TypeOK
    <3>2. Early(k, r) \in BOOLEAN
      BY DEF Early
    <3> QED BY <2>2, <3>1, <3>2, EntryType
  <2>4. e.rec = r
    OBVIOUS
  <2>5. \/ toSave'[k] = f /\ errList'[k] = errList[k]
        \/ toSave'[k] = toSave[k] /\ errList'[k] = Append(errList[k], e)
    BY <1>0, <1>6 DEF ParseRecord
  <2>6. f = [d \in DOMAIN toSave[k] \cup {day} |->
               IF d = day THEN Old(toSave[k], day) \o <<e>> ELSE toSave[k][d]]
    BY DEF AppendTo, Put, Old
  <2> HIDE DEF e, r, day, f
  <2>7. Elements(input[k].recs)
          \subseteq Elements(rest[k]) \cup RecordsOf(errList[k]) \cup Fitted(k)
    BY <1>0, <2>1 DEF AccountedAt
  <2>8. <<e>> \in Seq(Entry) /\ RecordsOf(<<e>>) = {r}
    BY <2>3, <2>4 DEF RecordsOf
  <2>9. CASE toSave'[k] = f /\ errList'[k] = errList[k]
    <3>1. Old(toSave[k], day) \in Seq(Entry)
      BY <1>0 DEF Old
    <3>2. RecordsOf(Old(toSave[k], day) \o <<e>>) = RecordsOf(Old(toSave[k], day)) \cup {r}
      <4>1. RecordsOf(Old(toSave[k], day) \o <<e>>)
              = RecordsOf(Old(toSave[k], day)) \cup RecordsOf(<<e>>)
        BY <2>8, <3>1, RecordsJoined
      <4> QED BY <2>8, <4>1
    <3>3. {r} \cup Fitted(k) \subseteq UNION {RecordsOf(f[d]) : d \in DOMAIN f}
      <4>1. day \in DOMAIN f /\ f[day] = Old(toSave[k], day) \o <<e>>
        BY <2>6
      <4>2. r \in RecordsOf(f[day])
        BY <3>2, <4>1
      <4>3. ASSUME NEW d \in DOMAIN toSave[k]
            PROVE  d \in DOMAIN f /\ RecordsOf(toSave[k][d]) \subseteq RecordsOf(f[d])
        <5>1. d \in DOMAIN f
          BY <2>6
        <5>2. CASE d = day
          BY <3>2, <4>1, <5>2 DEF Old
        <5>3. CASE d # day
          BY <2>6, <5>3
        <5> QED BY <5>1, <5>2, <5>3
      <4> QED BY <4>1, <4>2, <4>3 DEF Fitted
    <3>4. Fitted(k)' = UNION {RecordsOf(f[d]) : d \in DOMAIN f}
      BY <2>9 DEF Fitted
    <3>5. Elements(input[k].recs)
            \subseteq Elements(rest'[k]) \cup RecordsOf(errList'[k]) \cup Fitted(k)'
      BY <2>1, <2>2, <2>7, <2>9, <3>3, <3>4
    <3> QED BY <2>1, <3>5 DEF AccountedAt
  <2>10. CASE toSave'[k] = toSave[k] /\ errList'[k] = Append(errList[k], e)
    <3>1. Append(errList[k], e) = errList[k] \o <<e>>
      BY <1>0, <2>3
    <3>2. RecordsOf(errList'[k]) = RecordsOf(errList[k]) \cup {r}
      <4>1. errList[k] \in Seq(Entry)
        BY <1>0
      <4>2. RecordsOf(errList[k] \o <<e>>) = RecordsOf(errList[k]) \cup RecordsOf(<<e>>)
        BY <2>8, <4>1, RecordsJoined
      <4> QED BY <2>8, <2>10, <3>1, <4>2
    <3>3. Fitted(k)' = Fitted(k)
      BY <2>10 DEF Fitted
    <3>4. Elements(input[k].recs)
            \subseteq Elements(rest'[k]) \cup RecordsOf(errList'[k]) \cup Fitted(k)'
      BY <2>1, <2>2, <2>7, <3>2, <3>3
    <3> QED BY <2>1, <3>4 DEF AccountedAt
  <2> QED BY <2>5, <2>9, <2>10
<1>7. ASSUME EndOfRecords(k) PROVE AccountedAt(k)'
  <2>1. /\ pc[k] = "parse" /\ rest[k] = <<>>
        /\ pc'[k] = IF input[k].cut THEN "set" ELSE "saveErr"
        /\ input'[k] = input[k] /\ errList'[k] = errList[k] /\ toSave'[k] = toSave[k]
    BY <1>0, <1>7 DEF EndOfRecords
  <2>2. Elements(rest[k]) = {}
    BY <2>1 DEF Elements
  <2>3. Elements(input[k].recs) \subseteq RecordsOf(errList[k]) \cup Fitted(k)
    BY <1>0, <2>1, <2>2 DEF AccountedAt
  <2>4. Fitted(k)' = Fitted(k)
    BY <2>1 DEF Fitted
  <2> QED BY <2>1, <2>3, <2>4 DEF AccountedAt
<1>8. ASSUME SaveErrorList(k) PROVE AccountedAt(k)'
  <2>1. /\ pc[k] = "saveErr" /\ pc'[k] = "saveTrack" /\ input'[k] = input[k]
        /\ toSave'[k] = toSave[k]
        /\ wrote'[k] = wrote[k] \cup RecordsOf(errList[k])
    BY <1>0, <1>8 DEF SaveErrorList
  <2>2. Fitted(k)' = Fitted(k)
    BY <2>1 DEF Fitted
  <2> QED BY <1>0, <2>1, <2>2 DEF AccountedAt
<1>9. ASSUME SaveToFileList(k) PROVE AccountedAt(k)'
  <2>1. /\ pc[k] = "saveTrack" /\ pc'[k] = "set" /\ input'[k] = input[k]
        /\ toSave'[k] = toSave[k]
        /\ \/ DOMAIN toSave[k] = {} /\ wrote'[k] = wrote[k]
           \/ \E d \in DOMAIN toSave[k] :
                 wrote'[k] = wrote[k] \cup RecordsOf(toSave[k][d])
    BY <1>0, <1>9 DEF SaveToFileList
  <2>2. (\A d, e \in DOMAIN toSave[k] : d = e) => wrote[k] \cup Fitted(k) \subseteq wrote'[k]
    BY <2>1 DEF Fitted
  <2> QED BY <1>0, <2>1, <2>2 DEF AccountedAt
<1>10. ASSUME SaveODPList(k) PROVE AccountedAt(k)'
  <2>1. /\ pc[k] = "saveOdp" /\ pc'[k] = "set" /\ input'[k] = input[k]
        /\ wrote'[k] = wrote[k] \cup RecordsOf(OdpLines(k))
    BY <1>0, <1>10 DEF SaveODPList
  <2>2. RecordsOf(OdpLines(k)) = Elements(rest[k])
    BY DEF RecordsOf, Elements, OdpLines
  <2>3. Elements(input[k].recs) = Elements(rest[k])
    BY <1>0, <2>1 DEF AccountedAt
  <2> QED BY <2>1, <2>2, <2>3 DEF AccountedAt
<1>11. ASSUME SaveFails(k) PROVE AccountedAt(k)'
  <2>1. pc'[k] = "set" /\ result'[k] = "bad"
    BY <1>0, <1>11 DEF SaveFails
  <2> QED BY <2>1 DEF AccountedAt
<1>12. ASSUME SetGPS(k) PROVE AccountedAt(k)'
  <2>1. /\ pc[k] = "set" /\ pc'[k] = "reply" /\ input'[k] = input[k]
        /\ toSave'[k] = toSave[k] /\ wrote'[k] = wrote[k] /\ result'[k] = result[k]
    BY <1>0, <1>12 DEF SetGPS
  <2> QED BY <1>0, <2>1 DEF AccountedAt
\* a step of the server
<1>13. ASSUME ResetRegistry PROVE AccountedAt(k)'
  BY <1>0, <1>13, AccountedFrame DEF ResetRegistry
<1>14. ASSUME Restart PROVE AccountedAt(k)'
  <2>1. pc'[k] \in {"unused", "gone", "killed"}
    BY <1>14 DEF Restart, Live
  <2> QED BY <2>1, AccountedNothing
<1>15. CASE UNCHANGED vars
  BY <1>0, <1>15, AccountedFrame DEF vars
<1>16. ASSUME NEW c \in Conn, HandlerStep(c) PROVE AccountedAt(k)'
  <2>1. CASE c = k
    BY <1>3, <1>4, <1>5, <1>6, <1>7, <1>8, <1>9, <1>10, <1>11, <1>12, <1>16, <2>1
    DEF HandlerStep
  <2> QED BY <1>2, <1>16, <2>1
<1> QED BY <1>1, <1>13, <1>14, <1>15, <1>16 DEF Next, Exhausted

\* The initial state satisfies the inductive invariant.
LEMMA InitInv == Init => Inv
<1> SUFFICES ASSUME Init PROVE Inv
  OBVIOUS
<1>1. TypeOK
  BY DEF Init, Empty, TypeOK, Pcs, Record, Time, NoPacket
<1>2. NamesAreOwn /\ EntriesAreOwn
  BY DEF Init, Empty, NamesAreOwn, EntriesAreOwn
<1>3. Accounted
  BY DEF Init, Accounted, AccountedAt
<1> QED BY <1>1, <1>2, <1>3 DEF Inv

\* Every step keeps it.
LEMMA NextInv == Inv /\ [Next]_vars => Inv'
  BY TypeNext, NamesNext, EntriesNext, AccountedNext DEF Inv

\* Inv holds in every reachable state.
THEOREM Invariance == Spec => []Inv
  BY InitInv, NextInv, PTL DEF Spec

\* Every variable keeps its type.
THEOREM TypeCorrect == Spec => []TypeOK
  BY Invariance, PTL DEF Inv

\* A track under a tracker's name holds records of that tracker only, whatever
\* names the handlers read back from the registry and however they interleave.
THEOREM TracksDoNotMix == Spec => []TracksAreOwn
<1>1. Inv => TracksAreOwn
  <2> SUFFICES ASSUME Inv, NEW k \in DOMAIN track, NEW i \in DOMAIN track[k],
                      Len(k[2]) = 1
               PROVE  k[2] = <<track[k][i].dev>>
    BY DEF TracksAreOwn
  <2>1. k[2] \in Seq(Device)
    BY DEF Inv, TypeOK
  <2>2. k[2][1] = track[k][i].dev
    <3>1. 1 \in DOMAIN k[2]
      BY <2>1
    <3> QED BY <3>1 DEF Inv, EntriesAreOwn
  <2> QED BY <2>1, <2>2
<1> QED BY <1>1, Invariance, PTL

\* An acknowledged packet has every record in a file, for any packets, any
\* failures of the file system and any interleaving of the handlers.
THEOREM AcknowledgedIsStored == Spec => []AckedIsStored
<1>1. Inv => AckedIsStored
  BY DEF Inv, Accounted, AccountedAt, AckedIsStored
<1> QED BY <1>1, Invariance, PTL

-----------------------------------------------------------------------------
(* The order of what is written.  The registry gives a handler back its own *)
(* name as long as nobody empties it under the handler, and its own last    *)
(* time as long as a tracker has one connection at a time; and what a       *)
(* handler wrote and what it is about to write is not later than that time. *)

\* A handler that waits for a packet finds its name in the registry,
NameIsKnown ==
    \A c \in Conn : pc[c] \in {"reading", "reply"} /\ name[c] # <<>> =>
        name[c] \in DOMAIN registry

\* and the last time it has itself.
LastIsKnown ==
    \A c \in Conn : pc[c] \in {"reading", "reply"} /\ name[c] # <<>> =>
        registry[name[c]].last = last[c]

OnePerDevice ==
    \A c, k \in Conn : Live(c) /\ Live(k) /\ device[c] = device[k] => c = k

KeepInv == Inv /\ NameIsKnown
AloneInv == KeepInv /\ LastIsKnown /\ OnePerDevice

-----------------------------------------------------------------------------
(* The name.                                                               *)

\* A name nobody was accepted with is empty.
LEMMA UnusedHasNoName ==
  ASSUME Inv, NEW c \in Conn, pc[c] = "unused" PROVE name[c] = <<>>
<1>1. name[c] \in Seq(Device) /\ \A i \in DOMAIN name[c] : name[c][i] = NoDevice
  BY DEF Inv, TypeOK, NamesAreOwn
<1>2. ASSUME NEW i \in DOMAIN name[c] PROVE FALSE
  BY <1>1, <1>2, DeviceAssumption DEF DeviceAssumption
<1> QED BY <1>1, <1>2

\* A refresh from the registry leaves a handler its name, and its last time.
LEMMA RefreshKeepsName ==
  ASSUME Inv, NameIsKnown, NEW c \in Conn, NEW p \in Packet, Receive(c, p)
  PROVE  name' = name
<1>1. CASE p.kind # "getinfo" /\ name[c] # <<>>
  <2>1. name[c] \in DOMAIN registry
    BY <1>1 DEF Receive, Goes, NameIsKnown
  <2>2. GetGPS(name[c]).name = name[c]
    BY <2>1 DEF GetGPS, Inv, NamesAreOwn
  <2>3. name' = [name EXCEPT ![c] = name[c]]
    BY <1>1, <2>2 DEF Receive
  <2> QED BY <2>3 DEF Inv, TypeOK
<1>2. CASE ~(p.kind # "getinfo" /\ name[c] # <<>>)
  BY <1>2 DEF Receive, session
<1> QED BY <1>1, <1>2

\* The registry loses a name only when no handler is left that has it.
LEMMA NameNext ==
  ASSUME ~ResetMayHappen PROVE KeepInv /\ [Next]_vars => NameIsKnown'
<1> SUFFICES ASSUME KeepInv, [Next]_vars PROVE NameIsKnown'
  OBVIOUS
<1> USE DEF KeepInv, NameIsKnown, Goes, session, scratch, files
<1>0. pc \in [Conn -> Pcs] /\ name \in [Conn -> Seq(Device)]
  BY DEF Inv, TypeOK
<1>1. ASSUME NEW c \in Conn, NEW d \in Device, Connect(c, d) PROVE NameIsKnown'
  BY <1>0, <1>1, UnusedHasNoName DEF Connect
<1>2. ASSUME NEW c \in Conn, NEW p \in Packet, Receive(c, p) PROVE NameIsKnown'
  <2>1. name' = name /\ registry' = registry
    BY <1>2, RefreshKeepsName DEF Receive
  <2> QED BY <1>0, <1>2, <2>1 DEF Receive
<1>3. ASSUME NEW c \in Conn, Login(c) PROVE NameIsKnown'
  BY <1>0, <1>3 DEF Login
<1>4. ASSUME NEW c \in Conn, SetGPS(c) PROVE NameIsKnown'
  <2>1. CASE name[c] = <<>>
    BY <1>0, <1>4, <2>1 DEF SetGPS
  <2>2. CASE name[c] # <<>>
    <3>1. DOMAIN registry' = DOMAIN registry \cup {name[c]}
      BY <1>4, <2>2 DEF SetGPS, Put
    <3> QED BY <1>0, <1>4, <3>1 DEF SetGPS
  <2> QED BY <2>1, <2>2
<1>5. ASSUME NEW c \in Conn,
             Disconnect(c) \/ ParseRecord(c) \/ EndOfRecords(c) \/ SaveErrorList(c)
               \/ SaveToFileList(c) \/ SaveODPList(c) \/ SaveFails(c) \/ Reply(c)
      PROVE  NameIsKnown'
  BY <1>0, <1>5 DEF Disconnect, ParseRecord, EndOfRecords, SaveErrorList,
     SaveToFileList, SaveODPList, SaveFails, Reply
<1>6. CASE ResetRegistry
  BY <1>6 DEF ResetRegistry, Live
<1>7. CASE Restart
  BY <1>0, <1>7 DEF Restart, Live
<1>8. CASE UNCHANGED vars
  BY <1>8 DEF vars
<1> QED BY <1>1, <1>2, <1>3, <1>4, <1>5, <1>6, <1>7, <1>8
        DEF Next, Exhausted, HandlerStep

\* A connection that has named itself keeps a name, unless ListenAndServe is
\* entered again under live handlers: overlapping connections, failing files
\* and restarts do not take it.
THEOREM NamesStay == ASSUME ~ResetMayHappen PROVE Spec => NameIsKept
<1>1. Init => KeepInv
  BY InitInv DEF KeepInv, NameIsKnown, Init
<1>2. KeepInv /\ [Next]_vars => KeepInv'
  BY NextInv, NameNext DEF KeepInv
<1>3. ASSUME KeepInv, [Next]_vars, NEW c \in Conn, name[c] # <<>> PROVE name'[c] # <<>>
  <2> USE DEF session
  <2>1. name \in [Conn -> Seq(Device)]
    BY <1>3 DEF KeepInv, Inv, TypeOK
  <2>2. ASSUME NEW k \in Conn, NEW p \in Packet, Receive(k, p) PROVE name' = name
    BY <1>3, <2>2, RefreshKeepsName DEF KeepInv
  <2>3. ASSUME NEW k \in Conn, Login(k) PROVE name'[c] # <<>>
    <3>1. name' = [name EXCEPT ![k] = LoggedIn(name[k], device[k])]
      BY <2>3 DEF Login
    <3>2. name[k] # <<>> => LoggedIn(name[k], device[k]) # <<>>
      BY <2>1 DEF LoggedIn
    <3> QED BY <1>3, <2>1, <3>1, <3>2
  <2>4. ASSUME NEW k \in Conn, NEW d \in Device, Connect(k, d) PROVE name' = name
    BY <2>4 DEF Connect
  <2>5. ASSUME NEW k \in Conn,
               Disconnect(k) \/ ParseRecord(k) \/ EndOfRecords(k) \/ SaveErrorList(k)
                 \/ SaveToFileList(k) \/ SaveODPList(k) \/ SaveFails(k) \/ SetGPS(k)
                 \/ Reply(k)
        PROVE  name' = name
    BY <2>5 DEF Disconnect, ParseRecord, EndOfRecords, SaveErrorList,
       SaveToFileList, SaveODPList, SaveFails, SetGPS, Reply
  <2>6. ResetRegistry \/ Restart \/ Exhausted \/ UNCHANGED vars => name' = name
    BY DEF ResetRegistry, Restart, Exhausted, vars
  <2> QED BY <1>3, <2>2, <2>3, <2>4, <2>5, <2>6 DEF Next, HandlerStep
<1>4. KeepInv /\ [Next]_vars => [\A c \in Conn : name[c] # <<>> => name'[c] # <<>>]_vars
  BY <1>3
<1> QED BY <1>1, <1>2, <1>4, PTL DEF Spec, NameIsKept
-----------------------------------------------------------------------------
(* The last time.                                                          *)

\* Two live handlers with a name have different names.
LEMMA NamesDiffer ==
  ASSUME Inv, OnePerDevice, NEW c \in Conn, NEW k \in Conn, Live(c), Live(k),
         name[c] = name[k], name[c] # <<>>
  PROVE  c = k
<1>1. name[c] \in Seq(Device) /\ 1 \in DOMAIN name[c]
  BY DEF Inv, TypeOK
<1>2. device[c] = name[c][1] /\ device[k] = name[k][1]
  BY <1>1 DEF Inv, NamesAreOwn
<1> QED BY <1>2 DEF OnePerDevice

\* Nor does the refresh change the last time.
LEMMA RefreshKeepsLast ==
  ASSUME AloneInv, NEW c \in Conn, NEW p \in Packet, Receive(c, p)
  PROVE  last' = last
<1>1. CASE p.kind # "getinfo" /\ name[c] # <<>>
  <2>1. pc[c] = "reading" /\ last' = [last EXCEPT ![c] = GetGPS(name[c]).last]
    BY <1>1 DEF Receive, Goes
  <2>2. GetGPS(name[c]).last = last[c]
    BY <1>1, <2>1 DEF GetGPS, AloneInv, KeepInv, NameIsKnown, LastIsKnown
  <2> QED BY <2>1, <2>2 DEF AloneInv, KeepInv, Inv, TypeOK
<1>2. CASE ~(p.kind # "getinfo" /\ name[c] # <<>>)
  BY <1>2 DEF Receive, session
<1> QED BY <1>1, <1>2

\* A tracker has one live handler, and nobody else writes its last time.
LEMMA LastNext ==
  ASSUME ~ResetMayHappen, ~Overlap
  PROVE  AloneInv /\ [Next]_vars => LastIsKnown' /\ OnePerDevice'
<1> SUFFICES ASSUME AloneInv, [Next]_vars PROVE LastIsKnown' /\ OnePerDevice'
  OBVIOUS
<1>0. /\ pc \in [Conn -> Pcs] /\ name \in [Conn -> Seq(Device)]
      /\ device \in [Conn -> Device \cup {NoDevice}] /\ last \in [Conn -> Time]
      /\ Inv /\ NameIsKnown
  BY DEF AloneInv, KeepInv, Inv, TypeOK
<1> USE DEF AloneInv, LastIsKnown, OnePerDevice, Goes, session, scratch, files, Live
<1>1. ASSUME NEW c \in Conn, NEW d \in Device, Connect(c, d)
      PROVE  LastIsKnown' /\ OnePerDevice'
  BY <1>0, <1>1, UnusedHasNoName DEF Connect
<1>2. ASSUME NEW c \in Conn, NEW p \in Packet, Receive(c, p)
      PROVE  LastIsKnown' /\ OnePerDevice'
  <2>1. name' = name /\ last' = last /\ registry' = registry /\ device' = device
    BY <1>0, <1>2, RefreshKeepsName, RefreshKeepsLast DEF Receive
  <2>2. pc[c] = "reading" /\ \A k \in Conn : k # c => pc'[k] = pc[k]
    BY <1>0, <1>2 DEF Receive
  <2> QED BY <2>1, <2>2
<1>3. ASSUME NEW c \in Conn, Login(c) PROVE LastIsKnown' /\ OnePerDevice'
  BY <1>0, <1>3 DEF Login
<1>4. ASSUME NEW c \in Conn, ParseRecord(c) PROVE LastIsKnown' /\ OnePerDevice'
  <2>1. UNCHANGED <<pc, name, registry, device>> /\ \A k \in Conn : k # c => last'[k] = last[k]
    BY <1>0, <1>4 DEF ParseRecord
  <2>2. pc[c] = "parse"
    BY <1>4 DEF ParseRecord
  <2> QED BY <2>1, <2>2
<1>5. ASSUME NEW c \in Conn, SetGPS(c) PROVE LastIsKnown' /\ OnePerDevice'
  <2>1. OnePerDevice'
    BY <1>0, <1>5 DEF SetGPS
  <2>2. ASSUME NEW k \in Conn, pc'[k] \in {"reading", "reply"}, name[k] # <<>>
        PROVE  registry'[name[k]].last = last[k]
    <3>1. CASE k = c
      BY <1>5, <2>2, <3>1 DEF SetGPS, Put
    <3>2. CASE k # c
      <4>1. pc[k] \in {"reading", "reply"} /\ Live(k) /\ Live(c)
        BY <1>0, <1>5, <2>2, <3>2 DEF SetGPS
      <4>2. name[k] # name[c]
        BY <1>0, <2>2, <3>2, <4>1, NamesDiffer
      <4>3. name[k] \in DOMAIN registry
        BY <1>0, <2>2, <4>1 DEF NameIsKnown
      <4>4. registry'[name[k]] = registry[name[k]]
        BY <1>5, <4>2, <4>3 DEF SetGPS, Put
      <4> QED BY <2>2, <4>1, <4>4
    <3> QED BY <3>1, <3>2
  <2>3. UNCHANGED <<name, last>>
    BY <1>5 DEF SetGPS
  <2> QED BY <2>1, <2>2, <2>3
<1>6. ASSUME NEW c \in Conn,
             Disconnect(c) \/ EndOfRecords(c) \/ SaveErrorList(c) \/ SaveToFileList(c)
               \/ SaveODPList(c) \/ SaveFails(c) \/ Reply(c)
      PROVE  LastIsKnown' /\ OnePerDevice'
  <2>1. UNCHANGED <<name, last, registry, device>>
    BY <1>6 DEF Disconnect, EndOfRecords, SaveErrorList, SaveToFileList, SaveODPList,
       SaveFails, Reply
  <2>2. \A k \in Conn : /\ pc'[k] \in {"reading", "reply"} => pc[k] \in {"reading", "reply"}
                        /\ Live(k)' => Live(k)
    BY <1>0, <1>6 DEF Disconnect, EndOfRecords, SaveErrorList, SaveToFileList,
       SaveODPList, SaveFails, Reply
  <2> QED BY <2>1, <2>2
<1>7. CASE ResetRegistry
  BY <1>7 DEF ResetRegistry
<1>8. CASE Restart
  BY <1>0, <1>8 DEF Restart
<1>9. CASE UNCHANGED vars
  BY <1>9 DEF vars
<1> QED BY <1>1, <1>2, <1>3, <1>4, <1>5, <1>6, <1>7, <1>8, <1>9
        DEF Next, Exhausted, HandlerStep

-----------------------------------------------------------------------------
(* The files.                                                              *)

\* A list of entries in the order of their times.
InOrder(s) == \A i, j \in DOMAIN s : i < j => s[i].rec.time <= s[j].rec.time

\* What is in a track is not later than the last time of its connection,
TracksBehind ==
    \A k \in DOMAIN track : \A i \in DOMAIN track[k] :
        track[k][i].rec.time <= last[track[k][i].via]

\* and what is to go there lies between the two, in order.
ToSaveBetween ==
    \A c \in Conn :
        /\ pc[c] \in {"unused", "reading"} => DOMAIN toSave[c] = {}
        /\ pc[c] \in {"parse", "saveErr", "saveTrack"} =>
              \A d \in DOMAIN toSave[c] :
                 /\ InOrder(toSave[c][d])
                 /\ \A i \in DOMAIN toSave[c][d] :
                       LET e == toSave[c][d][i] IN
                       /\ e.via = c /\ e.rec.time <= last[c]
                       /\ \A k \in DOMAIN track : \A j \in DOMAIN track[k] :
                             track[k][j].via = c => track[k][j].rec.time <= e.rec.time

OrderInv == AloneInv /\ TracksBehind /\ ToSaveBetween /\ SessionSorted

\* A list in order stays so when a time is appended that none exceeds.
LEMMA AppendInOrder ==
  ASSUME NEW s \in Seq(Entry), InOrder(s), NEW e \in Entry,
         \A i \in DOMAIN s : s[i].rec.time <= e.rec.time
  PROVE  InOrder(s \o <<e>>)
<1>1. /\ DOMAIN (s \o <<e>>) = DOMAIN s \cup {Len(s) + 1}
      /\ \A i \in DOMAIN s : (s \o <<e>>)[i] = s[i]
      /\ (s \o <<e>>)[Len(s) + 1] = e /\ DOMAIN s = 1 .. Len(s) /\ Len(s) \in Nat
  OBVIOUS
<1> SUFFICES ASSUME NEW i \in DOMAIN (s \o <<e>>), NEW j \in DOMAIN (s \o <<e>>), i < j
             PROVE  (s \o <<e>>)[i].rec.time <= (s \o <<e>>)[j].rec.time
  BY DEF InOrder
<1>2. i \in DOMAIN s
  BY <1>1
<1> QED BY <1>1, <1>2 DEF InOrder

\* Parsing puts a record behind all its connection has written or is to write.
LEMMA ParseKeepsOrder ==
  ASSUME OrderInv, NEW c \in Conn, ParseRecord(c)
  PROVE  TracksBehind' /\ ToSaveBetween' /\ SessionSorted'
<1> DEFINE r == Head(rest[c])
           e == [dev |-> device[c], via |-> c, rec |-> r, early |-> Early(c, r)]
           day == Day(r.time)
           old == Old(toSave[c], day)
<1>0. /\ last \in [Conn -> Time] /\ pc \in [Conn -> Pcs]
      /\ device[c] \in Device /\ rest[c] \in Seq(Record) /\ rest[c] # <<>>
      /\ \A d \in DOMAIN toSave[c] : toSave[c][d] \in Seq(Entry)
      /\ toSave = [k \in Conn |-> toSave[k]] /\ pc[c] = "parse"
      /\ \A k \in DOMAIN track : track[k] \in Seq(Entry)
  BY DEF OrderInv, AloneInv, KeepInv, Inv, TypeOK, ParseRecord
<1>1. r \in Record /\ r.time \in Nat
  <2>1. r \in Record
    BY <1>0, HeadAndTail
  <2> QED BY <2>1 DEF Record, Time
<1>2. e \in Entry
  <2>1. Early(c, r) \in BOOLEAN
    BY DEF Early
  <2> QED BY <1>0, <1>1, <2>1, EntryType
<1>3. e.via = c /\ e.rec = r /\ UNCHANGED <<track, pc>>
  BY DEF ParseRecord, files
<1> HIDE DEF e, r
<1>4. CASE Fits(c, r)
  <2>1. /\ last' = [last EXCEPT ![c] = r.time]
        /\ toSave' = [toSave EXCEPT ![c] = AppendTo(@, day, <<e>>)]
    BY <1>4 DEF ParseRecord, e, r
  <2>2. last[c] \in Nat /\ last[c] <= r.time
    BY <1>0, <1>1, <1>4 DEF Fits, Early, Time
  <2>3. \A k \in DOMAIN track : \A j \in DOMAIN track[k] :
           /\ track[k][j].rec.time \in Nat /\ track[k][j].via \in Conn
           /\ track[k][j].via = c => track[k][j].rec.time <= r.time
    <3> SUFFICES ASSUME NEW k \in DOMAIN track, NEW j \in DOMAIN track[k]
                 PROVE  /\ track[k][j].rec.time \in Nat /\ track[k][j].via \in Conn
                        /\ track[k][j].via = c => track[k][j].rec.time <= r.time
      OBVIOUS
    <3>1. track[k][j] \in Entry
      BY <1>0
    <3>2. track[k][j].rec.time \in Nat /\ track[k][j].via \in Conn
      BY <3>1 DEF Entry, Record, Time
    <3>3. track[k][j].rec.time <= last[track[k][j].via]
      BY DEF OrderInv, TracksBehind
    <3> QED BY <1>1, <2>2, <3>2, <3>3
  <2>4. TracksBehind'
    <3> SUFFICES ASSUME NEW k \in DOMAIN track, NEW i \in DOMAIN track[k]
                 PROVE  track[k][i].rec.time <= last'[track[k][i].via]
      BY <1>3 DEF TracksBehind
    <3>1. CASE track[k][i].via = c
      BY <1>0, <2>1, <2>3, <3>1
    <3>2. CASE track[k][i].via # c
      BY <1>0, <2>1, <2>3, <3>2 DEF OrderInv, TracksBehind
    <3> QED BY <3>1, <3>2
  <2>5. /\ old \in Seq(Entry) /\ InOrder(old)
        /\ \A i \in DOMAIN old :
              /\ old[i].via = c /\ old[i].rec.time <= last[c]
              /\ \A k \in DOMAIN track : \A j \in DOMAIN track[k] :
                    track[k][j].via = c => track[k][j].rec.time <= old[i].rec.time
    <3>1. CASE day \in DOMAIN toSave[c]
      BY <1>0, <3>1 DEF Old, OrderInv, ToSaveBetween
    <3>2. CASE day \notin DOMAIN toSave[c]
      BY <3>2 DEF Old, InOrder
    <3> QED BY <3>1, <3>2
  <2>6. \A i \in DOMAIN old : old[i].rec.time \in Nat /\ old[i].rec.time <= e.rec.time
    <3> SUFFICES ASSUME NEW i \in DOMAIN old
                 PROVE  old[i].rec.time \in Nat /\ old[i].rec.time <= e.rec.time
      OBVIOUS
    <3>1. old[i] \in Entry
      BY <2>5
    <3>2. old[i].rec.time \in Nat
      BY <3>1 DEF Entry, Record, Time
    <3> QED BY <1>1, <1>3, <2>2, <2>5, <3>2
  <2>7. InOrder(old \o <<e>>)
    BY <1>2, <2>5, <2>6, AppendInOrder
  <2>8. \A i \in DOMAIN (old \o <<e>>) :
           LET x == (old \o <<e>>)[i] IN
           /\ x.via = c /\ x.rec.time <= r.time
           /\ \A k \in DOMAIN track : \A j \in DOMAIN track[k] :
                 track[k][j].via = c => track[k][j].rec.time <= x.rec.time
    <3> SUFFICES ASSUME NEW i \in DOMAIN (old \o <<e>>)
                 PROVE  LET x == (old \o <<e>>)[i] IN
                        /\ x.via = c /\ x.rec.time <= r.time
                        /\ \A k \in DOMAIN track : \A j \in DOMAIN track[k] :
                              track[k][j].via = c => track[k][j].rec.time <= x.rec.time
      OBVIOUS
    <3> HIDE DEF old
    <3>1. (i \in DOMAIN old /\ (old \o <<e>>)[i] = old[i]) \/ (old \o <<e>>)[i] = e
      BY <1>2, <2>5
    <3> QED BY <1>1, <1>3, <2>3, <2>5, <2>6, <3>1
  <2>9. \A d \in DOMAIN toSave'[c] :
           toSave'[c][d] = IF d = day THEN old \o <<e>> ELSE toSave[c][d]
    BY <1>0, <2>1 DEF AppendTo, Put, Old
  <2>10. \A d \in DOMAIN toSave'[c] : d # day => d \in DOMAIN toSave[c]
    BY <1>0, <2>1 DEF AppendTo, Put
  <2>11. ToSaveBetween'
    <3>0. \A k \in Conn : pc[k] \in {"unused", "reading"} => DOMAIN toSave'[k] = {}
      <4>1. \A k \in Conn : k # c => toSave'[k] = toSave[k]
        BY <1>0, <2>1
      <4> QED BY <1>0, <4>1 DEF OrderInv, ToSaveBetween
    <3> SUFFICES ASSUME NEW k \in Conn, pc[k] \in {"parse", "saveErr", "saveTrack"},
                        NEW d \in DOMAIN toSave'[k]
                 PROVE  /\ InOrder(toSave'[k][d])
                        /\ \A i \in DOMAIN toSave'[k][d] :
                              LET x == toSave'[k][d][i] IN
                              /\ x.via = k /\ x.rec.time <= last'[k]
                              /\ \A t \in DOMAIN track : \A j \in DOMAIN track[t] :
                                    track[t][j].via = k => track[t][j].rec.time <= x.rec.time
      BY <1>3, <3>0 DEF ToSaveBetween
    <3>1. CASE k = c /\ d = day
      BY <1>0, <2>1, <2>7, <2>8, <2>9, <3>1
    <3>2. CASE k = c /\ d # day
      <4>1. d \in DOMAIN toSave[c] /\ toSave'[c][d] = toSave[c][d] /\ last'[c] = r.time
        BY <1>0, <2>1, <2>9, <2>10, <3>2
      <4>2. \A i \in DOMAIN toSave[c][d] : toSave[c][d][i].rec.time \in Nat
        <5> SUFFICES ASSUME NEW i \in DOMAIN toSave[c][d]
                     PROVE  toSave[c][d][i].rec.time \in Nat
          OBVIOUS
        <5>1. toSave[c][d][i] \in Entry
          BY <1>0, <4>1
        <5> QED BY <5>1 DEF Entry, Record, Time
      <4>3. /\ InOrder(toSave[c][d])
            /\ \A i \in DOMAIN toSave[c][d] :
                  /\ toSave[c][d][i].via = c /\ toSave[c][d][i].rec.time <= last[c]
                  /\ \A t \in DOMAIN track : \A j \in DOMAIN track[t] :
                        track[t][j].via = c =>
                            track[t][j].rec.time <= toSave[c][d][i].rec.time
        BY <1>0, <4>1 DEF OrderInv, ToSaveBetween
      <4> QED BY <1>1, <2>2, <3>2, <4>1, <4>2, <4>3
    <3>3. CASE k # c
      <4>1. toSave'[k] = toSave[k] /\ last'[k] = last[k]
        BY <1>0, <2>1, <3>3
      <4> QED BY <4>1 DEF OrderInv, ToSaveBetween
    <3> QED BY <3>1, <3>2, <3>3
  <2>12. SessionSorted'
    BY <1>3 DEF OrderInv, SessionSorted
  <2> QED BY <2>4, <2>11, <2>12
<1>5. CASE ~Fits(c, r)
  <2>1. UNCHANGED <<last, toSave, track, pc>>
    BY <1>3, <1>5 DEF ParseRecord, e, r
  <2> QED BY <2>1 DEF OrderInv, TracksBehind, ToSaveBetween, SessionSorted
<1> QED BY <1>4, <1>5

\* A list whose entries are in order connection by connection stays so when
\* entries of one connection are appended, in order and behind its own.
LEMMA ConcatKeepsOrder ==
  ASSUME NEW s \in Seq(Entry), NEW t \in Seq(Entry), NEW c, InOrder(t),
         \A j \in DOMAIN t : t[j].via = c,
         \A i, j \in DOMAIN s : i < j /\ s[i].via = s[j].via => s[i].rec.time <= s[j].rec.time,
         \A i \in DOMAIN s : \A j \in DOMAIN t : s[i].via = c => s[i].rec.time <= t[j].rec.time,
         NEW i \in DOMAIN (s \o t), NEW j \in DOMAIN (s \o t), i < j,
         (s \o t)[i].via = (s \o t)[j].via
  PROVE  (s \o t)[i].rec.time <= (s \o t)[j].rec.time
<1>1. /\ \A k \in DOMAIN (s \o t) :
            \/ k \in DOMAIN s /\ (s \o t)[k] = s[k]
            \/ k - Len(s) \in DOMAIN t /\ (s \o t)[k] = t[k - Len(s)]
      /\ DOMAIN s = 1 .. Len(s) /\ DOMAIN t = 1 .. Len(t)
      /\ Len(s) \in Nat /\ Len(t) \in Nat /\ i \in Nat /\ j \in Nat
  BY ConcatElement
<1>2. CASE i \in DOMAIN s /\ (s \o t)[i] = s[i] /\ j \in DOMAIN s /\ (s \o t)[j] = s[j]
  BY <1>2
<1>3. CASE /\ i \in DOMAIN s /\ (s \o t)[i] = s[i]
           /\ j - Len(s) \in DOMAIN t /\ (s \o t)[j] = t[j - Len(s)]
  BY <1>3
<1>4. CASE /\ i - Len(s) \in DOMAIN t /\ (s \o t)[i] = t[i - Len(s)]
           /\ j - Len(s) \in DOMAIN t /\ (s \o t)[j] = t[j - Len(s)]
  BY <1>1, <1>4 DEF InOrder
<1>5. ~(i - Len(s) \in DOMAIN t /\ j \in DOMAIN s)
  BY <1>1
<1> QED BY <1>1, <1>2, <1>3, <1>4, <1>5

\* Saving moves what is between into a track.
LEMMA SaveKeepsOrder ==
  ASSUME OrderInv, NEW c \in Conn, SaveToFileList(c)
  PROVE  TracksBehind' /\ ToSaveBetween' /\ SessionSorted'
<1>0. /\ pc \in [Conn -> Pcs] /\ pc[c] = "saveTrack" /\ pc'[c] = "set"
      /\ \A k \in Conn : k # c => pc'[k] = pc[k]
      /\ UNCHANGED <<last, toSave>> /\ name[c] \in Seq(Device)
      /\ \A d \in DOMAIN toSave[c] : toSave[c][d] \in Seq(Entry)
      /\ \A k \in DOMAIN track : track[k] \in Seq(Entry)
  BY DEF OrderInv, AloneInv, KeepInv, Inv, TypeOK, SaveToFileList, Goes, session
<1>1. CASE DOMAIN toSave[c] = {}
  <2>1. track' = track
    BY <1>1 DEF SaveToFileList
  <2> QED BY <1>0, <2>1 DEF OrderInv, TracksBehind, ToSaveBetween, SessionSorted
<1>2. CASE DOMAIN toSave[c] # {}
  <2>1. PICK d \in DOMAIN toSave[c] : track' = AppendTo(track, <<d, name[c]>>, toSave[c][d])
    BY <1>2 DEF SaveToFileList
  <2> DEFINE key == <<d, name[c]>>
             t == toSave[c][d]
             s == Old(track, key)
  <2>2. /\ t \in Seq(Entry) /\ InOrder(t)
        /\ \A j \in DOMAIN t :
              /\ t[j].via = c /\ t[j].rec.time <= last[c]
              /\ \A k \in DOMAIN track : \A i \in DOMAIN track[k] :
                    track[k][i].via = c => track[k][i].rec.time <= t[j].rec.time
    BY <1>0 DEF OrderInv, ToSaveBetween
  <2>3. s \in Seq(Entry) /\ (s = <<>> \/ (key \in DOMAIN track /\ s = track[key]))
    BY <1>0 DEF Old
  <2>4. /\ DOMAIN track' = DOMAIN track \cup {key} /\ track'[key] = s \o t
        /\ \A k \in DOMAIN track : k # key => track'[k] = track[k]
    BY <2>1 DEF AppendTo, Put, Old
  <2> HIDE DEF t, s, key
  \* an entry of a track was there, or was to be saved
  <2>5. ASSUME NEW k \in DOMAIN track', NEW i \in DOMAIN track'[k]
        PROVE  \/ k \in DOMAIN track /\ \E j \in DOMAIN track[k] : track'[k][i] = track[k][j]
               \/ \E j \in DOMAIN t : track'[k][i] = t[j]
    <3>1. CASE k # key
      BY <2>4, <3>1
    <3>2. CASE k = key
      <4>1. \/ i \in DOMAIN s /\ (s \o t)[i] = s[i]
            \/ i - Len(s) \in DOMAIN t /\ (s \o t)[i] = t[i - Len(s)]
        BY <2>2, <2>3, <2>4, <3>2, ConcatElement
      <4>2. i \in DOMAIN s => key \in DOMAIN track /\ s = track[key]
        BY <2>3
      <4> QED BY <2>4, <3>2, <4>1, <4>2
    <3> QED BY <3>1, <3>2
  <2>6. TracksBehind'
    <3> SUFFICES ASSUME NEW k \in DOMAIN track', NEW i \in DOMAIN track'[k]
                 PROVE  track'[k][i].rec.time <= last[track'[k][i].via]
      BY <1>0 DEF TracksBehind
    <3> QED BY <2>2, <2>5 DEF OrderInv, TracksBehind
  <2>7. SessionSorted'
    <3> SUFFICES ASSUME NEW k \in DOMAIN track', NEW i \in DOMAIN track'[k],
                        NEW j \in DOMAIN track'[k], i < j, track'[k][i].via = track'[k][j].via
                 PROVE  track'[k][i].rec.time <= track'[k][j].rec.time
      BY DEF SessionSorted
    <3>1. CASE k # key
      <4>1. k \in DOMAIN track /\ track'[k] = track[k]
        BY <2>4, <3>1
      <4> QED BY <4>1 DEF OrderInv, SessionSorted
    <3>2. CASE k = key
      <4>1. \A a, b \in DOMAIN s :
               a < b /\ s[a].via = s[b].via => s[a].rec.time <= s[b].rec.time
        BY <2>3 DEF OrderInv, SessionSorted
      <4>2. \A a \in DOMAIN s : \A b \in DOMAIN t :
               s[a].via = c => s[a].rec.time <= t[b].rec.time
        BY <2>2, <2>3
      <4>3. /\ track'[k] = s \o t /\ i \in DOMAIN (s \o t) /\ j \in DOMAIN (s \o t)
            /\ (s \o t)[i].via = (s \o t)[j].via
        BY <2>4, <3>2
      <4>4. \A b \in DOMAIN t : t[b].via = c
        BY <2>2
      <4>5. (s \o t)[i].rec.time <= (s \o t)[j].rec.time
        BY <2>2, <2>3, <4>1, <4>2, <4>3, <4>4, ConcatKeepsOrder
      <4> QED BY <4>3, <4>5
    <3> QED BY <3>1, <3>2
  \* what is new in a track is not of the connections that still have to save
  <2>8. ToSaveBetween'
    <3> SUFFICES ASSUME NEW q \in Conn, pc'[q] \in {"parse", "saveErr", "saveTrack"},
                        NEW f \in DOMAIN toSave[q], NEW n \in DOMAIN toSave[q][f],
                        NEW k \in DOMAIN track', NEW i \in DOMAIN track'[k],
                        track'[k][i].via = q
                 PROVE  track'[k][i].rec.time <= toSave[q][f][n].rec.time
      BY <1>0 DEF OrderInv, ToSaveBetween
    <3>1. q # c /\ pc[q] = pc'[q]
      BY <1>0
    <3>2. PICK j \in DOMAIN track[k] : k \in DOMAIN track /\ track'[k][i] = track[k][j]
      BY <2>2, <2>5, <3>1
    <3> QED BY <3>1, <3>2 DEF OrderInv, ToSaveBetween
  <2> QED BY <2>6, <2>7, <2>8
<1> QED BY <1>1, <1>2

\* Every step keeps the order.
LEMMA OrderNext ==
  ASSUME ~ResetMayHappen, ~Overlap
  PROVE  OrderInv /\ [Next]_vars => TracksBehind' /\ ToSaveBetween' /\ SessionSorted'
<1> SUFFICES ASSUME OrderInv, [Next]_vars
             PROVE  TracksBehind' /\ ToSaveBetween' /\ SessionSorted'
  OBVIOUS
<1>0. /\ pc \in [Conn -> Pcs] /\ toSave = [k \in Conn |-> toSave[k]]
  BY DEF OrderInv, AloneInv, KeepInv, Inv, TypeOK
\* most steps neither save nor change what is to be saved
<1>1. ASSUME UNCHANGED <<last, toSave, track>>,
             \A k \in Conn :
                /\ pc'[k] \in {"unused", "reading"} =>
                      pc[k] \in {"unused", "reading"} \/ DOMAIN toSave[k] = {}
                /\ pc'[k] \in {"parse", "saveErr", "saveTrack"} =>
                      pc[k] \in {"parse", "saveErr", "saveTrack"} \/ DOMAIN toSave[k] = {}
      PROVE  TracksBehind' /\ ToSaveBetween' /\ SessionSorted'
  BY <1>1 DEF OrderInv, TracksBehind, ToSaveBetween, SessionSorted
<1>2. ASSUME NEW c \in Conn, NEW p \in Packet, Receive(c, p)
      PROVE  TracksBehind' /\ ToSaveBetween' /\ SessionSorted'
  <2>1. last' = last
    BY <1>2, RefreshKeepsLast DEF OrderInv
  <2>2. /\ UNCHANGED <<toSave, track>> /\ pc[c] = "reading"
        /\ \A k \in Conn : k # c => pc'[k] = pc[k]
    BY <1>0, <1>2 DEF Receive, Goes, files
  <2>3. DOMAIN toSave[c] = {}
    BY <2>2 DEF OrderInv, ToSaveBetween
  <2> QED BY <1>1, <2>1, <2>2, <2>3
<1>3. ASSUME NEW c \in Conn, Reply(c)
      PROVE  TracksBehind' /\ ToSaveBetween' /\ SessionSorted'
  <2>1. UNCHANGED <<last, track>>
    BY <1>3 DEF Reply, session, files
  <2>2. DOMAIN toSave'[c] = {} /\ pc'[c] = "reading"
        /\ \A k \in Conn : k # c => pc'[k] = pc[k] /\ toSave'[k] = toSave[k]
    BY <1>0, <1>3 DEF Reply, Goes, Empty
  <2> QED BY <2>1, <2>2 DEF OrderInv, TracksBehind, ToSaveBetween, SessionSorted
<1>4. ASSUME NEW c \in Conn, NEW d \in Device,
             Connect(c, d) \/ Disconnect(c) \/ Login(c) \/ EndOfRecords(c)
               \/ SaveErrorList(c) \/ SaveODPList(c) \/ SaveFails(c) \/ SetGPS(c)
      PROVE  TracksBehind' /\ ToSaveBetween' /\ SessionSorted'
  <2>1. UNCHANGED <<last, toSave, track>> \/ SaveFails(c)
    BY <1>4 DEF Connect, Disconnect, Login, EndOfRecords, SaveErrorList, SaveODPList,
       SetGPS, session, scratch, files
  <2>2. SaveFails(c) => UNCHANGED <<last, toSave, track>>
    BY DEF SaveFails, session, scratch, files
  <2>3. \A k \in Conn :
          /\ pc'[k] \in {"unused", "reading"} => pc[k] \in {"unused", "reading"}
          /\ pc'[k] \in {"parse", "saveErr", "saveTrack"} =>
                pc[k] \in {"parse", "saveErr", "saveTrack"}
    BY <1>0, <1>4 DEF Connect, Disconnect, Login, EndOfRecords, SaveErrorList,
       SaveODPList, SaveFails, SetGPS, Goes
  <2> QED BY <1>1, <2>1, <2>2, <2>3
<1>5. CASE ResetRegistry
  BY <1>1, <1>5 DEF ResetRegistry, session, scratch, files
<1>6. CASE Restart
  BY <1>0, <1>1, <1>6 DEF Restart, session, scratch, files, Live
<1>7. CASE UNCHANGED vars
  BY <1>1, <1>7 DEF vars, session, scratch, files
<1>8. ASSUME NEW c \in Conn, HandlerStep(c)
      PROVE  TracksBehind' /\ ToSaveBetween' /\ SessionSorted'
  <2>1. device[c] \in Device \/ device[c] = NoDevice
    BY DEF OrderInv, AloneInv, KeepInv, Inv, TypeOK
  <2>2. device[c] = NoDevice => pc[c] = "unused"
    BY DEF OrderInv, AloneInv, KeepInv, Inv, TypeOK
  <2>3. pc[c] # "unused"
    BY <1>8 DEF HandlerStep, Disconnect, Receive, Login, ParseRecord, EndOfRecords,
       SaveErrorList, SaveToFileList, SaveODPList, SaveFails, SetGPS, Reply, Goes
  <2> QED BY <1>2, <1>3, <1>4, <1>8, <2>1, <2>2, <2>3, ParseKeepsOrder, SaveKeepsOrder
          DEF HandlerStep
<1> QED BY <1>4, <1>5, <1>6, <1>7, <1>8 DEF Next, Exhausted

\* What one connection adds to a track is in order of time while a tracker has
\* one live connection and the registry is not emptied under it, through any
\* number of packets, refusals, failing files and restarts.
THEOREM SessionsAreSorted ==
  ASSUME ~ResetMayHappen, ~Overlap PROVE Spec => []SessionSorted
<1>1. Init => OrderInv
  <2>1. Init => Inv
    BY InitInv
  <2>2. Init => NameIsKnown /\ LastIsKnown /\ OnePerDevice
    BY DEF Init, NameIsKnown, LastIsKnown, OnePerDevice, Live
  <2>3. Init => TracksBehind /\ ToSaveBetween /\ SessionSorted
    BY DEF Init, TracksBehind, ToSaveBetween, SessionSorted, Empty
  <2> QED BY <2>1, <2>2, <2>3 DEF OrderInv, AloneInv, KeepInv
<1>2. OrderInv /\ [Next]_vars => OrderInv'
  BY NextInv, NameNext, LastNext, OrderNext DEF OrderInv, AloneInv, KeepInv
<1>3. OrderInv => SessionSorted
  BY DEF OrderInv
<1> QED BY <1>1, <1>2, <1>3, PTL DEF Spec

-----------------------------------------------------------------------------
(* Early records.  No write fails here, and one day is kept of a packet: then *)
(* the last time of a handler, and that of the registry, is backed by a track *)
(* whenever a packet is done with.                                           *)

\* A record that is kept unless it is early.
Acceptable(r) == r.time <= Tomorrow /\ r.sat >= MinSat /\ r.coord

\* Packets whose parse ends, and of whose records one day is kept.
OneDay ==
    \A p \in Packet : p.kind = "gps" =>
        /\ ~p.cut
        /\ \A r, s \in Elements(p.recs) :
              Acceptable(r) /\ Acceptable(s) => Day(r.time) = Day(s.time)

\* Tracks have a later record of the tracker,
Later(tracks, d, t) ==
    \E k \in DOMAIN tracks : \E j \in DOMAIN tracks[k] :
        tracks[k][j].dev = d /\ tracks[k][j].rec.time > t

\* whatever the time before the given one.
Backed(tracks, d, t) == \A s \in 0 .. t - 1 : Later(tracks, d, s)

\* A handler that is not at a packet of records has a last time that is backed;
\* one that is has that, or is about to save a record that backs it.
LastIsBacked(c) ==
    /\ pc[c] = "unused" => last[c] = 0
    /\ pc[c] \in {"reading", "login", "saveOdp", "set", "reply"} =>
          Backed(track, device[c], last[c])
    /\ pc[c] \in {"parse", "saveErr", "saveTrack"} =>
          \/ Backed(track, device[c], last[c])
          \/ \E d \in DOMAIN toSave[c] : \E i \in DOMAIN toSave[c][d] :
                toSave[c][d][i].rec.time >= last[c]

\* What is to be saved is of the day of the packet's acceptable records.
DayIsOne(c) ==
    /\ pc[c] \in {"unused", "reading"} => DOMAIN toSave[c] = {} /\ errList[c] = <<>>
    /\ pc[c] = "parse" => Elements(rest[c]) \subseteq Elements(input[c].recs)
    /\ pc[c] \in {"parse", "saveErr", "saveTrack"} =>
          /\ input[c] \in Packet /\ input[c].kind = "gps"
          /\ \A d \in DOMAIN toSave[c] :
                \E r \in Elements(input[c].recs) : Acceptable(r) /\ d = Day(r.time)

\* A record in the list is early because it is before the last time.
EarlyIsBefore(c) ==
    pc[c] \in {"parse", "saveErr"} =>
        \A i \in DOMAIN errList[c] :
            LET e == errList[c][i] IN
            e.dev = device[c] /\ (e.early => e.rec.time < last[c])

Behind(c) == LastIsBacked(c) /\ DayIsOne(c) /\ EarlyIsBefore(c)

\* The registry's times are backed, for every id a name is made of.
RegistryIsBacked ==
    \A n \in DOMAIN registry : \A i \in DOMAIN n :
        Backed(track, n[i], registry[n].last)

\* An early record in the error file has a later one in a track, or its handler
\* is about to save one, or some handler was killed.
ErrorsBehind ==
    \A n \in DOMAIN errors : \A i \in DOMAIN errors[n] :
        LET e == errors[n][i] IN
        e.early =>
            \/ Later(track, e.dev, e.rec.time)
            \/ \E c \in Conn :
                  pc[c] = "saveTrack" /\ device[c] = e.dev /\ e.rec.time < last[c]
            \/ \E c \in Conn : pc[c] = "killed"

EarlyInv == Inv /\ RegistryIsBacked /\ ErrorsBehind /\ \A c \in Conn : Behind(c)

\* Tracks only grow.
Grow == Grown(track, track')

LEMMA GrowBacks ==
  ASSUME Grow
  PROVE  \A d, t : /\ Later(track, d, t) => Later(track', d, t)
                   /\ Backed(track, d, t) => Backed(track', d, t)
  BY DEF Grow, Grown, Later, Backed

\* Every step lets the tracks grow.
LEMMA TracksGrow == ASSUME Inv, [Next]_vars PROVE Grow
<1> USE DEF session, scratch, files
<1>0. \A k \in DOMAIN track : track[k] \in Seq(Entry)
  BY DEF Inv, TypeOK
<1>1. CASE track' = track
  BY <1>1 DEF Grow, Grown
<1>2. ASSUME NEW c \in Conn, SaveToFileList(c), track' # track PROVE Grow
  <2>1. PICK d \in DOMAIN toSave[c] : track' = AppendTo(track, <<d, name[c]>>, toSave[c][d])
    BY <1>2 DEF SaveToFileList
  <2>2. toSave[c][d] \in Seq(Entry)
    BY DEF Inv, TypeOK
  <2> QED BY <1>0, <2>1, <2>2, AppendToHolds DEF Grow
<1>3. ASSUME NEW c \in Conn, HandlerStep(c), ~SaveToFileList(c) PROVE track' = track
  BY <1>3 DEF HandlerStep, Disconnect, Receive, Login, ParseRecord, EndOfRecords,
     SaveErrorList, SaveODPList, SaveFails, SetGPS, Reply
<1>4. ASSUME NEW c \in Conn, NEW d \in Device, Connect(c, d) PROVE track' = track
  BY <1>4 DEF Connect
<1>5. ResetRegistry \/ Restart \/ UNCHANGED vars => track' = track
  BY DEF ResetRegistry, Restart, vars
<1> QED BY <1>1, <1>2, <1>3, <1>4, <1>5 DEF Next, Exhausted

\* A handler that does not move stays backed.
LEMMA BehindStays ==
  ASSUME Grow, NEW c \in Conn, Behind(c), pc'[c] = pc[c], device'[c] = device[c],
         last'[c] = last[c], toSave'[c] = toSave[c], errList'[c] = errList[c],
         rest'[c] = rest[c], input'[c] = input[c]
  PROVE  Behind(c)'
<1>1. Backed(track, device[c], last[c]) => Backed(track', device[c], last[c])
  BY GrowBacks
<1>2. LastIsBacked(c)'
  BY <1>1 DEF Behind, LastIsBacked
<1>3. DayIsOne(c)' /\ EarlyIsBefore(c)'
  BY DEF Behind, DayIsOne, EarlyIsBefore
<1> QED BY <1>2, <1>3 DEF Behind

\* A registry that is not written stays backed,
LEMMA RegistryStays ==
  ASSUME Grow, RegistryIsBacked, registry' \in {registry, Empty} PROVE RegistryIsBacked'
<1>1. CASE registry' = registry
  <2> SUFFICES ASSUME NEW n \in DOMAIN registry, NEW i \in DOMAIN n
               PROVE  Backed(track', n[i], registry[n].last)
    BY <1>1 DEF RegistryIsBacked
  <2>1. Backed(track, n[i], registry[n].last)
    BY DEF RegistryIsBacked
  <2> QED BY <2>1, GrowBacks
<1>2. CASE registry' = Empty
  BY <1>2 DEF RegistryIsBacked, Empty
<1> QED BY <1>1, <1>2

\* and so do the errors, unless a handler has saved.
LEMMA ErrorsStay ==
  ASSUME Grow, ErrorsBehind, errors' = errors,
         \A c \in Conn :
            /\ pc[c] = "killed" => pc'[c] = "killed"
            /\ pc[c] = "saveTrack" =>
                  /\ pc'[c] \in {"saveTrack", "killed"}
                  /\ device'[c] = device[c] /\ last'[c] = last[c]
  PROVE  ErrorsBehind'
<1> SUFFICES ASSUME NEW n \in DOMAIN errors, NEW i \in DOMAIN errors[n], errors[n][i].early
             PROVE  \/ Later(track', errors[n][i].dev, errors[n][i].rec.time)
                    \/ \E c \in Conn : /\ pc'[c] = "saveTrack"
                                       /\ device'[c] = errors[n][i].dev
                                       /\ errors[n][i].rec.time < last'[c]
                    \/ \E c \in Conn : pc'[c] = "killed"
  BY DEF ErrorsBehind
<1> DEFINE e == errors[n][i]
<1>1. \/ Later(track, e.dev, e.rec.time)
      \/ \E c \in Conn :
            pc[c] = "saveTrack" /\ device[c] = e.dev /\ e.rec.time < last[c]
      \/ \E c \in Conn : pc[c] = "killed"
  BY DEF ErrorsBehind
<1>2. Later(track, e.dev, e.rec.time) => Later(track', e.dev, e.rec.time)
  BY GrowBacks
<1> QED BY <1>1, <1>2

-----------------------------------------------------------------------------
\* Only files and the registry keep a handler's last time: it is backed when it
\* is read back.
LEMMA ReceiveBehind ==
  ASSUME EarlyInv, Grow, NEW c \in Conn, NEW p \in Packet, Receive(c, p)
  PROVE  Behind(c)'
<1>0. /\ pc \in [Conn -> Pcs] /\ name[c] \in Seq(Device) /\ last \in [Conn -> Time]
      /\ \A i \in DOMAIN name[c] : name[c][i] = device[c]
      /\ input \in [Conn -> Packet \cup {NoPacket}] /\ rest \in [Conn -> Seq(Record)]
  BY DEF EarlyInv, Inv, TypeOK, NamesAreOwn
<1>1. /\ pc[c] = "reading" /\ UNCHANGED <<device, errList, toSave, track>>
      /\ input'[c] = p /\ rest'[c] = p.recs
      /\ pc'[c] \in {"reply", "login", "parse", "saveOdp", "set"}
      /\ pc'[c] = "parse" => p.kind = "gps"
  BY <1>0 DEF Receive, Goes, files
<1>2. Behind(c)
  BY DEF EarlyInv
<1>3. Backed(track, device[c], last'[c])
  <2>1. CASE p.kind # "getinfo" /\ name[c] # <<>>
    <3>1. last'[c] = GetGPS(name[c]).last
      BY <1>0, <2>1 DEF Receive
    <3>2. CASE name[c] \in DOMAIN registry
      <4>1. 1 \in DOMAIN name[c] /\ name[c][1] = device[c]
        BY <1>0, <2>1
      <4>2. Backed(track, name[c][1], registry[name[c]].last)
        BY <3>2, <4>1 DEF EarlyInv, RegistryIsBacked
      <4> QED BY <3>1, <3>2, <4>1, <4>2 DEF GetGPS
    <3>3. CASE name[c] \notin DOMAIN registry
      BY <3>1, <3>3 DEF GetGPS, Backed
    <3> QED BY <3>2, <3>3
  <2>2. CASE ~(p.kind # "getinfo" /\ name[c] # <<>>)
    <3>1. last' = last
      BY <2>2 DEF Receive, session
    <3> QED BY <1>1, <1>2, <3>1 DEF Behind, LastIsBacked
  <2> QED BY <2>1, <2>2
<1>4. LastIsBacked(c)'
  BY <1>1, <1>3 DEF LastIsBacked
<1>5. DOMAIN toSave[c] = {} /\ errList[c] = <<>>
  BY <1>1, <1>2 DEF Behind, DayIsOne
<1>6. DayIsOne(c)'
  BY <1>1, <1>5 DEF DayIsOne
<1>7. EarlyIsBefore(c)'
  BY <1>1, <1>5 DEF EarlyIsBefore
<1> QED BY <1>4, <1>6, <1>7 DEF Behind

\* A record parsed is to be saved, and the last time is its own; or it is listed,
\* as early when it is before the last time.
LEMMA ParseBehind ==
  ASSUME EarlyInv, NEW c \in Conn, ParseRecord(c)
  PROVE  Behind(c)'
<1> DEFINE r == Head(rest[c])
           e == [dev |-> device[c], via |-> c, rec |-> r, early |-> Early(c, r)]
           day == Day(r.time)
<1>0. /\ last \in [Conn -> Time] /\ pc[c] = "parse" /\ toSave = [k \in Conn |-> toSave[k]]
      /\ device[c] \in Device /\ rest[c] \in Seq(Record) /\ rest[c] # <<>>
      /\ \A d \in DOMAIN toSave[c] : toSave[c][d] \in Seq(Entry)
      /\ errList \in [Conn -> Seq(Entry)] /\ rest \in [Conn -> Seq(Record)]
  BY DEF EarlyInv, Inv, TypeOK, ParseRecord
<1>1. /\ r \in Record /\ r \in Elements(rest[c])
      /\ Elements(Tail(rest[c])) \subseteq Elements(rest[c])
  BY <1>0, HeadAndTail
<1>2. r.time \in Nat /\ last[c] \in Nat
  BY <1>0, <1>1 DEF Record, Time
<1>3. e \in Entry
  <2>1. Early(c, r) \in BOOLEAN
    BY DEF Early
  <2> QED BY <1>0, <1>1, <2>1, EntryType
<1>4. /\ e.dev = device[c] /\ e.rec = r /\ e.early = (r.time < last[c])
      /\ UNCHANGED <<track, pc, device, input>> /\ rest'[c] = Tail(rest[c])
  BY <1>0 DEF ParseRecord, files, Early
<1>5. Behind(c)
  BY DEF EarlyInv
<1>6. /\ r \in Elements(input[c].recs)
      /\ Elements(rest'[c]) \subseteq Elements(input[c].recs)
      /\ input[c] \in Packet /\ input[c].kind = "gps"
  BY <1>0, <1>1, <1>4, <1>5 DEF Behind, DayIsOne
<1> HIDE DEF e, r
<1>7. CASE Fits(c, r)
  <2>1. /\ last'[c] = r.time /\ errList' = errList
        /\ toSave'[c] = AppendTo(toSave[c], day, <<e>>)
    BY <1>0, <1>7 DEF ParseRecord, e, r
  <2>2. last[c] <= r.time /\ Acceptable(r)
    BY <1>2, <1>7 DEF Fits, Early, Acceptable
  <2>3. day \in DOMAIN toSave'[c] /\ \E j \in DOMAIN toSave'[c][day] : toSave'[c][day][j] = e
    <3>1. <<e>> \in Seq(Entry) /\ 1 \in DOMAIN <<e>> /\ <<e>>[1] = e
      BY <1>3
    <3> DEFINE s == <<e>>
    <3> HIDE DEF s, day
    <3>2. /\ day \in DOMAIN AppendTo(toSave[c], day, s)
          /\ \A i \in DOMAIN s : \E j \in DOMAIN AppendTo(toSave[c], day, s)[day] :
                AppendTo(toSave[c], day, s)[day][j] = s[i]
      <4>1. s \in Seq(Entry) /\ \A d \in DOMAIN toSave[c] : toSave[c][d] \in Seq(Entry)
        BY <1>0, <3>1 DEF s
      <4> DEFINE m == toSave[c]
      <4> HIDE DEF m
      <4>2. s \in Seq(Entry) /\ \A d \in DOMAIN m : m[d] \in Seq(Entry)
        BY <4>1 DEF m
      <4>3. /\ day \in DOMAIN AppendTo(m, day, s)
            /\ \A i \in DOMAIN s : \E j \in DOMAIN AppendTo(m, day, s)[day] :
                  AppendTo(m, day, s)[day][j] = s[i]
        BY <4>2, AppendToHolds
      <4> QED BY <4>3 DEF m
    <3> QED BY <2>1, <3>1, <3>2 DEF s
  <2>4. LastIsBacked(c)'
    <3>1. \E d \in DOMAIN toSave'[c] : \E j \in DOMAIN toSave'[c][d] :
             toSave'[c][d][j].rec.time >= last'[c]
      BY <1>2, <1>4, <2>1, <2>3
    <3> QED BY <1>0, <1>4, <3>1 DEF LastIsBacked
  <2>5. DayIsOne(c)'
    <3>1. DOMAIN toSave'[c] = DOMAIN toSave[c] \cup {day}
      BY <2>1 DEF AppendTo, Put
    <3>2. \A d \in DOMAIN toSave'[c] :
             \E s \in Elements(input[c].recs) : Acceptable(s) /\ d = Day(s.time)
      BY <1>0, <1>5, <1>6, <2>2, <3>1 DEF Behind, DayIsOne
    <3> QED BY <1>0, <1>4, <1>6, <3>2 DEF DayIsOne
  <2>6. EarlyIsBefore(c)'
    <3> SUFFICES ASSUME NEW i \in DOMAIN errList[c]
                 PROVE  /\ errList[c][i].dev = device[c]
                        /\ errList[c][i].early => errList[c][i].rec.time < last'[c]
      BY <1>4, <2>1 DEF EarlyIsBefore
    <3>1. errList[c][i] \in Entry
      BY <1>0
    <3>2. errList[c][i].rec.time \in Nat
      BY <3>1 DEF Entry, Record, Time
    <3>3. /\ errList[c][i].dev = device[c]
          /\ errList[c][i].early => errList[c][i].rec.time < last[c]
      BY <1>0, <1>5 DEF Behind, EarlyIsBefore
    <3> QED BY <1>2, <2>1, <2>2, <3>2, <3>3
  <2> QED BY <2>4, <2>5, <2>6 DEF Behind
<1>8. CASE ~Fits(c, r)
  <2>1. UNCHANGED <<last, toSave>> /\ errList'[c] = Append(errList[c], e)
    BY <1>0, <1>8 DEF ParseRecord, e, r
  <2>2. LastIsBacked(c)'
    BY <1>4, <1>5, <2>1 DEF Behind, LastIsBacked
  <2>3. DayIsOne(c)'
    BY <1>0, <1>4, <1>5, <1>6, <2>1 DEF Behind, DayIsOne
  <2>4. EarlyIsBefore(c)'
    <3> SUFFICES ASSUME NEW i \in DOMAIN errList'[c]
                 PROVE  /\ errList'[c][i].dev = device[c]
                        /\ errList'[c][i].early => errList'[c][i].rec.time < last[c]
      BY <1>4, <2>1 DEF EarlyIsBefore
    <3>1. (i \in DOMAIN errList[c] /\ errList'[c][i] = errList[c][i]) \/ errList'[c][i] = e
      BY <1>0, <1>3, <2>1
    <3> QED BY <1>0, <1>4, <1>5, <3>1 DEF Behind, EarlyIsBefore
  <2> QED BY <2>2, <2>3, <2>4 DEF Behind
<1> QED BY <1>7, <1>8

\* A handler that saves puts into a track what it has of that time: there is one
\* day only that it could save.
LEMMA SaveBacks ==
  ASSUME EarlyInv, OneDay, Grow, NEW c \in Conn, SaveToFileList(c)
  PROVE  Backed(track', device[c], last[c])
<1>0. /\ pc[c] = "saveTrack" /\ last[c] \in Nat
      /\ \A d \in DOMAIN toSave[c] : toSave[c][d] \in Seq(Entry)
      /\ \A k \in DOMAIN track : track[k] \in Seq(Entry)
  BY DEF EarlyInv, Inv, TypeOK, SaveToFileList, Goes, Time
<1>1. Behind(c)
  BY DEF EarlyInv
<1>2. CASE Backed(track, device[c], last[c])
  BY <1>2, GrowBacks
<1>3. ASSUME NEW d \in DOMAIN toSave[c], NEW i \in DOMAIN toSave[c][d],
             toSave[c][d][i].rec.time >= last[c]
      PROVE  Backed(track', device[c], last[c])
  <2> DEFINE x == toSave[c][d][i]
  <2>1. PICK f \in DOMAIN toSave[c] : track' = AppendTo(track, <<f, name[c]>>, toSave[c][f])
    BY <1>3 DEF SaveToFileList
  <2>2. f = d
    <3>1. /\ input[c] \in Packet /\ input[c].kind = "gps"
          /\ \A y \in {d, f} :
                \E r \in Elements(input[c].recs) : Acceptable(r) /\ y = Day(r.time)
      BY <1>0, <1>1 DEF Behind, DayIsOne
    <3> QED BY <3>1 DEF OneDay
  <2>3. \E j \in DOMAIN track'[<<f, name[c]>>] : track'[<<f, name[c]>>][j] = x
    BY <1>0, <2>1, <2>2, AppendToHolds
  <2>4. <<f, name[c]>> \in DOMAIN track'
    BY <1>0, <2>1, AppendToHolds
  <2>5. x.dev = device[c]
    BY DEF EarlyInv, Inv, EntriesAreOwn
  <2>6. x.rec.time \in Nat
    <3>1. x \in Entry
      BY <1>0
    <3> QED BY <3>1 DEF Entry, Record, Time
  <2> HIDE DEF x
  <2>7. ASSUME NEW s \in 0 .. last[c] - 1 PROVE Later(track', device[c], s)
    <3>1. x.rec.time > s
      BY <1>0, <1>3, <2>6 DEF x
    <3> QED BY <2>3, <2>4, <2>5, <3>1 DEF Later
  <2> QED BY <2>7 DEF Backed
<1> QED BY <1>0, <1>1, <1>2, <1>3 DEF Behind, LastIsBacked

\* The handler whose step it is, and the others.
LEMMA HandlersBehind ==
  ASSUME OneDay, ~SaveMayFail, EarlyInv, [Next]_vars, NEW c \in Conn
  PROVE  Behind(c)'
<1> USE DEF Goes, session, scratch, files
<1>0. /\ pc \in [Conn -> Pcs] /\ last \in [Conn -> Time]
      /\ input \in [Conn -> Packet \cup {NoPacket}]
      /\ device \in [Conn -> Device \cup {NoDevice}] /\ rest \in [Conn -> Seq(Record)]
      /\ errList \in [Conn -> Seq(Entry)] /\ toSave = [k \in Conn |-> toSave[k]]
      /\ Behind(c)
  BY DEF EarlyInv, Inv, TypeOK
<1>1. Grow
  BY TracksGrow DEF EarlyInv
<1>2. Backed(track, device[c], last[c]) => Backed(track', device[c], last[c])
  BY <1>1, GrowBacks
\* the step of another handler
<1>3. ASSUME NEW k \in Conn, k # c, HandlerStep(k) \/ \E d \in Device : Connect(k, d)
      PROVE  Behind(c)'
  <2>1. /\ pc'[c] = pc[c] /\ device'[c] = device[c] /\ last'[c] = last[c]
        /\ toSave'[c] = toSave[c] /\ errList'[c] = errList[c]
        /\ rest'[c] = rest[c] /\ input'[c] = input[c]
    <3>1. CASE \E d \in Device : Connect(k, d)
      BY <1>0, <1>3, <3>1 DEF Connect
    <3>2. CASE \E p \in Packet : Receive(k, p)
      BY <1>0, <1>3, <3>2 DEF Receive
    <3>3. CASE ParseRecord(k)
      BY <1>0, <1>3, <3>3 DEF ParseRecord
    <3>4. CASE Reply(k)
      BY <1>0, <1>3, <3>4 DEF Reply
    <3>5. CASE Disconnect(k) \/ Login(k) \/ EndOfRecords(k) \/ SaveErrorList(k)
                 \/ SaveToFileList(k) \/ SaveODPList(k) \/ SaveFails(k) \/ SetGPS(k)
      BY <1>0, <1>3, <3>5 DEF Disconnect, Login, EndOfRecords, SaveErrorList,
         SaveToFileList, SaveODPList, SaveFails, SetGPS
    <3> QED BY <1>3, <3>1, <3>2, <3>3, <3>4, <3>5 DEF HandlerStep
  <2> QED BY <1>0, <1>1, <2>1, BehindStays
\* its own
<1>4. ASSUME NEW d \in Device, Connect(c, d) PROVE Behind(c)'
  <2>1. /\ pc[c] = "unused" /\ pc'[c] = "reading" /\ last' = last
        /\ UNCHANGED <<toSave, errList>>
    BY <1>0, <1>4 DEF Connect
  <2>2. Backed(track', device'[c], last'[c])
    BY <1>0, <2>1 DEF Behind, LastIsBacked, Backed
  <2> QED BY <1>0, <2>1, <2>2 DEF Behind, LastIsBacked, DayIsOne, EarlyIsBefore
<1>5. CASE Disconnect(c)
  <2>1. pc'[c] = "gone"
    BY <1>0, <1>5 DEF Disconnect
  <2> QED BY <2>1 DEF Behind, LastIsBacked, DayIsOne, EarlyIsBefore
<1>6. ASSUME NEW p \in Packet, Receive(c, p) PROVE Behind(c)'
  BY <1>1, <1>6, ReceiveBehind
<1>7. CASE Login(c) \/ SaveODPList(c) \/ SetGPS(c)
  <2>1. /\ pc[c] \in {"login", "saveOdp", "set"} /\ pc'[c] \in {"set", "reply"}
        /\ UNCHANGED <<device, last>>
    BY <1>0, <1>7 DEF Login, SaveODPList, SetGPS
  <2>2. Backed(track', device'[c], last'[c])
    BY <1>0, <1>2, <2>1 DEF Behind, LastIsBacked
  <2> QED BY <2>1, <2>2 DEF Behind, LastIsBacked, DayIsOne, EarlyIsBefore
<1>8. CASE ParseRecord(c)
  BY <1>8, ParseBehind
<1>9. CASE EndOfRecords(c)
  <2>1. /\ pc[c] = "parse" /\ UNCHANGED <<device, last, toSave, errList, input, track>>
        /\ pc'[c] = IF input[c].cut THEN "set" ELSE "saveErr"
    BY <1>0, <1>9 DEF EndOfRecords
  <2>2. ~input[c].cut
    BY <1>0, <2>1 DEF OneDay, Behind, DayIsOne
  <2>3. pc'[c] = "saveErr"
    BY <2>1, <2>2
  <2> QED BY <1>0, <2>1, <2>3 DEF Behind, LastIsBacked, DayIsOne, EarlyIsBefore
<1>10. CASE SaveErrorList(c)
  <2>1. /\ pc[c] = "saveErr" /\ pc'[c] = "saveTrack"
        /\ UNCHANGED <<device, last, toSave, input, track>>
    BY <1>0, <1>10 DEF SaveErrorList
  <2> QED BY <1>0, <2>1 DEF Behind, LastIsBacked, DayIsOne, EarlyIsBefore
<1>11. CASE SaveToFileList(c)
  <2>1. pc'[c] = "set" /\ UNCHANGED <<device, last>>
    BY <1>0, <1>11 DEF SaveToFileList
  <2>2. Backed(track', device[c], last[c])
    BY <1>1, <1>11, SaveBacks
  <2> QED BY <2>1, <2>2 DEF Behind, LastIsBacked, DayIsOne, EarlyIsBefore
<1>12. CASE Reply(c)
  <2>1. /\ pc[c] = "reply" /\ pc'[c] = "reading" /\ UNCHANGED <<device, last>>
        /\ DOMAIN toSave'[c] = {} /\ errList'[c] = <<>>
    BY <1>0, <1>12 DEF Reply, Empty
  <2>2. Backed(track', device'[c], last'[c])
    BY <1>0, <1>2, <2>1 DEF Behind, LastIsBacked
  <2> QED BY <2>1, <2>2 DEF Behind, LastIsBacked, DayIsOne, EarlyIsBefore
<1>13. CASE ResetRegistry
  BY <1>0, <1>1, <1>13, BehindStays DEF ResetRegistry
<1>14. CASE Restart
  <2>1. CASE pc'[c] = pc[c]
    BY <1>0, <1>1, <1>14, <2>1, BehindStays DEF Restart
  <2>2. CASE pc'[c] \in {"gone", "killed"}
    BY <2>2 DEF Behind, LastIsBacked, DayIsOne, EarlyIsBefore
  <2> QED BY <1>0, <1>14, <2>1, <2>2 DEF Restart
<1>15. CASE UNCHANGED vars
  BY <1>0, <1>1, <1>15, BehindStays DEF vars
<1>16. ~SaveFails(c)
  BY DEF SaveFails
<1>17. HandlerStep(c) => Behind(c)'
  BY <1>5, <1>6, <1>7, <1>8, <1>9, <1>10, <1>11, <1>12, <1>16 DEF HandlerStep
<1> QED BY <1>3, <1>4, <1>13, <1>14, <1>15, <1>17 DEF Next, Exhausted

\* SetGPS writes a time that is backed.
LEMMA RegistryNext ==
  ASSUME EarlyInv, [Next]_vars PROVE RegistryIsBacked'
<1> USE DEF session, scratch, files
<1>0. Grow /\ RegistryIsBacked
  BY TracksGrow DEF EarlyInv
<1>1. CASE registry' \in {registry, Empty}
  BY <1>0, <1>1, RegistryStays
<1>2. ASSUME NEW c \in Conn, SetGPS(c), registry' # registry PROVE RegistryIsBacked'
  <2>1. /\ registry' = Put(registry, name[c], [name |-> name[c], last |-> last[c]])
        /\ pc[c] = "set" /\ track' = track
    BY <1>2 DEF SetGPS, Goes
  <2>2. Backed(track, device[c], last[c])
    BY <2>1 DEF EarlyInv, Behind, LastIsBacked
  <2> SUFFICES ASSUME NEW n \in DOMAIN registry', NEW i \in DOMAIN n
               PROVE  Backed(track, n[i], registry'[n].last)
    BY <2>1 DEF RegistryIsBacked
  <2>3. CASE n = name[c]
    <3>1. n[i] = device[c] /\ registry'[n].last = last[c]
      BY <2>1, <2>3 DEF Put, EarlyInv, Inv, NamesAreOwn
    <3> QED BY <2>2, <3>1
  <2>4. CASE n # name[c]
    <3>1. n \in DOMAIN registry /\ registry'[n] = registry[n]
      BY <2>1, <2>4 DEF Put
    <3> QED BY <1>0, <3>1 DEF RegistryIsBacked
  <2> QED BY <2>3, <2>4
<1>3. ASSUME NEW c \in Conn, HandlerStep(c), ~SetGPS(c) PROVE registry' = registry
  BY <1>3 DEF HandlerStep, Disconnect, Receive, Login, ParseRecord, EndOfRecords,
     SaveErrorList, SaveToFileList, SaveODPList, SaveFails, Reply
<1>4. ASSUME NEW c \in Conn, NEW d \in Device, Connect(c, d) PROVE registry' = registry
  BY <1>4 DEF Connect
<1>5. ResetRegistry \/ Restart \/ UNCHANGED vars => registry' \in {registry, Empty}
  BY DEF ResetRegistry, Restart, vars
<1> QED BY <1>1, <1>2, <1>3, <1>4, <1>5 DEF Next, Exhausted

\* An early record is written down before its packet's track: its handler then
\* is about to back the last time, unless a track does.
LEMMA ErrorsNext ==
  ASSUME OneDay, ~SaveMayFail, EarlyInv, [Next]_vars PROVE ErrorsBehind'
<1> USE DEF Goes, session, scratch, files
<1>0. /\ pc \in [Conn -> Pcs] /\ last \in [Conn -> Time]
      /\ device \in [Conn -> Device \cup {NoDevice}] /\ errList \in [Conn -> Seq(Entry)]
      /\ \A n \in DOMAIN errors : errors[n] \in Seq(Entry)
      /\ ErrorsBehind
  BY DEF EarlyInv, Inv, TypeOK
<1>1. Grow
  BY TracksGrow DEF EarlyInv
<1>2. ASSUME NEW c \in Conn, SaveErrorList(c) PROVE ErrorsBehind'
  <2>1. /\ pc[c] = "saveErr" /\ pc'[c] = "saveTrack" /\ UNCHANGED <<device, last, track>>
        /\ \A k \in Conn : k # c => pc'[k] = pc[k]
    BY <1>0, <1>2 DEF SaveErrorList
  <2> SUFFICES ASSUME NEW n \in DOMAIN errors', NEW i \in DOMAIN errors'[n],
                      errors'[n][i].early
               PROVE  \/ Later(track, errors'[n][i].dev, errors'[n][i].rec.time)
                      \/ \E k \in Conn : /\ pc'[k] = "saveTrack"
                                         /\ device[k] = errors'[n][i].dev
                                         /\ errors'[n][i].rec.time < last[k]
                      \/ \E k \in Conn : pc'[k] = "killed"
    BY <2>1 DEF ErrorsBehind
  <2>2. \/ n \in DOMAIN errors /\ i \in DOMAIN errors[n] /\ errors'[n][i] = errors[n][i]
        \/ \E j \in DOMAIN errList[c] : errors'[n][i] = errList[c][j]
    <3>1. CASE errors' = errors
      BY <3>1
    <3>2. CASE errors' = AppendTo(errors, name[c], errList[c])
      <4> DEFINE s == errList[c]
                 f == AppendTo(errors, name[c], s)
      <4>1. s \in Seq(Entry) /\ f = errors'
        BY <1>0, <3>2
      <4> HIDE DEF s
      <4>2. \A x \in DOMAIN f : \A j \in DOMAIN f[x] :
               \/ x \in DOMAIN errors /\ j \in DOMAIN errors[x] /\ f[x][j] = errors[x][j]
               \/ \E m \in DOMAIN s : f[x][j] = s[m]
        BY <1>0, <4>1, AppendToHolds
      <4> HIDE DEF f
      <4> QED BY <4>1, <4>2 DEF s
    <3> QED BY <1>2, <3>1, <3>2 DEF SaveErrorList
  <2>3. CASE n \in DOMAIN errors /\ i \in DOMAIN errors[n] /\ errors'[n][i] = errors[n][i]
    <3>1. \/ Later(track, errors[n][i].dev, errors[n][i].rec.time)
          \/ \E k \in Conn : /\ pc[k] = "saveTrack" /\ device[k] = errors[n][i].dev
                             /\ errors[n][i].rec.time < last[k]
          \/ \E k \in Conn : pc[k] = "killed"
      BY <1>0, <2>3 DEF ErrorsBehind
    <3> QED BY <2>1, <2>3, <3>1
  <2>4. ASSUME NEW j \in DOMAIN errList[c], errors'[n][i] = errList[c][j]
        PROVE  device[c] = errors'[n][i].dev /\ errors'[n][i].rec.time < last[c]
    BY <2>1, <2>4 DEF EarlyInv, Behind, EarlyIsBefore
  <2> QED BY <2>1, <2>2, <2>3, <2>4
<1>3. ASSUME NEW c \in Conn, SaveToFileList(c) PROVE ErrorsBehind'
  <2>1. /\ pc[c] = "saveTrack" /\ UNCHANGED <<device, last, errors>>
        /\ \A k \in Conn : k # c => pc'[k] = pc[k]
    BY <1>0, <1>3 DEF SaveToFileList
  <2>2. Backed(track', device[c], last[c])
    BY <1>1, <1>3, SaveBacks
  <2> SUFFICES ASSUME NEW n \in DOMAIN errors, NEW i \in DOMAIN errors[n], errors[n][i].early
               PROVE  \/ Later(track', errors[n][i].dev, errors[n][i].rec.time)
                      \/ \E k \in Conn : /\ pc'[k] = "saveTrack"
                                         /\ device[k] = errors[n][i].dev
                                         /\ errors[n][i].rec.time < last[k]
                      \/ \E k \in Conn : pc'[k] = "killed"
    BY <2>1 DEF ErrorsBehind
  <2> DEFINE e == errors[n][i]
  <2>3. \/ Later(track, e.dev, e.rec.time)
        \/ \E k \in Conn : pc[k] = "saveTrack" /\ device[k] = e.dev /\ e.rec.time < last[k]
        \/ \E k \in Conn : pc[k] = "killed"
    BY <1>0 DEF ErrorsBehind
  <2>4. Later(track, e.dev, e.rec.time) => Later(track', e.dev, e.rec.time)
    BY <1>1, GrowBacks
  <2>5. ASSUME device[c] = e.dev, e.rec.time < last[c] PROVE Later(track', e.dev, e.rec.time)
    <3>1. e \in Entry
      BY <1>0
    <3>2. e.rec.time \in Nat /\ last[c] \in Nat
      BY <1>0, <3>1 DEF Entry, Record, Time
    <3>3. e.rec.time \in 0 .. last[c] - 1
      BY <2>5, <3>2
    <3> QED BY <2>2, <2>5, <3>3 DEF Backed
  <2> HIDE DEF e
  <2>6. \/ Later(track', e.dev, e.rec.time)
        \/ \E k \in Conn : pc'[k] = "saveTrack" /\ device[k] = e.dev /\ e.rec.time < last[k]
        \/ \E k \in Conn : pc'[k] = "killed"
    BY <2>1, <2>3, <2>4, <2>5
  <2> QED BY <2>6 DEF e
\* nobody else saves, or was about to
<1>4. ASSUME NEW c \in Conn, HandlerStep(c), ~SaveErrorList(c), ~SaveToFileList(c)
      PROVE  ErrorsBehind'
  <2>1. /\ errors' = errors /\ pc[c] \notin {"saveTrack", "killed"}
        /\ \A k \in Conn : k # c =>
              pc'[k] = pc[k] /\ device'[k] = device[k] /\ last'[k] = last[k]
    BY <1>0, <1>4 DEF HandlerStep, Disconnect, Receive, Login, ParseRecord, EndOfRecords,
       SaveODPList, SaveFails, SetGPS, Reply
  <2> QED BY <1>0, <1>1, <2>1, ErrorsStay
<1>5. ASSUME NEW c \in Conn, NEW d \in Device, Connect(c, d) PROVE ErrorsBehind'
  <2>1. /\ errors' = errors /\ pc[c] = "unused" /\ last' = last
        /\ \A k \in Conn : k # c => pc'[k] = pc[k] /\ device'[k] = device[k]
    BY <1>0, <1>5 DEF Connect
  <2> QED BY <1>0, <1>1, <2>1, ErrorsStay
<1>6. CASE ResetRegistry
  BY <1>0, <1>1, <1>6, ErrorsStay DEF ResetRegistry
<1>7. CASE Restart
  <2>1. \A k \in Conn : /\ pc[k] = "killed" => pc'[k] = "killed"
                        /\ pc[k] = "saveTrack" => pc'[k] = "killed"
    BY <1>7 DEF Restart, Live
  <2> QED BY <1>0, <1>1, <1>7, <2>1, ErrorsStay DEF Restart
<1>8. CASE UNCHANGED vars
  BY <1>0, <1>1, <1>8, ErrorsStay DEF vars
<1> QED BY <1>2, <1>3, <1>4, <1>5, <1>6, <1>7, <1>8 DEF Next, Exhausted

\* While no write fails, every packet of records is parsed to its end and one day
\* is kept of it, a record refused as early has a later one of its tracker in a
\* track: through connections that overlap, a registry emptied under live
\* handlers and restarts, unless one kills a handler at its packet.
THEOREM RefusedHasLater ==
  ASSUME OneDay, ~SaveMayFail PROVE Spec => []EarlyHasLater
<1>1. Init => EarlyInv
  <2>1. Init => RegistryIsBacked /\ ErrorsBehind
    BY DEF Init, RegistryIsBacked, ErrorsBehind, Empty
  <2>2. ASSUME Init, NEW c \in Conn PROVE Behind(c)
    BY <2>2 DEF Init, Empty, Behind, LastIsBacked, DayIsOne, EarlyIsBefore
  <2> QED BY <2>1, <2>2, InitInv DEF EarlyInv
<1>2. EarlyInv /\ [Next]_vars => EarlyInv'
  BY NextInv, HandlersBehind, RegistryNext, ErrorsNext DEF EarlyInv
<1>3. EarlyInv => EarlyHasLater
  BY DEF EarlyInv, ErrorsBehind, EarlyHasLater, Later
<1> QED BY <1>1, <1>2, <1>3, PTL DEF Spec
=============================================================================
