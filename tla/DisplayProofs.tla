--------------------------- MODULE DisplayProofs ---------------------------
(***************************************************************************)
(* What the operator's lists and tree owe to what was broadcast, for any   *)
(* sources, ships and timeouts: the list of targets, the marks of masters, *)
(* what can be clicked, and the rows of the simple protocol.               *)
(***************************************************************************)
EXTENDS Display, FiniteSetTheorems, SequenceTheorems, TLAPS

\* One second more, if the timer has yet to run in this one.
Late == IF due THEN 1 ELSE 0

LEMMA OlderAge ==
    /\ \A n \in 0..MaxAge : Older(n) \in 0..MaxAge /\ n <= Older(n) /\ Older(n) <= n + 1
    /\ \A n \in 0..MaxAge : n < MaxAge => Older(n) = n + 1
    /\ \A n, m \in 0..MaxAge : n <= m => Older(n) <= Older(m)
  BY DisplayAssumption DEF Older

-----------------------------------------------------------------------------
(* The list of targets *)

AISTypes ==
    /\ due \in BOOLEAN /\ watched \in 0..MaxAge
    /\ ships \subseteq traffic.ships /\ listed \subseteq traffic.ships
    /\ DOMAIN targets \subseteq traffic.ships /\ targets \in [DOMAIN targets -> 0..MaxAge]
    /\ heard \in [traffic.ships -> 0..MaxAge] /\ gone \in [traffic.ships -> 0..MaxAge]

\* A target of the window is as old as its last record at most, and as the daemon's loss of
\* the ship at least; the watchdog bounds it, and the list is one second behind.
AISInv ==
    /\ traffic.port # "AISTargetPort" => DOMAIN targets = {}
    /\ watched <= WatchPeriod
    /\ \A s \in ships : gone[s] = 0
    /\ \A s \in DOMAIN targets :
         /\ gone[s] <= targets[s] /\ targets[s] <= heard[s]
         /\ targets[s] <= ListTimeout + watched
    /\ \A s \in listed : gone[s] <= ListTimeout + WatchPeriod + Late
    /\ \A s \in traffic.ships : heard[s] <= ListTimeout => s \in DOMAIN targets

LEMMA AISReceived ==
    ASSUME AISTypes, AISInv, NEW got \in SUBSET ships, AISTargets(got)
    PROVE  AISTypes' /\ AISInv'
<1>1. /\ targets' = [s \in DOMAIN targets \union got |-> IF s \in got THEN 0 ELSE targets[s]]
      /\ heard' = [s \in traffic.ships |-> IF s \in got THEN 0 ELSE heard[s]]
      /\ traffic.port = "AISTargetPort"
      /\ UNCHANGED <<traffic, ships, listed, watched, gone, due>>
  BY DEF AISTargets, UpdateDynamic, UpdateStatic, Stamped, AISTypes
<1>2. 0 \in 0..MaxAge /\ MaxAge \in Nat /\ ListTimeout \in Nat /\ WatchPeriod \in Nat
  BY DisplayAssumption
<1>3. AISTypes'
  BY <1>1, <1>2 DEF AISTypes
<1>4. \A s \in DOMAIN targets' : /\ gone'[s] <= targets'[s] /\ targets'[s] <= heard'[s]
                                 /\ targets'[s] <= ListTimeout + watched'
  BY <1>1, <1>2 DEF AISTypes, AISInv
<1>5. \A s \in traffic'.ships : heard'[s] <= ListTimeout => s \in DOMAIN targets'
  BY <1>1 DEF AISInv
<1> QED
  BY <1>1, <1>3, <1>4, <1>5 DEF AISInv, Late

LEMMA AISTick ==
    ASSUME AISTypes, AISInv, Tick
    PROVE  AISTypes' /\ AISInv'
<1>1. /\ targets' = [s \in DOMAIN targets |-> Older(targets[s])]
      /\ heard' = [s \in traffic.ships |-> Older(heard[s])]
      /\ gone' = [s \in traffic.ships |-> IF s \in ships THEN 0 ELSE Older(gone[s])]
      /\ ~due /\ due' = TRUE /\ watched < WatchPeriod
      /\ watched' = IF traffic.port = "AISTargetPort" THEN Older(watched) ELSE watched
      /\ UNCHANGED <<traffic, ships, listed>>
  BY DEF Tick, For, AISTypes
<1>2. 0 \in 0..MaxAge /\ MaxAge \in Nat /\ ListTimeout \in Nat /\ WatchPeriod \in Nat
      /\ MaxAge > ListTimeout + WatchPeriod + 1
  BY DisplayAssumption
<1>3. AISTypes'
  BY <1>1, <1>2, OlderAge DEF AISTypes
<1>4. watched' <= WatchPeriod
  BY <1>1, <1>2, OlderAge DEF AISTypes
<1>5. ASSUME NEW s \in DOMAIN targets
      PROVE  /\ gone'[s] <= targets'[s] /\ targets'[s] <= heard'[s]
             /\ targets'[s] <= ListTimeout + watched'
  <2>1. /\ targets[s] \in 0..MaxAge /\ heard[s] \in 0..MaxAge /\ gone[s] \in 0..MaxAge
        /\ watched \in 0..MaxAge /\ s \in traffic.ships
    BY DEF AISTypes
  <2>2. /\ gone[s] <= targets[s] /\ targets[s] <= heard[s] /\ targets[s] <= ListTimeout + watched
        /\ traffic.port = "AISTargetPort"
    BY DEF AISInv
  <2>3. watched' = watched + 1
    BY <1>1, <1>2, <2>1, <2>2, OlderAge
  <2> QED
    BY <1>1, <1>2, <2>1, <2>2, <2>3, OlderAge
<1>6. ASSUME NEW s \in listed
      PROVE  gone'[s] <= ListTimeout + WatchPeriod + 1
  <2>1. gone[s] \in 0..MaxAge /\ s \in traffic.ships /\ gone[s] <= ListTimeout + WatchPeriod
    BY <1>1, <1>2 DEF AISTypes, AISInv, Late
  <2> QED
    BY <1>1, <1>2, <2>1, OlderAge
<1>7. ASSUME NEW s \in traffic.ships, heard'[s] <= ListTimeout
      PROVE  s \in DOMAIN targets'
  <2>1. heard[s] \in 0..MaxAge /\ heard'[s] = Older(heard[s])
    BY <1>1 DEF AISTypes
  <2>2. heard[s] <= ListTimeout
    BY <1>2, <1>7, <2>1, OlderAge
  <2> QED
    BY <1>1, <2>2 DEF AISInv
<1>8. \A s \in ships' : gone'[s] = 0
  BY <1>1 DEF AISTypes
<1>9. DOMAIN targets' = DOMAIN targets /\ Late' = 1
  BY <1>1 DEF Late
<1> QED
  BY <1>1, <1>3, <1>4, <1>5, <1>6, <1>7, <1>8, <1>9 DEF AISInv

LEMMA AISOther ==
    ASSUME AISTypes, AISInv,
           \/ \E now \in SUBSET traffic.ships : TableChanges(now)
           \/ Restart \/ StateUpdate \/ RemoveDeads
    PROVE  AISTypes' /\ AISInv'
<1>1. 0 \in 0..MaxAge /\ MaxAge \in Nat /\ ListTimeout \in Nat /\ WatchPeriod \in Nat
  BY DisplayAssumption
<1>2. ASSUME NEW now \in SUBSET traffic.ships, TableChanges(now)
      PROVE  AISTypes' /\ AISInv'
  <2>1. /\ ships' = now
        /\ gone' = [s \in traffic.ships |-> IF s \in now \union ships THEN 0 ELSE gone[s]]
        /\ UNCHANGED <<traffic, targets, listed, watched, heard, due>>
    BY <1>2 DEF TableChanges, aisVars, AISTypes
  <2>2. AISTypes'
    BY <1>1, <2>1 DEF AISTypes
  <2>3. \A s \in traffic.ships : gone'[s] <= gone[s] /\ (s \in now => gone'[s] = 0)
    BY <2>1 DEF AISTypes
  <2>4. \A s \in DOMAIN targets : gone'[s] <= targets[s]
    BY <2>2, <2>1, <2>3 DEF AISTypes, AISInv
  <2>5. \A s \in listed : gone'[s] <= ListTimeout + WatchPeriod + Late
    BY <1>1, <2>1, <2>2, <2>3 DEF AISTypes, AISInv, Late
  <2> QED
    BY <1>2, <2>1, <2>2, <2>3, <2>4, <2>5 DEF AISInv, Late
<1>3. CASE Restart
  BY <1>3 DEF Restart, aisVars, AISTypes, AISInv, Late
<1>4. CASE StateUpdate
  <2>1. /\ listed' = DOMAIN targets /\ due' = FALSE
        /\ UNCHANGED <<traffic, ships, targets, watched, heard, gone>>
    BY <1>4 DEF StateUpdate
  <2>2. AISTypes'
    BY <2>1 DEF AISTypes
  <2>3. \A s \in DOMAIN targets : gone[s] <= ListTimeout + WatchPeriod
    BY <1>1 DEF AISTypes, AISInv
  <2> QED
    BY <1>1, <2>1, <2>2, <2>3 DEF AISInv, AISTypes, Late
<1>5. CASE RemoveDeads
  <2>1. /\ targets' = [s \in {s \in DOMAIN targets : targets[s] <= ListTimeout} |-> targets[s]]
        /\ watched' = 0
        /\ UNCHANGED <<traffic, ships, listed, heard, gone, due>>
    BY <1>5 DEF RemoveDeads
  <2>2. AISTypes'
    BY <1>1, <2>1 DEF AISTypes
  <2>3. \A s \in traffic.ships : heard[s] <= ListTimeout => s \in DOMAIN targets'
    BY <1>1, <2>1 DEF AISTypes, AISInv
  <2> QED
    BY <1>1, <2>1, <2>2, <2>3 DEF AISInv, Late
<1> QED
  BY <1>2, <1>3, <1>4, <1>5

\* What the other port's datagrams leave alone.
LEMMA AISUntouched ==
    AISTypes /\ AISInv /\ UNCHANGED <<traffic, ships, aisVars, gone, due>> => AISTypes' /\ AISInv'
  BY DEF aisVars, AISTypes, AISInv, Late

\* The list of targets: no ship stays longer than the timeout, a pass of the watchdog and a
\* second after the daemon's table has lost it, and none that was heard of is missing,
\* whatever datagrams are lost and however often the daemon restarts.
THEOREM ListOfTargets == Spec => []ListFollowsTable
<1>1. Init => AISTypes /\ AISInv
  <2> SUFFICES ASSUME Init PROVE AISTypes /\ AISInv
    OBVIOUS
  <2>1. MaxAge \in Nat /\ ListTimeout \in Nat /\ WatchPeriod \in Nat /\ MaxAge > ListTimeout
    BY DisplayAssumption
  <2>2. /\ ships = {} /\ listed = {} /\ DOMAIN targets = {} /\ watched = 0 /\ due = FALSE
        /\ heard = [s \in traffic.ships |-> MaxAge] /\ gone = [s \in traffic.ships |-> MaxAge]
        /\ targets \in [{} -> 0..MaxAge]
    BY DEF Init
  <2>3. AISTypes
    <3>1. 0 \in 0..MaxAge /\ MaxAge \in 0..MaxAge
      BY <2>1
    <3>2. targets \in [DOMAIN targets -> 0..MaxAge]
      BY <2>2
    <3>3. heard \in [traffic.ships -> 0..MaxAge] /\ gone \in [traffic.ships -> 0..MaxAge]
      BY <2>2, <3>1
    <3> QED
      BY <2>2, <3>1, <3>2, <3>3, Zenon DEF AISTypes
  <2>4. AISInv
    BY <2>1, <2>2 DEF AISInv
  <2> QED
    BY <2>3, <2>4
<1>2. AISTypes /\ AISInv /\ [Next]_vars => (AISTypes /\ AISInv)'
  <2> SUFFICES ASSUME AISTypes, AISInv, [Next]_vars
               PROVE  (AISTypes /\ AISInv)'
    OBVIOUS
  <2>1. ASSUME NEW good \in SUBSET traffic.slots,
               (\E masters \in MastersOf(good) : ProcessedData(good, masters)) \/ SimpleProto(good)
        PROVE  (AISTypes /\ AISInv)'
    BY <2>1, AISUntouched DEF ProcessedData, SimpleProto
  <2>2. ASSUME NEW got \in SUBSET ships, AISTargets(got)
        PROVE  (AISTypes /\ AISInv)'
    BY <2>2, AISReceived
  <2>3. CASE Tick
    BY <2>3, AISTick
  <2>4. CASE UNCHANGED vars
    BY <2>4, AISUntouched DEF vars
  <2> QED
    BY <2>1, <2>2, <2>3, <2>4, AISOther DEF Next
<1>3. AISTypes /\ AISInv => ListFollowsTable
  <2> SUFFICES ASSUME AISTypes, AISInv
               PROVE  ListFollowsTable
    OBVIOUS
  <2>1. \A s \in listed : gone[s] <= ListTimeout + WatchPeriod + 1
    <3> SUFFICES ASSUME NEW s \in listed
                 PROVE  gone[s] <= ListTimeout + WatchPeriod + 1
      OBVIOUS
    <3>1. gone[s] \in 0..MaxAge /\ MaxAge \in Nat /\ ListTimeout \in Nat /\ WatchPeriod \in Nat
      BY DisplayAssumption DEF AISTypes
    <3>2. Late \in {0, 1} /\ gone[s] <= ListTimeout + WatchPeriod + Late
      BY DEF AISInv, Late
    <3> QED
      BY <3>1, <3>2
  <2>2. DOMAIN heard = traffic.ships
    BY DEF AISTypes
  <2> QED
    BY <2>1, <2>2 DEF ListFollowsTable, AISInv
<1> QED
  BY <1>1, <1>2, <1>3, PTL DEF Spec

-----------------------------------------------------------------------------
(* The tree *)

Row == [master : BOOLEAN, age : 0..MaxAge, drawn : BOOLEAN]

TreeTypes ==
    /\ traffic \in Traffics
    /\ sent \in BOOLEAN /\ due \in BOOLEAN
    /\ uptime \in 0..MaxAge /\ checked \in 0..MaxAge
    /\ DOMAIN tree \subseteq traffic.slots /\ tree \in [DOMAIN tree -> Row]

\* Until the first pass of the timer nothing is drawn; from then on no row is older than the
\* timeout and the time since the dead ones were eliminated.
Passed ==
    \/ /\ checked = MaxAge
       /\ \A slot \in DOMAIN tree : ~tree[slot].drawn /\ tree[slot].age <= Late
    \/ /\ checked <= Period + Late
       /\ \A slot \in DOMAIN tree : tree[slot].age <= Timeout + checked

\* Rows the running daemon has not broadcast are as old as it is at least; rows that are not
\* a second old came with the one broadcast of this second.
TreeInv ==
    /\ traffic.port # "ProcessedDataPort" => DOMAIN tree = {}
    /\ Passed
    /\ ~sent => \A slot \in DOMAIN tree : tree[slot].age >= 1
    /\ \A slot \in DOMAIN tree \ known : tree[slot].age >= uptime
    /\ MarksDiffer

LEMMA TimesAreNat ==
    /\ MaxAge \in Nat /\ Timeout \in Nat /\ Period \in Nat /\ MaxAge > Timeout + Period + 1
    /\ 0 \in 0..MaxAge /\ MaxAge \in 0..MaxAge
  BY DisplayAssumption

LEMMA RowExcept ==
    ASSUME NEW r \in Row, NEW b \in BOOLEAN
    PROVE  /\ [r EXCEPT !.master = b] = [master |-> b, age |-> r.age, drawn |-> r.drawn]
           /\ [r EXCEPT !.drawn = b] = [master |-> r.master, age |-> r.age, drawn |-> b]
<1>1. PICK m \in BOOLEAN, a \in 0..MaxAge, d \in BOOLEAN : r = [master |-> m, age |-> a, drawn |-> d]
  BY DEF Row
<1> QED
  BY <1>1

LEMMA RowAged ==
    ASSUME NEW r \in Row, NEW n \in 0..MaxAge
    PROVE  [r EXCEPT !.age = n] = [master |-> r.master, age |-> n, drawn |-> r.drawn]
<1>1. PICK m \in BOOLEAN, a \in 0..MaxAge, d \in BOOLEAN : r = [master |-> m, age |-> a, drawn |-> d]
  BY DEF Row
<1> QED
  BY <1>1

\* The row with these fields.
LEMMA RowFields ==
    ASSUME NEW m \in BOOLEAN, NEW a \in 0..MaxAge, NEW d \in BOOLEAN, NEW r,
           r = [master |-> m, age |-> a, drawn |-> d]
    PROVE  r \in Row /\ r.master = m /\ r.age = a /\ r.drawn = d
  BY DEF Row

\* Of the masters of a broadcast two of one type are one.
LEMMA OneMaster ==
    ASSUME TreeTypes, NEW good \in SUBSET traffic.slots, NEW masters \in MastersOf(good),
           NEW a \in good, NEW b \in good, a \in masters, b \in masters,
           TypeOf(a) = TypeOf(b), TypeOf(a) \notin AlwaysSelected
    PROVE  a = b
<1> DEFINE S == {m \in masters : TypeOf(m) = TypeOf(a)}
<1>1. IsFiniteSet(good) /\ masters \subseteq good
  BY DisplayAssumption, FS_Subset DEF TreeTypes, MastersOf
<1>2. IsFiniteSet(S) /\ {a, b} \subseteq S
  BY <1>1, FS_Subset
<1>3. Cardinality(S) <= 1
  BY DEF MastersOf
<1>4. Cardinality(S) \in Nat /\ (Cardinality(S) = 0 <=> S = {})
  BY <1>2, FS_CardinalityType, FS_EmptySet
<1>5. Cardinality(S) = 1
  BY <1>2, <1>3, <1>4
<1>6. \E x : S = {x}
  BY <1>2, <1>5, FS_Singleton
<1> QED
  BY <1>2, <1>6

LEMMA TreeReceived ==
    ASSUME TreeTypes, TreeInv, NEW good \in SUBSET traffic.slots, NEW masters \in MastersOf(good),
           ProcessedData(good, masters)
    PROVE  TreeTypes' /\ TreeInv'
<1>1. /\ traffic.port = "ProcessedDataPort" /\ ~sent /\ sent' = TRUE /\ known' = known \union good
      /\ UNCHANGED <<traffic, uptime, checked, due>>
  BY DEF ProcessedData
<1>2. CASE UNCHANGED tree
  <2>1. TreeTypes' /\ MarksDiffer' /\ Passed'
    BY <1>1, <1>2 DEF TreeTypes, TreeInv, MarksDiffer, Passed, Late
  <2> QED
    BY <1>1, <1>2, <2>1 DEF TreeInv
<1>3. CASE UpdateData(good, masters)
  <2> DEFINE new(slot) == [master |-> slot \in masters, age |-> 0,
                           drawn |-> slot \in DOMAIN tree /\ tree[slot].drawn]
  <2>1. tree' = [slot \in DOMAIN tree \union good |-> IF slot \in good THEN new(slot) ELSE tree[slot]]
    BY <1>3 DEF UpdateData
  <2>2. \A slot \in good : new(slot) \in Row
    BY TimesAreNat DEF Row
  <2>3. TreeTypes'
    BY <1>1, <2>1, <2>2 DEF TreeTypes
  <2>4. \A slot \in good : /\ slot \in DOMAIN tree' /\ tree'[slot].age = 0
                           /\ (tree'[slot].master <=> slot \in masters)
                           /\ (tree'[slot].drawn => slot \in DOMAIN tree /\ tree[slot].drawn)
    BY <2>1
  <2>5. \A slot \in DOMAIN tree' \ good : slot \in DOMAIN tree /\ tree'[slot] = tree[slot]
    BY <2>1
  <2> HIDE DEF new
  <2>6. \A slot \in DOMAIN tree' : tree'[slot] \in Row
    BY <2>3 DEF TreeTypes
  <2>7. Passed'
    <3>1. CASE checked = MaxAge /\ \A slot \in DOMAIN tree : ~tree[slot].drawn /\ tree[slot].age <= Late
      <4>1. \A slot \in DOMAIN tree' : ~tree'[slot].drawn /\ tree'[slot].age <= Late
        BY <2>4, <2>5, <3>1 DEF Late
      <4> QED
        BY <1>1, <3>1, <4>1 DEF Passed, Late
    <3>2. CASE checked <= Period + Late /\ \A slot \in DOMAIN tree : tree[slot].age <= Timeout + checked
      <4>1. \A slot \in DOMAIN tree' : tree'[slot].age <= Timeout + checked
        BY <2>4, <2>5, <3>2, TimesAreNat DEF TreeTypes
      <4> QED
        BY <1>1, <3>2, <4>1 DEF Passed, Late
    <3> QED
      BY <3>1, <3>2 DEF TreeInv, Passed
  <2>8. \A slot \in DOMAIN tree' \ known' : tree'[slot].age >= uptime
    BY <1>1, <2>5 DEF TreeInv
  <2>9. MarksDiffer'
    <3> SUFFICES ASSUME NEW a \in DOMAIN tree', NEW b \in DOMAIN tree', a # b, TypeOf(a) = TypeOf(b),
                        TypeOf(a) \notin AlwaysSelected, tree'[a].master, tree'[b].master
                 PROVE  tree'[a].age # tree'[b].age
      BY DEF MarksDiffer, TypeOf
    <3>1. CASE a \in good /\ b \in good
      BY <2>4, <3>1, OneMaster
    <3>2. CASE a \notin good /\ b \notin good
      BY <2>5, <3>2 DEF TreeInv, MarksDiffer
    <3>3. CASE a \in good /\ b \notin good
      BY <1>1, <2>4, <2>5, <3>3 DEF TreeInv
    <3>4. CASE a \notin good /\ b \in good
      BY <1>1, <2>4, <2>5, <3>4 DEF TreeInv
    <3> QED
      BY <3>1, <3>2, <3>3, <3>4
  <2> QED
    BY <1>1, <2>3, <2>7, <2>8, <2>9 DEF TreeInv
<1> QED
  BY <1>2, <1>3 DEF ProcessedData

LEMMA TreeTick ==
    ASSUME TreeTypes, TreeInv, Tick
    PROVE  TreeTypes' /\ TreeInv'
<1>1. /\ tree' = [slot \in DOMAIN tree |-> [tree[slot] EXCEPT !.age = Older(tree[slot].age)]]
      /\ ~due /\ due' = TRUE /\ sent' = FALSE
      /\ uptime' = (IF traffic.port = "ProcessedDataPort" THEN Older(uptime) ELSE uptime)
      /\ checked' = (IF traffic.port = "ProcessedDataPort" THEN Older(checked) ELSE checked)
      /\ UNCHANGED <<traffic, known>>
  BY DEF Tick, For
<1>2. /\ DOMAIN tree' = DOMAIN tree
      /\ \A slot \in DOMAIN tree :
           /\ tree[slot] \in Row /\ tree[slot].age \in 0..MaxAge
           /\ tree'[slot] = [master |-> tree[slot].master, age |-> Older(tree[slot].age),
                             drawn |-> tree[slot].drawn]
  BY <1>1, RowAged, OlderAge DEF TreeTypes, Row
<1>3. TreeTypes'
  <2>1. \A slot \in DOMAIN tree' : tree'[slot] \in Row
    BY <1>2, OlderAge DEF Row
  <2>2. tree' \in [DOMAIN tree' -> Row]
    BY <1>1, <2>1
  <2> QED
    BY <1>1, <1>2, <2>2, OlderAge DEF TreeTypes
<1>4. CASE traffic.port # "ProcessedDataPort"
  <2>1. DOMAIN tree = {} /\ Passed /\ checked' = checked /\ Late = 0 /\ Late' = 1
    BY <1>1, <1>4 DEF TreeInv, Late
  <2>2. Passed'
    BY <1>2, <2>1, TimesAreNat DEF Passed, TreeTypes
  <2> QED
    BY <1>1, <1>2, <1>3, <1>4, <2>1, <2>2 DEF TreeInv, MarksDiffer
<1>5. CASE traffic.port = "ProcessedDataPort"
  <2>1. Late = 0 /\ Late' = 1 /\ uptime' = Older(uptime) /\ checked' = Older(checked)
    BY <1>1, <1>5 DEF Late
  <2>2. \A slot \in DOMAIN tree : tree[slot].age + 1 <= MaxAge
    <3>1. Passed
      BY DEF TreeInv
    <3> QED
      BY <1>2, <2>1, <3>1, TimesAreNat DEF Passed, TreeTypes
  <2>3. \A slot \in DOMAIN tree : tree'[slot].age = tree[slot].age + 1
    BY <1>2, <2>2, TimesAreNat DEF Older
  <2>4. Passed'
    <3>1. CASE checked = MaxAge /\ \A slot \in DOMAIN tree : ~tree[slot].drawn /\ tree[slot].age <= 0
      BY <1>2, <2>1, <2>3, <3>1, TimesAreNat DEF Passed, Older
    <3>2. CASE checked <= Period /\ \A slot \in DOMAIN tree : tree[slot].age <= Timeout + checked
      <4>1. checked' = checked + 1
        BY <2>1, <3>2, TimesAreNat DEF Older, TreeTypes
      <4> QED
        BY <1>2, <2>1, <2>3, <3>2, <4>1, TimesAreNat DEF Passed, TreeTypes
    <3> QED
      BY <2>1, <3>1, <3>2, TimesAreNat DEF TreeInv, Passed
  <2>5. \A slot \in DOMAIN tree' : tree'[slot].age >= 1
    BY <1>2, <2>3
  <2>6. \A slot \in DOMAIN tree' \ known' : tree'[slot].age >= uptime'
    <3> SUFFICES ASSUME NEW slot \in DOMAIN tree \ known
                 PROVE  tree'[slot].age >= uptime'
      BY <1>1, <1>2
    <3>1. uptime \in 0..MaxAge /\ uptime <= tree[slot].age /\ tree[slot].age \in 0..MaxAge
      BY <1>2 DEF TreeTypes, TreeInv
    <3> QED
      BY <2>1, <2>3, <3>1, OlderAge, TimesAreNat
  <2>7. MarksDiffer'
    <3> SUFFICES ASSUME NEW a \in DOMAIN tree, NEW b \in DOMAIN tree, a # b, TypeOf(a) = TypeOf(b),
                        TypeOf(a) \notin AlwaysSelected, tree'[a].master, tree'[b].master
                 PROVE  tree'[a].age # tree'[b].age
      BY <1>2 DEF MarksDiffer, TypeOf
    <3>1. tree[a].age # tree[b].age
      BY <1>2 DEF TreeInv, MarksDiffer
    <3> QED
      BY <1>2, <2>3, <3>1
  <2> QED
    BY <1>1, <1>3, <1>5, <2>4, <2>5, <2>6, <2>7 DEF TreeInv
<1> QED
  BY <1>4, <1>5

\* What a pass of the timer leaves of the tree: the rows it keeps have their age, are drawn, and
\* are marked as before or as the first of a type without a mark.
LEMMA Updated ==
    ASSUME TreeTypes, UpdateTree
    PROVE  /\ tree' \in [DOMAIN tree' -> Row]
           /\ DOMAIN tree' \subseteq DOMAIN tree
           /\ \A slot \in DOMAIN tree' : tree'[slot].age = tree[slot].age
           /\ \/ /\ checked > Period /\ checked' = 0 /\ DOMAIN tree' = Alive
                 /\ \A slot \in Alive : tree'[slot].master <=> tree[slot].master \/ AppointedFirst(slot)
              \/ /\ checked <= Period /\ checked' = checked
                 /\ \A slot \in DOMAIN tree' : tree'[slot].master = tree[slot].master
<1>1. \A slot \in DOMAIN tree : tree[slot] \in Row
  BY DEF TreeTypes
<1>2. CASE checked > Period
  <2> DEFINE marked(slot) == tree[slot].master \/ AppointedFirst(slot)
             row(slot) == [master |-> marked(slot), age |-> tree[slot].age, drawn |-> TRUE]
  <2>1. ASSUME NEW slot \in Alive
        PROVE  /\ Drawn(EliminateDeads)[slot] = row(slot) /\ row(slot) \in Row
    <3>1. tree[slot] \in Row /\ tree[slot].age \in 0..MaxAge /\ tree[slot].drawn \in BOOLEAN
      BY <1>1 DEF Alive, Row
    <3>2. marked(slot) \in BOOLEAN
      BY DEF AppointedFirst
    <3>3. EliminateDeads[slot] = [tree[slot] EXCEPT !.master = marked(slot)]
      BY DEF EliminateDeads
    <3> DEFINE m == marked(slot)
    <3> HIDE DEF m, marked
    <3>4. EliminateDeads[slot] = [master |-> m, age |-> tree[slot].age, drawn |-> tree[slot].drawn]
      BY <3>1, <3>2, <3>3, RowExcept DEF m
    <3>5. EliminateDeads[slot] \in Row
      BY <3>1, <3>2, <3>4 DEF Row, m
    <3>6. Drawn(EliminateDeads)[slot] = [EliminateDeads[slot] EXCEPT !.drawn = TRUE]
      BY DEF Drawn, EliminateDeads
    <3>7. Drawn(EliminateDeads)[slot] = [master |-> EliminateDeads[slot].master,
                                         age |-> EliminateDeads[slot].age, drawn |-> TRUE]
      BY <3>5, <3>6, RowExcept
    <3>8. Drawn(EliminateDeads)[slot] = [master |-> m, age |-> tree[slot].age, drawn |-> TRUE]
      BY <3>4, <3>7
    <3>9. [master |-> m, age |-> tree[slot].age, drawn |-> TRUE] \in Row
      BY <3>1, <3>2 DEF Row, m
    <3> QED
      BY <3>8, <3>9 DEF m
  <2>2. tree' = Drawn(EliminateDeads) /\ checked' = 0
    BY <1>2 DEF UpdateTree
  <2>3. DOMAIN tree' = Alive /\ tree' = [slot \in Alive |-> tree'[slot]]
    BY <2>2 DEF Drawn, EliminateDeads
  <2> HIDE DEF marked
  <2>4. \A slot \in Alive : tree'[slot] = row(slot) /\ tree'[slot] \in Row
    BY <2>1, <2>2
  <2>5. tree' \in [DOMAIN tree' -> Row]
    <3>1. \A slot \in Alive : tree'[slot] \in Row
      BY <2>4
    <3> HIDE DEF row
    <3> QED
      BY <2>3, <3>1
  <2>6. ASSUME NEW slot \in Alive
        PROVE  tree'[slot].age = tree[slot].age /\ tree'[slot].master = marked(slot)
    <3>1. tree[slot].age \in 0..MaxAge /\ marked(slot) \in BOOLEAN
      BY <1>1 DEF Alive, Row, marked, AppointedFirst
    <3>2. tree'[slot] = [master |-> marked(slot), age |-> tree[slot].age, drawn |-> TRUE]
      BY <2>4
    <3> QED
      BY <3>1, <3>2, RowFields
  <2>7. \A slot \in Alive : tree'[slot].master <=> tree[slot].master \/ AppointedFirst(slot)
    BY <2>6 DEF marked
  <2> QED
    BY <1>2, <2>2, <2>3, <2>5, <2>6, <2>7 DEF Alive
<1>3. CASE ~(checked > Period)
  <2>1. tree' = Drawn(tree) /\ checked' = checked
    BY <1>3 DEF UpdateTree
  <2>2. /\ tree' = [slot \in DOMAIN tree |-> tree'[slot]]
        /\ \A slot \in DOMAIN tree : tree'[slot] = [tree[slot] EXCEPT !.drawn = TRUE]
    BY <2>1 DEF Drawn
  <2>3. \A slot \in DOMAIN tree : tree'[slot] = [master |-> tree[slot].master, age |-> tree[slot].age,
                                               drawn |-> TRUE]
    BY <1>1, <2>2, RowExcept
  <2>4. ASSUME NEW slot \in DOMAIN tree
        PROVE  /\ tree'[slot] \in Row
               /\ tree'[slot].age = tree[slot].age /\ tree'[slot].master = tree[slot].master
    <3>1. tree[slot].age \in 0..MaxAge /\ tree[slot].master \in BOOLEAN
      BY <1>1 DEF Row
    <3>2. tree'[slot] = [master |-> tree[slot].master, age |-> tree[slot].age, drawn |-> TRUE]
      BY <2>3
    <3>3. tree'[slot] \in Row
      BY <3>1, <3>2 DEF Row
    <3>4. tree'[slot].age = tree[slot].age
      BY <3>2
    <3>5. tree'[slot].master = tree[slot].master
      BY <3>2
    <3> QED
      BY <3>3, <3>4, <3>5
  <2>5. checked <= Period
    BY <1>3, TimesAreNat DEF TreeTypes
  <2>6. DOMAIN tree' = DOMAIN tree
    BY <2>2
  <2>7. tree' \in [DOMAIN tree' -> Row]
    BY <2>2, <2>4, <2>6
  <2> QED
    BY <2>1, <2>4, <2>5, <2>6, <2>7
<1> QED
  BY <1>2, <1>3

LEMMA TreeDrawn ==
    ASSUME TreeTypes, TreeInv, StateUpdate
    PROVE  TreeTypes' /\ TreeInv'
<1>1. due /\ due' = FALSE /\ UpdateTree /\ UNCHANGED <<traffic, sent, known, uptime>>
  BY DEF StateUpdate
<1>2. /\ tree' \in [DOMAIN tree' -> Row]
      /\ DOMAIN tree' \subseteq DOMAIN tree
      /\ \A slot \in DOMAIN tree' : tree'[slot].age = tree[slot].age
      /\ \/ /\ checked > Period /\ checked' = 0 /\ DOMAIN tree' = Alive
            /\ \A slot \in Alive : tree'[slot].master <=> tree[slot].master \/ AppointedFirst(slot)
         \/ /\ checked <= Period /\ checked' = checked
            /\ \A slot \in DOMAIN tree' : tree'[slot].master = tree[slot].master
  BY <1>1, Updated
<1>3. TreeTypes'
  BY <1>1, <1>2, TimesAreNat DEF TreeTypes
<1>4. \A slot \in DOMAIN tree : tree[slot] \in Row /\ tree[slot].age \in 0..MaxAge
  BY DEF TreeTypes, Row
<1>5. Passed'
  <2>1. checked' <= Period /\ \A slot \in DOMAIN tree' : tree'[slot].age <= Timeout + checked'
    <3>1. CASE checked > Period
      BY <1>2, <1>4, <3>1, TimesAreNat DEF Alive, TreeTypes
    <3>2. CASE checked <= Period
      BY <1>2, <1>4, <3>2, TimesAreNat DEF TreeTypes, TreeInv, Passed
    <3> QED
      BY <1>2, <3>1, <3>2
  <2> QED
    BY <1>1, <2>1, <1>3, TimesAreNat DEF Passed, Late, TreeTypes
<1>6. MarksDiffer'
  <2> SUFFICES ASSUME NEW a \in DOMAIN tree', NEW b \in DOMAIN tree', a # b, TypeOf(a) = TypeOf(b),
                      TypeOf(a) \notin AlwaysSelected, tree'[a].master, tree'[b].master
               PROVE  tree'[a].age # tree'[b].age
    BY DEF MarksDiffer, TypeOf
  <2>1. CASE tree[a].master /\ tree[b].master
    BY <1>2, <2>1 DEF TreeInv, MarksDiffer
  <2>2. CASE ~(tree[a].master /\ tree[b].master)
    <3>1. DOMAIN tree' = Alive /\ (tree[a].master \/ AppointedFirst(a)) /\ (tree[b].master \/ AppointedFirst(b))
      BY <1>2, <2>2
    <3>2. a \in OfType(TypeOf(a)) \intersect Alive /\ b \in OfType(TypeOf(a)) \intersect Alive
      BY <3>1 DEF OfType, Alive
    <3>3. Masterless(TypeOf(a))
      BY <2>2, <3>1 DEF AppointedFirst
    <3>4. ~tree[a].master /\ ~tree[b].master
      BY <3>2, <3>3 DEF Masterless
    <3>5. a[2] <= b[2] /\ b[2] <= a[2]
      BY <3>1, <3>2, <3>4 DEF AppointedFirst
    <3>6. a \in Int \X Int /\ b \in Int \X Int
      BY <3>2, DisplayAssumption DEF OfType, TreeTypes
    <3> QED
      BY <3>5, <3>6 DEF TypeOf
  <2> QED
    BY <2>1, <2>2
<1> QED
  BY <1>1, <1>2, <1>3, <1>5, <1>6 DEF TreeInv

LEMMA TreeInvariant == Spec => [](TreeTypes /\ TreeInv)
<1>1. Init => TreeTypes /\ TreeInv
  <2> SUFFICES ASSUME Init PROVE TreeTypes /\ TreeInv
    OBVIOUS
  <2>1. /\ DOMAIN tree = {} /\ tree \in [DOMAIN tree -> Row] /\ checked = MaxAge /\ uptime = 0
        /\ sent = FALSE /\ due = FALSE /\ traffic \in Traffics
    BY DEF Init
  <2>2. TreeTypes
    BY <2>1, TimesAreNat DEF TreeTypes
  <2> QED
    BY <2>1, <2>2 DEF TreeInv, Passed, MarksDiffer
<1>2. TreeTypes /\ TreeInv /\ [Next]_vars => (TreeTypes /\ TreeInv)'
  <2> SUFFICES ASSUME TreeTypes, TreeInv, [Next]_vars
               PROVE  (TreeTypes /\ TreeInv)'
    OBVIOUS
  <2>1. ASSUME NEW good \in SUBSET traffic.slots, NEW masters \in MastersOf(good),
               ProcessedData(good, masters)
        PROVE  (TreeTypes /\ TreeInv)'
    BY <2>1, TreeReceived
  <2>2. ASSUME NEW good \in SUBSET traffic.slots, SimpleProto(good)
        PROVE  (TreeTypes /\ TreeInv)'
    <3>1. traffic.port # "ProcessedDataPort" /\ sent' = TRUE
          /\ UNCHANGED <<traffic, known, uptime, tree, checked, due>>
      BY <2>2 DEF SimpleProto, treeVars
    <3> QED
      BY <3>1 DEF TreeTypes, TreeInv, Passed, Late, MarksDiffer
  <2>3. ASSUME UNCHANGED <<traffic, sent, known, uptime, tree, checked, due>>
        PROVE  (TreeTypes /\ TreeInv)'
    BY <2>3 DEF TreeTypes, TreeInv, Passed, Late, MarksDiffer
  <2>4. CASE \/ \E now \in SUBSET traffic.ships : TableChanges(now)
             \/ \E got \in SUBSET ships : AISTargets(got)
             \/ RemoveDeads \/ UNCHANGED vars
    BY <2>3, <2>4 DEF TableChanges, AISTargets, RemoveDeads, vars, treeVars
  <2>5. CASE Restart
    <3>1. uptime' = 0 /\ UNCHANGED <<traffic, sent, tree, checked, due>>
      BY <2>5 DEF Restart, treeVars
    <3>2. TreeTypes'
      BY <3>1, TimesAreNat DEF TreeTypes
    <3>3. \A slot \in DOMAIN tree : tree[slot].age >= 0
      BY TimesAreNat DEF TreeTypes, Row
    <3> QED
      BY <3>1, <3>2, <3>3 DEF TreeInv, Passed, Late, MarksDiffer
  <2>6. CASE StateUpdate
    BY <2>6, TreeDrawn
  <2>7. CASE Tick
    BY <2>7, TreeTick
  <2> QED
    BY <2>1, <2>2, <2>4, <2>5, <2>6, <2>7 DEF Next
<1> QED
  BY <1>1, <1>2, PTL DEF Spec

\* Of two sources of a type that are both marked as its master in the tree, one is older: the
\* datagrams mark one, and the elimination of dead rows appoints only where none is left.
THEOREM MarkedOnce == Spec => []MarksDiffer
<1>1. TreeInv => MarksDiffer
  BY DEF TreeInv
<1> QED
  BY <1>1, TreeInvariant, PTL

\* A click on a source names one the running daemon has broadcast, so that its slot is there,
\* once the daemon runs for longer than the life of a row of the tree.
THEOREM ClickNamesKnown == Spec => []ClickableIsKnown
<1>1. TreeTypes /\ TreeInv => ClickableIsKnown
  <2> SUFFICES ASSUME TreeTypes, TreeInv, uptime > Timeout + Period + 1, NEW slot \in Clickable,
                      slot \notin known
               PROVE  FALSE
    BY DEF ClickableIsKnown
  <2>1. slot \in DOMAIN tree /\ tree[slot].drawn /\ tree[slot].age \in 0..MaxAge
    BY DEF Clickable, TreeTypes, Row
  <2>2. tree[slot].age >= uptime
    BY <2>1 DEF TreeInv
  <2>3. checked <= Period + Late /\ tree[slot].age <= Timeout + checked /\ Late \in {0, 1}
    BY <2>1 DEF TreeInv, Passed, Late
  <2> QED
    BY <2>1, <2>2, <2>3, TimesAreNat DEF TreeTypes
<1> QED
  BY <1>1, TreeInvariant, PTL

-----------------------------------------------------------------------------
(* The list of the simple protocol *)

\* What an item of the list may be: of a datagram, or nothing.
Shown == {<<>>} \union UNION {{Packet(good)[i] : i \in DOMAIN Packet(good)} :
                                 good \in SUBSET traffic.slots}

Cell == [item : Shown, age : 0..MaxAge]

ListTypes ==
    /\ traffic \in Traffics /\ due \in BOOLEAN
    /\ buffer \in Seq(Cell) /\ rows \in Seq(Cell)
    /\ items \in Nat /\ items <= Len(buffer)
    /\ received \in 0..MaxAge

\* The items that count, but for the last of them, came with the last datagram; so did the
\* rows that were drawn of them, which are one second behind.
ListInv ==
    /\ traffic.port # "SimpleProtocolPort" => items = 0
    /\ \A i \in 1..items - 1 : buffer[i].age <= received
    /\ \A i \in 1..Len(rows) - 1 : rows[i].age <= Timeout + Late

LEMMA CellAged ==
    ASSUME NEW c \in Cell, NEW n \in 0..MaxAge
    PROVE  [c EXCEPT !.age = n] \in Cell /\ [c EXCEPT !.age = n].age = n
<1>1. PICK x \in Shown, a \in 0..MaxAge : c = [item |-> x, age |-> a]
  BY DEF Cell
<1>2. [c EXCEPT !.age = n] = [item |-> x, age |-> n]
  BY <1>1
<1> QED
  BY <1>2 DEF Cell

\* The items of a datagram form a sequence.
LEMMA PacketItems ==
    ASSUME traffic \in Traffics, NEW good \in SUBSET traffic.slots
    PROVE  \E n \in Nat : DOMAIN Packet(good) = 1..n
<1> DEFINE Parts == {"", "Lat", "Lon"}
           all == UNION {ItemsOf(good, TypeOf(slot)) : slot \in good}
           Pairs == good \X Parts
           f == [p \in Pairs |-> <<TypeOf(p[1]), First(good, TypeOf(p[1])), p[2]>>]
           T == {f[p] : p \in Pairs}
<1>1. IsFiniteSet(good)
  <2>1. IsFiniteSet(traffic.slots)
    BY DisplayAssumption
  <2> QED
    BY <2>1, FS_Subset
<1>2. IsFiniteSet(Parts)
  <2>1. IsFiniteSet({""}) /\ IsFiniteSet({"Lat"}) /\ IsFiniteSet({"Lon"})
    BY FS_Singleton
  <2>2. IsFiniteSet({""} \union {"Lat"})
    BY <2>1, FS_Union
  <2>3. IsFiniteSet(({""} \union {"Lat"}) \union {"Lon"})
    BY <2>1, <2>2, FS_Union
  <2>4. Parts = ({""} \union {"Lat"}) \union {"Lon"}
    OBVIOUS
  <2> QED
    BY <2>3, <2>4
<1>3. IsFiniteSet(Pairs)
  BY <1>1, <1>2, FS_Product
<1>4. IsFiniteSet(T)
  <2>1. f \in Surjection(Pairs, T)
    BY DEF Surjection
  <2> HIDE DEF f, T, Pairs
  <2> QED
    BY <1>3, <2>1, FS_Surjection
<1>5. all \subseteq T
  <2> SUFFICES ASSUME NEW item \in all PROVE item \in T
    OBVIOUS
  <2>1. PICK slot \in good : item \in ItemsOf(good, TypeOf(slot))
    OBVIOUS
  <2>2. PICK part \in Parts : item = <<TypeOf(slot), First(good, TypeOf(slot)), part>>
    BY <2>1 DEF ItemsOf
  <2>3. <<slot, part>> \in Pairs /\ f[<<slot, part>>] = item
    BY <2>2
  <2> QED
    BY <2>3
<1>6. Cardinality(all) \in Nat
  <2> HIDE DEF all, T
  <2> QED
    BY <1>4, <1>5, FS_Subset, FS_CardinalityType
<1>7. DOMAIN Packet(good) = 1..Cardinality(all)
  BY DEF Packet
<1> QED
  BY <1>6, <1>7

LEMMA ListReceived ==
    ASSUME ListTypes, ListInv, NEW good \in SUBSET traffic.slots, SimpleProto(good)
    PROVE  ListTypes' /\ ListInv'
<1> DEFINE packet == [i \in DOMAIN Packet(good) |-> [item |-> Packet(good)[i], age |-> 0]]
           over == [i \in 1..NumOfItems(packet) |->
                       CASE i \in DOMAIN packet -> packet[i]
                         [] i \in DOMAIN buffer \ DOMAIN packet -> buffer[i]
                         [] OTHER -> Unwritten]
           rest == SubSeq(buffer, Len(over) + 1, Len(buffer))
<1>1. /\ traffic.port = "SimpleProtocolPort" /\ UNCHANGED <<traffic, due, rows>>
      /\ \/ UNCHANGED <<buffer, items, received>>
         \/ buffer' = over \o rest /\ items' = NumOfItems(packet) /\ received' = 0
  BY DEF SimpleProto, listVars
<1>2. /\ MaxAge \in Nat /\ 0 \in 0..MaxAge /\ MaxAge \in 0..MaxAge
      /\ buffer \in Seq(Cell) /\ DOMAIN buffer = 1..Len(buffer) /\ Len(buffer) \in Nat
      /\ \A i \in DOMAIN buffer : buffer[i] \in Cell
  BY TimesAreNat DEF ListTypes
<1>3. PICK n \in Nat : DOMAIN Packet(good) = 1..n
  BY PacketItems DEF ListTypes
<1>4. \A i \in 1..n : packet[i] \in Cell /\ packet[i].age = 0
  BY <1>2, <1>3 DEF Cell, Shown
<1>5. DOMAIN packet = 1..n /\ Len(packet) = n
  BY <1>3
<1>6. NumOfItems(packet) = n + 1
  BY <1>5 DEF NumOfItems
<1> HIDE DEF packet
<1>7. over \in [1..n + 1 -> Cell] /\ \A i \in 1..n : over[i].age = 0
  <2>1. Unwritten \in Cell
    BY <1>2 DEF Unwritten, Cell, Shown
  <2>2. DOMAIN over = 1..n + 1
    BY <1>6
  <2>3. ASSUME NEW i \in 1..n + 1 PROVE over[i] \in Cell /\ (i \in 1..n => over[i].age = 0)
    <3>1. CASE i \in 1..n
      BY <1>4, <1>5, <1>6, <3>1
    <3>2. CASE i \notin 1..n
      BY <1>2, <1>5, <1>6, <2>1, <3>2
    <3> QED
      BY <3>1, <3>2
  <2>4. over = [i \in 1..n + 1 |-> over[i]]
    BY <2>2
  <2>5. \A i \in 1..n : i \in 1..n + 1
    OBVIOUS
  <2> HIDE DEF over
  <2> QED
    BY <2>3, <2>4, <2>5
<1> HIDE DEF over
<1>8. over \in Seq(Cell) /\ Len(over) = n + 1
  <2>1. over \in Seq(Cell)
    BY <1>7, SeqDef
  <2>2. DOMAIN over = 1..n + 1
    BY <1>7
  <2> QED
    BY <2>1, <2>2, LenProperties
<1>9. rest \in Seq(Cell)
  BY <1>2, <1>8
<1> HIDE DEF rest
<1>10. /\ over \o rest \in Seq(Cell) /\ Len(over \o rest) = n + 1 + Len(rest) /\ Len(rest) \in Nat
       /\ \A i \in 1..n : (over \o rest)[i] = over[i]
  <2>1. /\ over \o rest \in Seq(Cell) /\ Len(over \o rest) = Len(over) + Len(rest)
        /\ \A i \in 1..Len(over) + Len(rest) :
             (over \o rest)[i] = IF i <= Len(over) THEN over[i] ELSE rest[i - Len(over)]
    BY <1>8, <1>9, ConcatProperties
  <2>2. Len(rest) \in Nat
    BY <1>9
  <2> QED
    BY <1>8, <2>1, <2>2
<1>11. CASE buffer' = over \o rest /\ items' = NumOfItems(packet) /\ received' = 0
  <2>1. items' = n + 1 /\ items' <= Len(buffer') /\ items' \in Nat
    BY <1>6, <1>10, <1>11
  <2>2. Cell' = Cell
    BY <1>1 DEF Cell, Shown
  <2>3. ListTypes'
    BY <1>1, <1>2, <1>10, <1>11, <2>1, <2>2 DEF ListTypes
  <2>4. \A i \in 1..items' - 1 : buffer'[i].age <= received'
    BY <1>7, <1>10, <1>11, <2>1
  <2> QED
    BY <1>1, <2>3, <2>4 DEF ListInv, Late
<1>12. CASE UNCHANGED <<buffer, items, received>>
  <2>1. Cell' = Cell
    BY <1>1 DEF Cell, Shown
  <2> QED
    BY <1>1, <1>12, <2>1 DEF ListTypes, ListInv, Late
<1> QED
  BY <1>1, <1>11, <1>12

LEMMA OlderList ==
    ASSUME NEW list \in Seq(Cell)
    PROVE  /\ OlderItems(list) \in Seq(Cell) /\ Len(OlderItems(list)) = Len(list)
           /\ \A i \in 1..Len(list) : OlderItems(list)[i].age = Older(list[i].age)
<1> DEFINE o == OlderItems(list)
<1>1. Len(list) \in Nat /\ DOMAIN list = 1..Len(list) /\ \A i \in 1..Len(list) : list[i] \in Cell
  OBVIOUS
<1>2. DOMAIN o = 1..Len(list)
  BY <1>1 DEF OlderItems
<1>3. ASSUME NEW i \in 1..Len(list) PROVE o[i] \in Cell /\ o[i].age = Older(list[i].age)
  <2>1. o[i] = [list[i] EXCEPT !.age = Older(list[i].age)]
    BY <1>1 DEF OlderItems
  <2>2. list[i] \in Cell /\ Older(list[i].age) \in 0..MaxAge
    BY <1>1, OlderAge DEF Cell
  <2> QED
    BY <2>1, <2>2, CellAged
<1>4. o \in [1..Len(list) -> Cell]
  BY <1>2, <1>3 DEF OlderItems
<1> HIDE DEF o
<1>5. o \in Seq(Cell)
  BY <1>1, <1>4, SeqDef
<1>6. Len(o) = Len(list)
  BY <1>1, <1>2, <1>5, LenProperties
<1> QED
  BY <1>3, <1>5, <1>6 DEF o

LEMMA ListTick ==
    ASSUME ListTypes, ListInv, Tick
    PROVE  ListTypes' /\ ListInv'
<1>1. /\ ~due /\ due' = TRUE /\ buffer' = OlderItems(buffer) /\ rows' = OlderItems(rows)
      /\ received' = (IF traffic.port = "SimpleProtocolPort" THEN Older(received) ELSE received)
      /\ UNCHANGED <<traffic, items>>
  BY DEF Tick, For
<1>2. /\ Cell' = Cell
  BY <1>1 DEF Cell, Shown
<1>3. received \in 0..MaxAge /\ received' \in 0..MaxAge
  BY <1>1, OlderAge DEF ListTypes
<1>4. /\ buffer' \in Seq(Cell) /\ Len(buffer') = Len(buffer)
      /\ \A i \in 1..Len(buffer) : buffer'[i].age = Older(buffer[i].age)
      /\ rows' \in Seq(Cell) /\ Len(rows') = Len(rows)
      /\ \A i \in 1..Len(rows) : rows'[i].age = Older(rows[i].age)
  BY <1>1, OlderList DEF ListTypes
<1>5. ListTypes'
  BY <1>1, <1>2, <1>3, <1>4 DEF ListTypes
<1>6. ASSUME NEW i \in 1..items - 1 PROVE buffer'[i].age <= received'
  <2>1. traffic.port = "SimpleProtocolPort" /\ i \in 1..Len(buffer)
    BY DEF ListInv, ListTypes
  <2>2. buffer[i] \in Cell
    BY <2>1 DEF ListTypes
  <2>3. buffer[i].age \in 0..MaxAge /\ buffer[i].age <= received
    BY <2>2 DEF ListInv, Cell
  <2>4. received' = Older(received) /\ buffer'[i].age = Older(buffer[i].age)
    BY <1>1, <1>4, <2>1
  <2> QED
    BY <1>3, <2>3, <2>4, OlderAge
<1>7. ASSUME NEW i \in 1..Len(rows) - 1 PROVE rows'[i].age <= Timeout + 1
  <2>1. i \in 1..Len(rows)
    BY DEF ListTypes
  <2>2. rows[i] \in Cell
    BY <2>1 DEF ListTypes
  <2>3. rows[i].age \in 0..MaxAge /\ rows[i].age <= Timeout
    <3>1. Late = 0 /\ Timeout + Late = Timeout
      BY <1>1, TimesAreNat DEF Late
    <3> QED
      BY <2>2, <3>1 DEF ListInv, Cell
  <2>4. rows'[i].age = Older(rows[i].age) /\ Older(rows[i].age) <= rows[i].age + 1
          /\ Older(rows[i].age) \in 0..MaxAge
    BY <1>4, <2>1, <2>3, OlderAge
  <2> QED
    BY <2>3, <2>4, TimesAreNat
<1>8. Late' = 1
  BY <1>1 DEF Late
<1> QED
  BY <1>1, <1>4, <1>5, <1>6, <1>7, <1>8 DEF ListInv

LEMMA ListDrawn ==
    ASSUME ListTypes, ListInv, StateUpdate
    PROVE  ListTypes' /\ ListInv'
<1>1. /\ due' = FALSE /\ UNCHANGED <<traffic, buffer, items, received>>
      /\ rows' = IF received > Timeout THEN <<>> ELSE SubSeq(buffer, 1, items)
  BY DEF StateUpdate, UpdateSimpleList
<1>2. Cell' = Cell /\ Late' = 0 /\ Timeout \in Nat
  BY <1>1, TimesAreNat DEF Cell, Shown, Late
<1>3. /\ buffer \in Seq(Cell) /\ items \in Nat /\ items <= Len(buffer) /\ received \in 0..MaxAge
  BY DEF ListTypes
<1>4. CASE received > Timeout
  <2>1. rows' = <<>> /\ rows' \in Seq(Cell)
    BY <1>1, <1>4
  <2>2. 1..Len(rows') - 1 = {}
    BY <2>1
  <2>3. ListTypes'
    BY <1>1, <1>2, <2>1 DEF ListTypes
  <2>4. ListInv'
    BY <1>1, <2>2 DEF ListInv
  <2> QED
    BY <2>3, <2>4
<1>5. CASE ~(received > Timeout)
  <2>1. rows' = SubSeq(buffer, 1, items)
    BY <1>1, <1>5
  <2>2. /\ rows' \in Seq(Cell) /\ Len(rows') = items
        /\ \A i \in 1..items : rows'[i] = buffer[i]
    BY <1>3, <2>1
  <2>3. ASSUME NEW i \in 1..items - 1 PROVE rows'[i].age <= Timeout
    <3>1. i \in 1..Len(buffer) /\ i \in 1..items /\ buffer[i].age <= received
      BY <1>3 DEF ListInv
    <3>2. buffer[i] \in Cell
      BY <1>3, <3>1
    <3>3. buffer[i].age \in Nat /\ received \in Nat
      BY <1>3, <3>2, TimesAreNat DEF Cell
    <3> QED
      BY <1>2, <1>5, <2>2, <3>1, <3>3
  <2>4. Timeout + Late' = Timeout
    BY <1>2
  <2> QED
    BY <1>1, <1>2, <2>2, <2>3, <2>4 DEF ListTypes, ListInv
<1> QED
  BY <1>4, <1>5

LEMMA ListUntouched ==
    ListTypes /\ ListInv /\ UNCHANGED <<traffic, listVars, due>> => ListTypes' /\ ListInv'
  BY DEF listVars, ListTypes, ListInv, Late, Cell, Shown

\* Every row of the simple protocol's list but the last was received within the timeout and a
\* second, for any parameters, however long or short the datagrams that lie in the buffer one
\* over the other, and with any of them lost.
THEOREM RecentRows == Spec => []RowsAreRecent
<1>1. Init => ListTypes /\ ListInv
  <2> SUFFICES ASSUME Init PROVE ListTypes /\ ListInv
    OBVIOUS
  <2>1. /\ traffic \in Traffics /\ due = FALSE /\ buffer = <<Unwritten>> /\ rows = <<>>
        /\ items = 0 /\ received = MaxAge
    BY DEF Init
  <2>2. Unwritten \in Cell
    BY TimesAreNat DEF Unwritten, Cell, Shown
  <2>3. buffer \in Seq(Cell) /\ Len(buffer) = 1 /\ rows \in Seq(Cell) /\ Len(rows) = 0
    BY <2>1, <2>2
  <2>4. ListTypes
    <3>1. items \in Nat /\ items <= Len(buffer)
      BY <2>1, <2>3
    <3>2. due \in BOOLEAN
      BY <2>1
    <3>3. received \in 0..MaxAge
      BY <2>1, TimesAreNat
    <3> QED
      BY <2>1, <2>3, <3>1, <3>2, <3>3 DEF ListTypes
  <2>5. 1..items - 1 = {} /\ 1..Len(rows) - 1 = {}
    BY <2>1, <2>3
  <2>6. ListInv
    BY <2>1, <2>5 DEF ListInv
  <2> QED
    BY <2>4, <2>6
<1>2. ListTypes /\ ListInv /\ [Next]_vars => (ListTypes /\ ListInv)'
  <2> SUFFICES ASSUME ListTypes, ListInv, [Next]_vars PROVE (ListTypes /\ ListInv)'
    OBVIOUS
  <2>1. ASSUME NEW good \in SUBSET traffic.slots, SimpleProto(good) PROVE (ListTypes /\ ListInv)'
    BY <2>1, ListReceived
  <2>2. CASE Tick
    BY <2>2, ListTick
  <2>3. CASE StateUpdate
    BY <2>3, ListDrawn
  <2>4. ASSUME NEW good, NEW masters, ProcessedData(good, masters)
        PROVE  (ListTypes /\ ListInv)'
    BY <2>4, ListUntouched DEF ProcessedData
  <2>5. CASE \/ \E now \in SUBSET traffic.ships : TableChanges(now)
             \/ \E got \in SUBSET ships : AISTargets(got)
             \/ Restart \/ RemoveDeads \/ UNCHANGED vars
    BY <2>5, ListUntouched DEF TableChanges, AISTargets, Restart, RemoveDeads, vars
  <2> QED
    BY <2>1, <2>2, <2>3, <2>4, <2>5 DEF Next
<1>3. ListTypes /\ ListInv => RowsAreRecent
  <2> SUFFICES ASSUME ListTypes, ListInv, NEW i \in DOMAIN rows, i < Len(rows)
               PROVE  rows[i].age <= Timeout + 1
    BY DEF RowsAreRecent
  <2>1. i \in 1..Len(rows) - 1 /\ rows[i] \in Cell
    BY DEF ListTypes
  <2>2. rows[i].age \in Nat /\ rows[i].age <= Timeout + Late /\ Late \in {0, 1}
    BY <2>1, TimesAreNat DEF ListInv, Cell, Late
  <2> QED
    BY <2>2, TimesAreNat
<1> QED
  BY <1>1, <1>2, <1>3, PTL DEF Spec

=============================================================================
