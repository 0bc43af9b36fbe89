------------------------- MODULE AppVersions_proofs -------------------------
(***************************************************************************)
(* Machine-checked proofs about AppVersions, for any sets of platforms,    *)
(* rows and requests and any bounded set of version codes.                 *)
(***************************************************************************)
EXTENDS AppVersions, WellFoundedInduction, TLAPS

(* A set of natural numbers that is not empty has a least element.         *)
LEMMA LeastElement ==
  ASSUME NEW T, T \subseteq Nat, T # {}
  PROVE  \E x \in T : \A y \in T : x <= y
<1>1. PICK x \in T : \A y \in T : ~(<<y, x>> \in OpToRel(<, Nat))
  BY NatLessThanWellFounded, WFMin, Zenon
<1>2. ASSUME NEW y \in T, y < x PROVE FALSE
  <2>1. <<y, x>> \in Nat \X Nat
    OBVIOUS
  <2>2. <<y, x>> \in OpToRel(<, Nat)
    BY <1>2, <2>1, Zenon DEF OpToRel
  <2> QED
    BY <1>1, <2>2, Zenon
<1> QED
  BY <1>2

(* A set of rows that is not empty has one with the highest code.          *)
LEMMA HighestExists ==
  ASSUME TypeOK, NEW S \in SUBSET Id, S # {}
  PROVE  Highest(S) # {}
<1>1. PICK m \in VersionCode : \A c \in VersionCode : c <= m
  BY ConstantsAssumption
<1>2. m \in Nat /\ \A i \in S : rows[i].code \in Nat /\ rows[i].code <= m
  BY <1>1, ConstantsAssumption DEF TypeOK, Row
<1> DEFINE T == {m - rows[i].code : i \in S}
<1>3. T \subseteq Nat /\ T # {}
  BY <1>2
<1>4. PICK least \in T : \A y \in T : least <= y
  BY <1>3, LeastElement
<1>5. \A i \in S : least <= m - rows[i].code
  BY <1>4
<1>6. PICK i \in S : least = m - rows[i].code
  BY <1>4
<1>7. \A j \in S : rows[j].code <= rows[i].code
  BY <1>2, <1>5, <1>6
<1> QED
  BY <1>7 DEF Highest

(* The rows a version can take over from are of distinct codes, so there   *)
(* is at most one heir.                                                    *)
LEMMA HighestIsOne ==
  ASSUME TypeOK, NEW p \in Platform, NEW S \in SUBSET Of(p)
  PROVE  \A i, j \in Highest(S) : i = j
<1> SUFFICES ASSUME NEW i \in Highest(S), NEW j \in Highest(S) PROVE i = j
  OBVIOUS
<1>1. i \in S /\ j \in S /\ rows[i].code <= rows[j].code /\ rows[j].code <= rows[i].code
  BY DEF Highest
<1>2. rows[i].code \in Nat /\ rows[j].code \in Nat
  BY <1>1, ConstantsAssumption DEF TypeOK, Row, Of
<1>3. rows[i].code = rows[j].code
  BY <1>1, <1>2
<1> QED
  BY <1>1, <1>3 DEF TypeOK

-----------------------------------------------------------------------------

IInv == TypeOK /\ OneLatestUnlessDeleteRaced /\ ALatestRemains

(* What each request leaves of the others. *)
LEMMA RequestTypes ==
  ASSUME TypeOK, NEW h \in Handler
  PROVE  /\ \A to \in {"setLatest", "delete"},
              j \in [id : Id \cup {NoId}, wasLatest : BOOLEAN] :
              j.id \in Id /\ Begin(h, to, j) =>
                /\ pc' \in [Handler -> {"idle", "setLatest", "delete"}]
                /\ job' \in [Handler -> [id : Id \cup {NoId}, wasLatest : BOOLEAN]]
                /\ \A k \in Handler : pc'[k] # "idle" => job'[k].id \in Id
         /\ \A from : Finish(h, from) =>
                /\ pc' \in [Handler -> {"idle", "setLatest", "delete"}]
                /\ job' \in [Handler -> [id : Id \cup {NoId}, wasLatest : BOOLEAN]]
                /\ \A k \in Handler : pc'[k] # "idle" => job'[k].id \in Id
<1>2. ASSUME NEW to \in {"setLatest", "delete"},
             NEW j \in [id : Id \cup {NoId}, wasLatest : BOOLEAN], j.id \in Id, Begin(h, to, j)
      PROVE  /\ pc' \in [Handler -> {"idle", "setLatest", "delete"}]
             /\ job' \in [Handler -> [id : Id \cup {NoId}, wasLatest : BOOLEAN]]
             /\ \A k \in Handler : pc'[k] # "idle" => job'[k].id \in Id
  BY <1>2 DEF TypeOK, Begin
<1>3. ASSUME NEW from, Finish(h, from)
      PROVE  /\ pc' \in [Handler -> {"idle", "setLatest", "delete"}]
             /\ job' \in [Handler -> [id : Id \cup {NoId}, wasLatest : BOOLEAN]]
             /\ \A k \in Handler : pc'[k] # "idle" => job'[k].id \in Id
  BY <1>3 DEF TypeOK, Finish, NoJob
<1> QED
  BY <1>2, <1>3

(* The conjuncts of the invariant about the rows and the two histories, in *)
(* one place: what a step has to show of them.                             *)
RowsOK ==
  /\ rows \in [Id -> Row]
  /\ doubled \subseteq Platform /\ unflagged \subseteq Platform
  /\ \A i \in Id : rows[i].latest => Present(i)
  /\ \A i, j \in Id : /\ Present(i) /\ Present(j)
                      /\ rows[i].platform = rows[j].platform
                      /\ rows[i].code = rows[j].code
                      => i = j
  /\ \A i, j \in Id : /\ rows[i].latest /\ rows[j].latest
                      /\ rows[i].platform = rows[j].platform
                      /\ rows[i].platform \notin doubled
                      => i = j
  /\ \A i \in Id : Present(i) /\ rows[i].platform \notin unflagged
       => \E j \in Id : rows[j].latest /\ rows[j].platform = rows[i].platform

RequestsOK ==
  /\ pc \in [Handler -> {"idle", "setLatest", "delete"}]
  /\ job \in [Handler -> [id : Id \cup {NoId}, wasLatest : BOOLEAN]]
  /\ \A h \in Handler : pc[h] # "idle" => job[h].id \in Id

LEMMA PartsOfTheInvariant == IInv <=> RowsOK /\ RequestsOK
<1>1. IInv => RowsOK /\ RequestsOK
  BY DEF IInv, TypeOK, Row, OneLatestUnlessDeleteRaced, ALatestRemains, RowsOK, RequestsOK,
     Of, Flagged, Present
<1>2. RowsOK /\ RequestsOK => IInv
  BY DEF IInv, TypeOK, Row, OneLatestUnlessDeleteRaced, ALatestRemains, RowsOK, RequestsOK,
     Of, Flagged, Present
<1> QED
  BY <1>1, <1>2

LEMMA IInvInit == Init => IInv
<1> SUFFICES ASSUME Init PROVE RowsOK /\ RequestsOK
  BY PartsOfTheInvariant
<1>1. (CHOOSE p \in Platform : TRUE) \in Platform
  BY ConstantsAssumption
<1>2. (CHOOSE c \in VersionCode : TRUE) \in VersionCode
  BY ConstantsAssumption
<1> QED
  BY <1>1, <1>2 DEF Init, RowsOK, RequestsOK, Row, Present, NoJob

(* What a row is when its flag is set or cleared, or it is deleted.        *)
Flag(r, b) == [r EXCEPT !.latest = b]

LEMMA FlagOfARow ==
  ASSUME NEW r \in Row, NEW b \in BOOLEAN
  PROVE  /\ Flag(r, b) \in Row
         /\ Flag(r, b).latest = b
         /\ Flag(r, b).state = r.state
         /\ Flag(r, b).platform = r.platform
         /\ Flag(r, b).code = r.code
         /\ r.latest \in BOOLEAN
  BY DEF Row, Flag

(* A version created becomes the latest of its platform. *)
LEMMA CreateStep ==
  ASSUME RowsOK, NEW i \in Id, NEW p \in Platform, NEW c \in VersionCode, Create(i, p, c)
  PROVE  RowsOK'
<1> DEFINE new == [state |-> "present", platform |-> p, code |-> c, latest |-> TRUE]
<1>0. /\ new \in Row /\ new.state = "present" /\ new.platform = p /\ new.code = c
      /\ new.latest = TRUE
  BY DEF Row
<1> HIDE DEF new
<1>1. /\ rows' \in [Id -> Row]
      /\ rows'[i] = new
      /\ \A j \in Id \ {i} : /\ rows'[j].state = rows[j].state
                             /\ rows'[j].platform = rows[j].platform
                             /\ rows'[j].code = rows[j].code
                             /\ j \in Of(p) => rows'[j].latest = FALSE
                             /\ j \notin Of(p) => rows'[j].latest = rows[j].latest
  <2>1. rows' = [MakeLatest(i, p) EXCEPT ![i] = new]
    BY DEF Create, new
  <2>2. rows' = [j \in Id |-> IF j = i THEN new
                              ELSE IF j \in Of(p) THEN Flag(rows[j], FALSE)
                              ELSE rows[j]]
    BY <2>1 DEF MakeLatest, Flag
  <2>4. \A j \in Id : rows[j] \in Row
    BY DEF RowsOK
  <2>5. \A j \in Id : rows'[j] \in Row
    BY <1>0, <2>2, <2>4, FlagOfARow
  <2> QED
    BY <2>2, <2>4, <2>5, FlagOfARow
<1>2. ~Present(i)
  BY DEF Create, Present
<1>3. doubled' = doubled \ {p} /\ unflagged' = unflagged \ {p}
  BY DEF Create
<1>4. \A j \in Id : j \in Of(p) <=> Present(j) /\ rows[j].platform = p
  BY DEF Of
<1>5. \A j \in Of(p) : rows[j].code # c
  BY DEF Create
<1> QED
  BY <1>0, <1>1, <1>2, <1>3, <1>4, <1>5 DEF RowsOK, Present

(* An Update clears the flags of the platform of the row it read; the row  *)
(* gets the flag if it is still there.                                     *)
LEMMA UpdateLatestStep ==
  ASSUME RowsOK, RequestsOK, NEW h \in Handler, UpdateLatestWrite(h)
  PROVE  RowsOK'
<1> DEFINE i == job[h].id
           p == rows[i].platform
<1>1. i \in Id /\ p \in Platform
  BY DEF UpdateLatestWrite, Finish, RequestsOK, RowsOK, Row
<1>2. \A j \in Id : j \in Of(p) <=> Present(j) /\ rows[j].platform = p
  BY DEF Of
<1>3. /\ rows' \in [Id -> Row]
      /\ \A j \in Id : /\ rows'[j].state = rows[j].state
                       /\ rows'[j].platform = rows[j].platform
                       /\ rows'[j].code = rows[j].code
      /\ \A j \in Id : j \notin Of(p) => rows'[j].latest = rows[j].latest
      /\ \A j \in Of(p) : j # i \/ ~Present(i) => rows'[j].latest = FALSE
      /\ Present(i) => rows'[i].latest = TRUE
  <2>1. rows' = [j \in Id |-> IF j = i /\ Present(i) THEN Flag(rows[j], TRUE)
                              ELSE IF j \in Of(p) THEN Flag(rows[j], FALSE)
                              ELSE rows[j]]
    <3>1. CASE Present(i)
      BY <3>1 DEF UpdateLatestWrite, MakeLatest, Flag
    <3>2. CASE ~Present(i)
      BY <3>2 DEF UpdateLatestWrite, Flag
    <3> QED
      BY <3>1, <3>2
  <2>2. \A j \in Id : rows[j] \in Row
    BY DEF RowsOK
  <2>3. \A j \in Id : rows'[j] \in Row
    BY <2>1, <2>2, FlagOfARow
  <2>4. Present(i) => i \in Of(p)
    BY <1>1, <1>2
  <2> HIDE DEF i, p
  <2>5. rows' \in [Id -> Row]
    BY <2>1, <2>3
  <2>6. ASSUME NEW j \in Id
        PROVE  /\ Flag(rows[j], TRUE).latest = TRUE /\ Flag(rows[j], FALSE).latest = FALSE
               /\ \A b \in BOOLEAN : /\ Flag(rows[j], b).state = rows[j].state
                                     /\ Flag(rows[j], b).platform = rows[j].platform
                                     /\ Flag(rows[j], b).code = rows[j].code
    BY <2>2 DEF Flag, Row
  <2>7. ASSUME NEW j \in Id
        PROVE  /\ rows'[j].state = rows[j].state
               /\ rows'[j].platform = rows[j].platform
               /\ rows'[j].code = rows[j].code
    <3>1. rows'[j] = Flag(rows[j], TRUE) \/ rows'[j] = Flag(rows[j], FALSE)
          \/ rows'[j] = rows[j]
      BY <2>1
    <3> QED
      BY <2>6, <3>1
  <2>8. ASSUME NEW j \in Id, j \notin Of(p) PROVE rows'[j].latest = rows[j].latest
    <3>1. ~(j = i /\ Present(i))
      BY <2>4, <2>8
    <3>2. rows'[j] = rows[j]
      BY <2>1, <2>8, <3>1
    <3> QED
      BY <3>2
  <2>9. ASSUME NEW j \in Of(p), j # i \/ ~Present(i) PROVE rows'[j].latest = FALSE
    <3>1. j \in Id
      BY DEF Of
    <3>2. rows'[j] = Flag(rows[j], FALSE)
      BY <2>1, <2>9, <3>1
    <3> QED
      BY <2>6, <3>1, <3>2
  <2>10. ASSUME Present(i) PROVE rows'[i].latest = TRUE
    <3>1. rows'[i] = Flag(rows[i], TRUE)
      BY <1>1, <2>1, <2>10
    <3> QED
      BY <1>1, <2>6, <3>1
  <2> QED
    BY <2>5, <2>7, <2>8, <2>9, <2>10
<1>4. /\ doubled' = doubled \ {p}
      /\ unflagged' = IF Present(i) THEN unflagged \ {p} ELSE unflagged \cup {p}
  BY DEF UpdateLatestWrite
<1>5. p = rows[i].platform
  OBVIOUS
<1> HIDE DEF i, p
<1> QED
  BY <1>1, <1>2, <1>3, <1>4, <1>5 DEF RowsOK, Present

LEMMA UpdateNotLatestStep ==
  ASSUME RowsOK, NEW i \in Id, UpdateNotLatest(i)
  PROVE  RowsOK'
<1>1. /\ rows' \in [Id -> Row]
      /\ \A j \in Id : /\ rows'[j].state = rows[j].state
                       /\ rows'[j].platform = rows[j].platform
                       /\ rows'[j].code = rows[j].code
                       /\ j # i => rows'[j].latest = rows[j].latest
      /\ rows'[i].latest = FALSE
  <2>1. \A j \in Id : rows[j] \in Row
    BY DEF RowsOK
  <2>2. rows' = [j \in Id |-> IF j = i THEN Flag(rows[j], FALSE) ELSE rows[j]]
    BY DEF UpdateNotLatest, RowsOK, Flag
  <2>3. \A j \in Id : rows'[j] \in Row
    BY <2>1, <2>2, FlagOfARow
  <2> QED
    BY <2>1, <2>2, <2>3, FlagOfARow
<1>2. /\ doubled' = doubled
      /\ unflagged' = IF rows[i].latest THEN unflagged \cup {rows[i].platform} ELSE unflagged
  BY DEF UpdateNotLatest
<1>3. rows[i].platform \in Platform
  BY DEF RowsOK, Row
<1> QED
  BY <1>1, <1>2, <1>3 DEF RowsOK, Present

(* A Delete takes the flag away with the row; the highest version left     *)
(* takes over if the row was flagged when it was read.                     *)
LEMMA DeleteStep ==
  ASSUME IInv, NEW h \in Handler, DeleteWrite(h)
  PROVE  RowsOK'
<1> DEFINE i == job[h].id
           p == rows[i].platform
           heir == IF job[h].wasLatest THEN Highest(Of(p) \ {i}) ELSE {}
<1>0. RowsOK /\ RequestsOK /\ TypeOK
  BY PartsOfTheInvariant DEF IInv
<1>1. i \in Id /\ p \in Platform /\ job[h].wasLatest \in BOOLEAN
  BY <1>0 DEF DeleteWrite, Finish, RequestsOK, RowsOK, Row
<1>2. \A j \in Id : j \in Of(p) <=> Present(j) /\ rows[j].platform = p
  BY DEF Of
<1>3. /\ heir \subseteq Of(p) \ {i}
      /\ \A j, k \in heir : j = k
      /\ job[h].wasLatest /\ Of(p) \ {i} # {} => heir # {}
      /\ ~job[h].wasLatest => heir = {}
  <2>1. Of(p) \ {i} \in SUBSET Of(p) /\ Of(p) \ {i} \in SUBSET Id
    BY DEF Of
  <2>2. Highest(Of(p) \ {i}) \subseteq Of(p) \ {i}
    BY DEF Highest
  <2>3. \A j, k \in Highest(Of(p) \ {i}) : j = k
    BY <1>0, <1>1, <2>1, HighestIsOne
  <2>4. Of(p) \ {i} # {} => Highest(Of(p) \ {i}) # {}
    BY <1>0, <2>1, HighestExists
  <2> QED
    BY <2>2, <2>3, <2>4
<1>4. /\ rows' \in [Id -> Row]
      /\ rows'[i].state = "deleted" /\ ~rows'[i].latest
      /\ rows'[i].platform = p /\ rows'[i].code = rows[i].code
      /\ \A j \in Id \ {i} : /\ rows'[j].state = rows[j].state
                             /\ rows'[j].platform = rows[j].platform
                             /\ rows'[j].code = rows[j].code
                             /\ j \in heir => rows'[j].latest = TRUE
                             /\ j \notin heir => rows'[j].latest = rows[j].latest
  <2>1. rows' = [j \in Id |-> IF j = i THEN [rows[j] EXCEPT !.state = "deleted", !.latest = FALSE]
                              ELSE IF j \in heir THEN Flag(rows[j], TRUE)
                              ELSE rows[j]]
    BY DEF DeleteWrite, Flag
  <2>2. \A j \in Id : rows[j] \in Row
    BY <1>0 DEF RowsOK
  <2>3. p = rows[i].platform
    OBVIOUS
  <2> HIDE DEF heir, i, p
  <2>4. /\ [rows[i] EXCEPT !.state = "deleted", !.latest = FALSE] \in Row
        /\ [rows[i] EXCEPT !.state = "deleted", !.latest = FALSE].latest = FALSE
        /\ [rows[i] EXCEPT !.state = "deleted", !.latest = FALSE].state = "deleted"
        /\ [rows[i] EXCEPT !.state = "deleted", !.latest = FALSE].platform = rows[i].platform
        /\ [rows[i] EXCEPT !.state = "deleted", !.latest = FALSE].code = rows[i].code
    BY <1>1, <2>2 DEF Row
  <2>5. \A j \in Id : rows'[j] \in Row
    BY <1>1, <2>1, <2>2, <2>4, FlagOfARow
  <2>6. rows' \in [Id -> Row]
    BY <2>1, <2>5
  <2> QED
    BY <1>1, <2>1, <2>2, <2>3, <2>4, <2>6, FlagOfARow
<1>5. /\ doubled' = IF job[h].wasLatest /\ ~rows[i].latest THEN doubled \cup {p} ELSE doubled
      /\ unflagged' = IF rows[i].latest /\ ~job[h].wasLatest THEN unflagged \cup {p}
                      ELSE unflagged
  BY DEF DeleteWrite
<1>6. p = rows[i].platform
  OBVIOUS
<1> HIDE DEF i, p, heir
<1>7. /\ rows' \in [Id -> Row]
      /\ doubled' \subseteq Platform /\ unflagged' \subseteq Platform
      /\ \A j \in Id : rows'[j].latest => Present(j)'
  BY <1>0, <1>1, <1>2, <1>3, <1>4, <1>5 DEF RowsOK, Present
<1>8. \A j, k \in Id : /\ Present(j)' /\ Present(k)'
                       /\ rows'[j].platform = rows'[k].platform
                       /\ rows'[j].code = rows'[k].code
                       => j = k
  BY <1>0, <1>1, <1>4 DEF RowsOK, Present
<1>9. \A j, k \in Id : /\ rows'[j].latest /\ rows'[k].latest
                       /\ rows'[j].platform = rows'[k].platform
                       /\ rows'[j].platform \notin doubled'
                       => j = k
  BY <1>0, <1>1, <1>2, <1>3, <1>4, <1>5, <1>6 DEF RowsOK, Present
<1>10. \A j \in Id : Present(j)' /\ rows'[j].platform \notin unflagged'
         => \E k \in Id : rows'[k].latest /\ rows'[k].platform = rows'[j].platform
  <2> SUFFICES ASSUME NEW j \in Id, Present(j)', rows'[j].platform \notin unflagged'
               PROVE  \E k \in Id : rows'[k].latest /\ rows'[k].platform = rows'[j].platform
    OBVIOUS
  <2>1. j # i /\ Present(j) /\ rows[j].platform \notin unflagged
    BY <1>1, <1>4, <1>5 DEF Present
  <2>2. PICK k \in Id : rows[k].latest /\ rows[k].platform = rows[j].platform
    BY <1>0, <2>1 DEF RowsOK
  <2>3. CASE k # i
    BY <1>4, <2>1, <2>2, <2>3
  <2>4. CASE k = i
    <3>1. j \in Of(p) \ {i} /\ job[h].wasLatest
      BY <1>1, <1>2, <1>4, <1>5, <1>6, <2>1, <2>2, <2>4
    <3>2. PICK l \in heir : TRUE
      BY <1>3, <3>1
    <3>3. l \in Id /\ l # i /\ rows[l].platform = p
      BY <1>2, <1>3, <3>2 DEF Of
    <3> QED
      BY <1>2, <1>4, <2>1, <3>1, <3>2, <3>3 DEF Of
  <2> QED
    BY <2>3, <2>4
<1> QED
  BY <1>7, <1>8, <1>9, <1>10 DEF RowsOK

(* Every step keeps the invariant. *)
LEMMA IInvStep == IInv /\ [Next]_vars => IInv'
<1>0. IInv' <=> RowsOK' /\ RequestsOK'
  BY PartsOfTheInvariant, PTL
<1> SUFFICES ASSUME IInv, [Next]_vars PROVE RowsOK' /\ RequestsOK'
  BY <1>0
<1> RowsOK /\ RequestsOK /\ TypeOK
  BY PartsOfTheInvariant DEF IInv
<1>1. ASSUME NEW i \in Id, NEW p \in Platform, NEW c \in VersionCode, Create(i, p, c)
      PROVE  RowsOK' /\ RequestsOK'
  <2>1. RowsOK'
    BY <1>1, CreateStep
  <2> QED
    BY <1>1, <2>1 DEF Create, RequestsOK
<1>2. ASSUME NEW i \in Id, UpdateNotLatest(i) PROVE RowsOK' /\ RequestsOK'
  <2>1. RowsOK'
    BY <1>2, UpdateNotLatestStep
  <2> QED
    BY <1>2, <2>1 DEF UpdateNotLatest, RequestsOK
<1>3. ASSUME NEW h \in Handler, NEW i \in Id, UpdateLatestFind(h, i) \/ DeleteFind(h, i)
      PROVE  RowsOK' /\ RequestsOK'
  <2>1. RowsOK'
    BY <1>3 DEF UpdateLatestFind, DeleteFind, RowsOK, Present
  <2>2. rows[i].latest \in BOOLEAN
    BY DEF RowsOK, Row
  <2>3. CASE UpdateLatestFind(h, i)
    <3>1. [NoJob EXCEPT !.id = i] \in [id : Id \cup {NoId}, wasLatest : BOOLEAN]
          /\ [NoJob EXCEPT !.id = i].id \in Id
      BY DEF NoJob
    <3> QED
      BY <2>1, <2>3, <3>1, RequestTypes DEF UpdateLatestFind, RequestsOK
  <2>4. CASE DeleteFind(h, i)
    <3>1. [id |-> i, wasLatest |-> rows[i].latest] \in [id : Id \cup {NoId}, wasLatest : BOOLEAN]
          /\ [id |-> i, wasLatest |-> rows[i].latest].id \in Id
      BY <2>2
    <3> QED
      BY <2>1, <2>4, <3>1, RequestTypes DEF DeleteFind, RequestsOK
  <2> QED
    BY <1>3, <2>3, <2>4
<1>4. ASSUME NEW h \in Handler, UpdateLatestWrite(h) PROVE RowsOK' /\ RequestsOK'
  <2>1. RowsOK'
    BY <1>4, UpdateLatestStep
  <2>2. Finish(h, "setLatest")
    BY <1>4 DEF UpdateLatestWrite
  <2> QED
    BY <2>1, <2>2, RequestTypes DEF RequestsOK
<1>5. ASSUME NEW h \in Handler, DeleteWrite(h) PROVE RowsOK' /\ RequestsOK'
  <2>1. RowsOK'
    BY <1>5, DeleteStep
  <2>2. Finish(h, "delete")
    BY <1>5 DEF DeleteWrite
  <2> QED
    BY <2>1, <2>2, RequestTypes DEF RequestsOK
<1>6. ASSUME NEW h \in Handler, Abort(h) PROVE RowsOK' /\ RequestsOK'
  <2>1. RowsOK'
    BY <1>6 DEF Abort, RowsOK, Present
  <2>2. Finish(h, pc[h])
    BY <1>6 DEF Abort
  <2> QED
    BY <2>1, <2>2, RequestTypes DEF RequestsOK
<1>7. CASE UNCHANGED vars
  BY <1>7 DEF vars, RowsOK, RequestsOK, Present
<1> QED
  BY <1>1, <1>2, <1>3, <1>4, <1>5, <1>6, <1>7 DEF Next

-----------------------------------------------------------------------------

LEMMA InvariantOfVersions == Spec => []IInv
<1> QED
  BY IInvInit, IInvStep, PTL DEF Spec

(* Every variable keeps its type, and no two versions of a platform share  *)
(* a version code.                                                         *)
THEOREM VersionsTypeCorrect == Spec => []TypeOK
<1> QED
  BY InvariantOfVersions, PTL DEF IInv

(* However requests overlap, a platform has one latest version, unless a   *)
(* Delete acted on a flag that had moved.                                  *)
THEOREM OneLatest == Spec => []OneLatestUnlessDeleteRaced
<1> QED
  BY InvariantOfVersions, PTL DEF IInv

(* A platform that has versions offers one, with the named exceptions.     *)
THEOREM LatestRemains == Spec => []ALatestRemains
<1> QED
  BY InvariantOfVersions, PTL DEF IInv

=============================================================================
