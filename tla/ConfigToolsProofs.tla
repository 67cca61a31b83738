--------------------------- MODULE ConfigToolsProofs ---------------------------
(***************************************************************************)
(* Proofs about ConfigTools, and through it about the loader and the       *)
(* register map, for every set of start documents, channels and base       *)
(* addresses, any number of edits in any order, and MaxDevices devices.    *)
(*                                                                         *)
(* The tools are operators on documents: the first part proves what each   *)
(* of them keeps, of any document and of one the tools made, the second    *)
(* what the loader accepts of such documents, and the third puts the       *)
(* theorems together.                                                      *)
(***************************************************************************)
EXTENDS ConfigTools, DataInduction

-----------------------------------------------------------------------------
(* Lists of lines in a given order.                                        *)

StrictOrder(K, R) ==
  /\ \A i \in K : <<i, i>> \notin R
  /\ \A i, j \in K : i # j => <<i, j>> \in R \/ <<j, i>> \in R
  /\ \A i, j, k \in K : <<i, j>> \in R /\ <<j, k>> \in R => <<i, k>> \in R

(* Every position is taken by one member: the number of those before it    *)
(* tells the members apart, and there are as many numbers as members.      *)
LEMMA Positions ==
  ASSUME NEW K, IsFiniteSet(K), NEW R, StrictOrder(K, R)
  PROVE  \A k \in 1..Cardinality(K) :
           \E i \in K : Cardinality({j \in K : <<j, i>> \in R}) = k - 1
<1> DEFINE n == Cardinality(K)
           below(i) == {j \in K : <<j, i>> \in R}
           size == [i \in K |-> Cardinality(below(i))]
           rank == [i \in K |-> size[i] + 1]
<1>1. n \in Nat /\ IsFiniteSet(1..n) /\ Cardinality(1..n) = n
  BY FS_CardinalityType, FS_Interval
<1>2. \A i \in K : IsFiniteSet(below(i))
  BY FS_Subset
<1>3. \A i \in K : size[i] \in Nat /\ size[i] < n
  <2> TAKE i \in K
  <2>1. below(i) \subseteq K /\ i \notin below(i)
    BY DEF StrictOrder
  <2>2. IsFiniteSet(below(i)) /\ size[i] <= n /\ size[i] # n
    BY <2>1, FS_Subset
  <2>3. size[i] \in Nat
    BY <2>2, FS_CardinalityType
  <2> HIDE DEF size, n
  <2> QED
    BY <1>1, <2>2, <2>3
<1>4. ASSUME NEW i \in K, NEW j \in K, <<i, j>> \in R PROVE size[i] < size[j]
  <2>1. below(i) \subseteq below(j) /\ i \in below(j) /\ i \notin below(i)
    BY <1>4 DEF StrictOrder
  <2>2. size[i] <= size[j] /\ size[i] # size[j]
    BY <1>2, <2>1, FS_Subset
  <2> HIDE DEF size
  <2> QED
    BY <1>3, <2>2
<1>5. \A k \in 1..n : \A i \in K : size[i] = k - 1 => Cardinality({j \in K : <<j, i>> \in R}) = k - 1
  OBVIOUS
<1> HIDE DEF size, n
<1>6. rank \in [K -> 1..n]
  BY <1>1, <1>3
<1>7. ASSUME NEW i \in K, NEW j \in K, rank[i] = rank[j] PROVE i = j
  <2>1. size[i] = size[j] /\ size[i] \in Nat
    BY <1>3, <1>7
  <2> QED
    <3>1. <<i, j>> \notin R /\ <<j, i>> \notin R
      BY <1>3, <1>4, <2>1
    <3> QED
      BY <3>1 DEF StrictOrder
<1>8. rank \in Injection(K, 1..n)
  BY <1>6, <1>7 DEF Injection, IsInjective
<1>9. \A k \in 1..n : \E i \in K : rank[i] = k
  <2> HIDE DEF rank
  <2>1. rank \in Surjection(K, 1..n)
    BY <1>1, <1>8, FS_Injection DEF n
  <2> QED
    BY <2>1 DEF Surjection
<1>10. ASSUME NEW k \in 1..n, NEW i \in K, rank[i] = k PROVE size[i] = k - 1
  BY <1>1, <1>3, <1>10
<1> QED
  BY <1>5, <1>9, <1>10 DEF n

(* at numbers the members of K, and s is new in that numbering.            *)
Numbering(at, s, K, new) ==
  LET n == Cardinality(K) IN
    /\ at \in [1..n -> K]
    /\ new = [k \in 1..n |-> s[at[k]]]
    /\ \A i \in K : \E k \in 1..n : at[k] = i
    /\ \A k, l \in 1..n : at[k] = at[l] => k = l

LEMMA Arranging ==
  ASSUME NEW K, IsFiniteSet(K), NEW R, StrictOrder(K, R), NEW s
  PROVE  \E at : Numbering(at, s, K, Arranged(s, K, R))
<1> DEFINE n == Cardinality(K)
           below(i) == {j \in K : <<j, i>> \in R}
           at == [k \in 1..n |-> CHOOSE i \in K : Cardinality(below(i)) = k - 1]
<1>1. ASSUME NEW k \in 1..n PROVE at[k] \in K /\ Cardinality(below(at[k])) = k - 1
  <2>1. \E i \in K : Cardinality(below(i)) = k - 1
    BY Positions
  <2> QED
    BY <2>1
<1>2. n \in Nat
  BY FS_CardinalityType
<1>3. at \in [1..n -> K]
  BY <1>1
<1>4. Arranged(s, K, R) = [k \in 1..n |-> s[at[k]]]
  BY DEF Arranged
<1>5. \A k, l \in 1..n : at[k] = at[l] => k = l
  <2> SUFFICES ASSUME NEW k \in 1..n, NEW l \in 1..n, at[k] = at[l] PROVE k = l
    OBVIOUS
  <2>1. Cardinality(below(at[k])) = k - 1 /\ Cardinality(below(at[l])) = l - 1
    BY <1>1
  <2> HIDE DEF at, below
  <2> QED
    BY <1>2, <2>1
<1> HIDE DEF at
<1>6. IsFiniteSet(1..n) /\ Cardinality(1..n) = n
  BY <1>2, FS_Interval
<1>7. at \in Injection(1..n, K)
  BY <1>3, <1>5 DEF Injection, IsInjective
<1>8. at \in Surjection(1..n, K)
  BY <1>6, <1>7, FS_Injection
<1> QED
  BY <1>3, <1>4, <1>5, <1>8 DEF Surjection, Numbering

(* new has the entries of s at the positions K, in some order.             *)
Entries(new, s, K) ==
  /\ new \in Seq(Bus)
  /\ {new[i].name : i \in DOMAIN new} = {s[i].name : i \in K}
  /\ NamesApart(s) => NamesApart(new)

LEMMA ArrangedLines ==
  ASSUME NEW s \in Seq(Bus), NEW K \in SUBSET DOMAIN s, NEW R, StrictOrder(K, R)
  PROVE  Entries(Arranged(s, K, R), s, K)
<1> DEFINE n == Cardinality(K)
           new == Arranged(s, K, R)
<1>1. IsFiniteSet(K) /\ n \in Nat
  <2>1. IsFiniteSet(DOMAIN s)
    BY FS_Interval
  <2> QED
    BY <2>1, FS_Subset, FS_CardinalityType
<1>2. PICK at : Numbering(at, s, K, new)
  BY <1>1, Arranging
<1> HIDE DEF new, n
<1>3. \A i \in K : i \in DOMAIN s /\ s[i] \in Bus
  OBVIOUS
<1>4. new \in Seq(Bus) /\ DOMAIN new = 1..n
  BY <1>1, <1>2, <1>3 DEF Numbering, n
<1>5. {new[i].name : i \in DOMAIN new} = {s[i].name : i \in K}
  BY <1>2, <1>4 DEF Numbering, n
<1>6. NamesApart(s) => NamesApart(new)
  BY <1>2, <1>3, <1>4 DEF NamesApart, Numbering, n
<1> QED
  BY <1>4, <1>5, <1>6 DEF new, Entries

-----------------------------------------------------------------------------
(* What the tools for lines make of a document.                            *)

(* The same but for the entries of the lines.                              *)
SameButLines(d, e) ==
  /\ e \in Document
  /\ e.legacy = d.legacy /\ e.points = d.points /\ e.service = d.service

LEMMA LineNames ==
  ASSUME NEW line \in Line
  PROVE  LineName[line] \in DOMAIN NameOrder /\ OldLineName[line] \in DOMAIN NameOrder
<1>1. line \in 1..2
  BY LoaderAssumption, ToolsAssumption DEF Line
<1> QED
  BY <1>1 DEF LineName, OldLineName, NameOrder

LEMMA SortedLines ==
  ASSUME NEW s \in Seq(Bus)
  PROVE  Entries(SortedByName(s), s, DOMAIN s)
<1> DEFINE at == DOMAIN s
           nameOf(i) == NameOrder[s[i].name]
           R == {ij \in at \X at : \/ nameOf(ij[1]) < nameOf(ij[2])
                                   \/ nameOf(ij[1]) = nameOf(ij[2]) /\ ij[1] < ij[2]}
<1>1. \A i \in at : nameOf(i) \in Int /\ i \in Int
  <2>1. \A n \in DOMAIN NameOrder : NameOrder[n] \in Int
    BY DEF NameOrder
  <2>2. \A i \in at : i \in Int /\ s[i] \in Bus
    OBVIOUS
  <2>3. \A i \in at : s[i].name \in DOMAIN NameOrder
    BY <2>2 DEF Bus
  <2> QED
    BY <2>1, <2>2, <2>3
<1>2. \A i, j \in at : <<i, j>> \in R <=> \/ nameOf(i) < nameOf(j)
                                          \/ nameOf(i) = nameOf(j) /\ i < j
  OBVIOUS
<1> HIDE DEF nameOf
<1>3. StrictOrder(at, R)
  <2> HIDE DEF R, at
  <2> QED
    BY <1>1, <1>2 DEF StrictOrder
<1>4. SortedByName(s) = Arranged(s, at, R)
  BY DEF SortedByName, nameOf
<1> HIDE DEF R
<1> QED
  BY <1>3, <1>4, ArrangedLines

LEMMA OtherLinesAre ==
  ASSUME NEW d \in Document, NEW name
  PROVE  /\ OtherLines(d, name) \in Seq(Bus)
         /\ {OtherLines(d, name)[i].name : i \in DOMAIN OtherLines(d, name)} = BusNames(d) \ {name}
         /\ NamesApart(d.buses) => NamesApart(OtherLines(d, name))
<1> DEFINE K == {i \in DOMAIN d.buses : d.buses[i].name # name}
           R == {ij \in K \X K : ij[1] < ij[2]}
           s == d.buses
<1>1. s \in Seq(Bus) /\ K \in SUBSET DOMAIN s /\ K \subseteq Int
  BY DEF Document
<1>2. \A i, j \in K : <<i, j>> \in R <=> i < j
  OBVIOUS
<1>3. StrictOrder(K, R)
  <2> HIDE DEF R, K
  <2> QED
    BY <1>1, <1>2 DEF StrictOrder
<1>4. OtherLines(d, name) = Arranged(s, K, R)
  BY DEF OtherLines
<1>5. {s[i].name : i \in K} = BusNames(d) \ {name}
  BY DEF BusNames
<1> HIDE DEF R, K, s
<1>6. Entries(OtherLines(d, name), s, K)
  BY <1>1, <1>3, <1>4, ArrangedLines
<1> QED
  BY <1>5, <1>6 DEF s, Entries

LEMMA NormalizedIs ==
  ASSUME NEW d \in Document, d.legacy => Len(d.buses) = 1
  PROVE  /\ SameButLines([d EXCEPT !.legacy = FALSE], Normalized(d))
         /\ ~d.legacy => Normalized(d) = d
         /\ NamesApart(d.buses) => NamesApart(Normalized(d).buses)
<1>1. CASE ~d.legacy
  BY <1>1 DEF Normalized, SameButLines, Document
<1>2. CASE d.legacy
  <2> DEFINE entry == [d.buses[1] EXCEPT !.name = LineName[1]]
  <2>1. d.buses \in Seq(Bus) /\ d.buses[1] \in Bus
    BY <1>2 DEF Document
  <2>2. entry \in Bus
    <3>1. LineName[1] \in DOMAIN NameOrder
      BY DEF LineName, NameOrder
    <3> QED
      BY <2>1, <3>1 DEF Bus
  <2>3. Normalized(d) = [d EXCEPT !.legacy = FALSE, !.buses = <<entry>>]
    BY <1>2 DEF Normalized, Document
  <2> HIDE DEF entry
  <2>4. <<entry>> \in Seq(Bus) /\ NamesApart(<<entry>>)
    BY <2>2 DEF NamesApart
  <2> QED
    BY <1>2, <2>3, <2>4 DEF SameButLines, Document
<1> QED
  BY <1>1, <1>2

LEMMA WithLineIs ==
  ASSUME NEW d \in Document, NEW line \in Line, NEW sound \in BOOLEAN
  PROVE  LET e == WithLine(d, line, sound) IN
           /\ SameButLines(d, e)
           /\ BusNames(e) = BusNames(d) \cup {LineName[line]}
           /\ NamesApart(d.buses) => NamesApart(e.buses)
<1> DEFINE name == LineName[line]
           entry == [name |-> name, on |-> None, sound |-> sound]
           e == WithLine(d, line, sound)
           s == d.buses
<1>1. s \in Seq(Bus) /\ entry \in Bus
  BY LineNames DEF Document, Bus
<1>2. CASE name \in BusNames(d)
  <2> DEFINE new == [i \in DOMAIN s |-> IF s[i].name = name THEN entry ELSE s[i]]
  <2>1. e = [d EXCEPT !.buses = new]
    BY <1>2 DEF WithLine, Document
  <2>2. new \in Seq(Bus) /\ DOMAIN new = DOMAIN s
    BY <1>1
  <2>3. \A i \in DOMAIN s : new[i].name = s[i].name
    OBVIOUS
  <2> HIDE DEF new, entry
  <2>4. SameButLines(d, e) /\ e.buses = new
    BY <2>1, <2>2 DEF SameButLines, Document
  <2> HIDE DEF e, name
  <2> QED
    BY <1>2, <2>2, <2>3, <2>4 DEF BusNames, NamesApart, e, name
<1>3. CASE name \notin BusNames(d)
  <2> DEFINE all == Append(s, entry)
             new == SortedByName(all)
  <2>1. e = [d EXCEPT !.buses = new]
    BY <1>3 DEF WithLine, Document
  <2>2. all \in Seq(Bus) /\ Len(all) = Len(s) + 1 /\ DOMAIN all = 1..(Len(s) + 1)
    BY <1>1
  <2>3. all[Len(s) + 1] = entry /\ \A i \in DOMAIN s : all[i] = s[i]
    BY <1>1
  <2>4. {all[i].name : i \in DOMAIN all} = BusNames(d) \cup {name}
    <3>1. DOMAIN all = DOMAIN s \cup {Len(s) + 1}
      BY <1>1, <2>2
    <3>2. entry.name = name
      OBVIOUS
    <3> HIDE DEF all, entry
    <3> QED
      BY <2>3, <3>1, <3>2 DEF BusNames
  <2>5. NamesApart(s) => NamesApart(all)
    <3>1. DOMAIN all = DOMAIN s \cup {Len(s) + 1}
      BY <1>1, <2>2
    <3>2. entry.name = name /\ \A i \in DOMAIN s : s[i].name # name
      BY <1>3 DEF BusNames
    <3> HIDE DEF all, entry, name
    <3> QED
      BY <2>3, <3>1, <3>2 DEF NamesApart
  <2>6. Entries(new, all, DOMAIN all)
    BY <2>2, SortedLines
  <2> HIDE DEF new, all, entry
  <2>7. SameButLines(d, e) /\ e.buses = new
    BY <2>1, <2>6 DEF SameButLines, Document, Entries
  <2> QED
    BY <2>4, <2>5, <2>6, <2>7 DEF Entries, BusNames
<1> QED
  BY <1>2, <1>3

LEMMA WithLineOnIs ==
  ASSUME NEW d \in Document, NEW line \in Line, NEW on \in BOOLEAN
  PROVE  LET e == WithLineOn(d, line, on) IN
           /\ SameButLines(d, e)
           /\ DOMAIN e.buses = DOMAIN d.buses /\ Len(e.buses) = Len(d.buses)
           /\ \A i \in DOMAIN d.buses : /\ e.buses[i].name = d.buses[i].name
                                        /\ e.buses[i].sound = d.buses[i].sound
           /\ BusNames(e) = BusNames(d)
           /\ NamesApart(d.buses) => NamesApart(e.buses)
<1> DEFINE e == WithLineOn(d, line, on)
           s == d.buses
           name == BusOf(d, line)
           new == [i \in DOMAIN s |-> IF s[i].name = name THEN [s[i] EXCEPT !.on = on] ELSE s[i]]
<1>1. s \in Seq(Bus) /\ e = [d EXCEPT !.buses = new]
  BY DEF WithLineOn, Document
<1>2. \A i \in DOMAIN s : /\ new[i] \in Bus
                          /\ new[i].name = s[i].name
                          /\ new[i].sound = s[i].sound
  <2> TAKE i \in DOMAIN s
  <2>1. s[i] \in Bus
    BY <1>1
  <2>2. [s[i] EXCEPT !.on = on] \in Bus /\ [s[i] EXCEPT !.on = on].name = s[i].name
        /\ [s[i] EXCEPT !.on = on].sound = s[i].sound
    BY <2>1 DEF Bus
  <2> QED
    BY <2>1, <2>2
<1>3. new \in Seq(Bus) /\ DOMAIN new = DOMAIN s /\ Len(new) = Len(s)
  <2>1. DOMAIN s = 1..Len(s) /\ Len(s) \in Nat
    BY <1>1
  <2>2. new = [i \in 1..Len(s) |-> new[i]] /\ \A i \in 1..Len(s) : new[i] \in Bus
    BY <1>2, <2>1
  <2> HIDE DEF new
  <2> QED
    BY <2>1, <2>2
<1> HIDE DEF new
<1>4. SameButLines(d, e) /\ e.buses = new
  BY <1>1, <1>3 DEF SameButLines, Document
<1> QED
  BY <1>2, <1>3, <1>4 DEF BusNames, NamesApart

LEMMA WithoutLineIs ==
  ASSUME NEW d \in Document, NEW line \in Line
  PROVE  LET e == WithoutLine(d, line) IN
           /\ e \in Document /\ e.legacy = d.legacy /\ e.service = d.service
           /\ e.points = {p \in d.points : p.bus # BusOf(d, line)}
           /\ BusNames(e) = BusNames(d) \ {BusOf(d, line)}
           /\ NamesApart(d.buses) => NamesApart(e.buses)
<1> DEFINE e == WithoutLine(d, line)
           new == OtherLines(d, BusOf(d, line))
           left == {p \in d.points : p.bus # BusOf(d, line)}
<1>1. e = [d EXCEPT !.buses = new, !.points = left]
  BY DEF WithoutLine, Document
<1>2. left \in SUBSET Point
  BY DEF Document
<1>3. /\ new \in Seq(Bus)
      /\ {new[i].name : i \in DOMAIN new} = BusNames(d) \ {BusOf(d, line)}
      /\ NamesApart(d.buses) => NamesApart(new)
  BY OtherLinesAre
<1> HIDE DEF new, left
<1>4. /\ e \in Document /\ e.legacy = d.legacy /\ e.service = d.service
      /\ e.points = left /\ e.buses = new
  BY <1>1, <1>2, <1>3 DEF Document
<1> QED
  BY <1>3, <1>4 DEF left, BusNames

-----------------------------------------------------------------------------
(* What the tools for devices make of a document.                          *)

LEMMA SmallestIs ==
  ASSUME NEW S, S \subseteq Nat, S # {}
  PROVE  SmallestOf(S) \in S /\ \A y \in S : SmallestOf(S) <= y
BY SmallestExists DEF SmallestOf

LEMMA WritableIs ==
  ASSUME NEW r \in Point, NEW b \in BOOLEAN
  PROVE  [r EXCEPT !.writable = b] \in Point
BY DEF Point

LEMMA PublishedIs ==
  ASSUME NEW r \in Point, NEW b \in BOOLEAN
  PROVE  [r EXCEPT !.published = b] \in Point
BY DEF Point

(* The points the tools make for one channel.                              *)
LEMMA TrmPointIs ==
  ASSUME NEW bus \in DOMAIN NameOrder, NEW device \in 1..MaxDevices, NEW base \in Nat,
         NEW c \in 1..TRM138_CHANNEL_COUNT, NEW p \in TrmPoints(bus, device, base, c)
  PROVE  /\ p \in Point /\ p.enabled = None
         /\ p.bus = bus /\ p.device = device /\ p.slave = base /\ p.address = base + c - 1
<1>1. base + c - 1 \in Nat /\ c \in Nat /\ ValueRegister(c) \in Nat /\ SetpointRegister(c) \in Nat
      /\ StatusRegister(c) \in Nat
  BY DEF TRM138_CHANNEL_COUNT, ValueRegister, SetpointRegister, StatusRegister,
         TRM138_REGISTER_BASE, TRM138_SETPOINT_BASE, TRM138_STATUS_BASE, TRM138_TIME_MARK_BASE
<1>2. ASSUME NEW parameter \in {"rEAd", "C.SP", "AL.t"}, NEW start \in Nat, NEW width \in 1..2
      PROVE  LET q == TrmPoint(bus, device, base, c, parameter, start, width) IN
               /\ q \in Point /\ q.enabled = None
               /\ q.bus = bus /\ q.device = device /\ q.slave = base /\ q.address = base + c - 1
  <2>1. <<base, c, parameter>> \in PointName
    BY <1>1 DEF PointName
  <2> QED
    BY <1>1, <2>1 DEF TrmPoint, Point, RegisterType
<1> HIDE DEF ValueRegister, SetpointRegister, StatusRegister
<1> DEFINE q(parameter, start, width) == TrmPoint(bus, device, base, c, parameter, start, width)
<1>3. CASE p = [q("rEAd", ValueRegister(c), 2) EXCEPT !.channelStatus = StatusRegister(c)]
  <2>1. q("rEAd", ValueRegister(c), 2) \in Point
    BY <1>1, <1>2
  <2> QED
    BY <1>1, <1>2, <1>3, <2>1 DEF Point
<1>4. CASE p = [q("C.SP", SetpointRegister(c), 2) EXCEPT !.writable = TRUE]
  <2> DEFINE r == q("C.SP", SetpointRegister(c), 2)
  <2>1. /\ r \in Point /\ r.enabled = None
        /\ r.bus = bus /\ r.device = device /\ r.slave = base /\ r.address = base + c - 1
    BY <1>1, <1>2
  <2> HIDE DEF r
  <2>2. p = [r EXCEPT !.writable = TRUE]
    BY <1>4 DEF r
  <2>3. p \in Point
    BY <2>1, <2>2, WritableIs
  <2>4. /\ p.enabled = None
        /\ p.bus = bus /\ p.device = device /\ p.slave = base /\ p.address = base + c - 1
    BY <2>1, <2>2 DEF Point
  <2> QED
    BY <2>3, <2>4
<1>5. CASE p = [q("AL.t", 0, 1) EXCEPT !.published = FALSE]
  <2> DEFINE r == q("AL.t", 0, 1)
  <2>1. /\ r \in Point /\ r.enabled = None
        /\ r.bus = bus /\ r.device = device /\ r.slave = base /\ r.address = base + c - 1
    BY <1>2
  <2> HIDE DEF r
  <2>2. p = [r EXCEPT !.published = FALSE]
    BY <1>5 DEF r
  <2>3. p \in Point
    BY <2>1, <2>2, PublishedIs
  <2>4. /\ p.enabled = None
        /\ p.bus = bus /\ p.device = device /\ p.slave = base /\ p.address = base + c - 1
    BY <2>1, <2>2 DEF Point
  <2> QED
    BY <2>3, <2>4
<1> QED
  BY <1>3, <1>4, <1>5 DEF TrmPoints

LEMMA DevicePointsAre ==
  ASSUME NEW bus \in DOMAIN NameOrder, NEW device \in 1..MaxDevices, NEW base \in Nat,
         NEW channels \in SUBSET Channel
  PROVE  /\ IsFiniteSet(DevicePointsOf(bus, device, base, channels))
         /\ \A p \in DevicePointsOf(bus, device, base, channels) :
              /\ p \in Point /\ p.enabled = None
              /\ p.bus = bus /\ p.device = device /\ p.slave = base
              /\ \E c \in channels : p \in TrmPoints(bus, device, base, c) /\ p.address = base + c - 1
<1> DEFINE made == {TrmPoints(bus, device, base, c) : c \in channels}
           f == [c \in channels |-> TrmPoints(bus, device, base, c)]
<1>1. \A c \in channels : c \in 1..TRM138_CHANNEL_COUNT
  BY ToolsAssumption
<1>2. IsFiniteSet(channels)
  <2>1. IsFiniteSet(1..TRM138_CHANNEL_COUNT)
    <3>1. TRM138_CHANNEL_COUNT \in Int
      BY DEF TRM138_CHANNEL_COUNT
    <3> QED
      BY <3>1, FS_Interval
  <2> QED
    BY <1>1, <2>1, FS_Subset
<1>3. IsFiniteSet(made)
  <2>1. f \in Surjection(channels, made)
    BY DEF Surjection
  <2> HIDE DEF f, made
  <2> QED
    BY <1>2, <2>1, FS_Surjection
<1>4. \A T \in made : IsFiniteSet(T)
  <2>1. \A x, y, z : IsFiniteSet({x, y, z})
    <3> TAKE x, y, z
    <3>1. IsFiniteSet({x}) /\ IsFiniteSet({y}) /\ IsFiniteSet({z})
      BY FS_Singleton
    <3>2. IsFiniteSet({x} \cup {y})
      BY <3>1, FS_Union
    <3>3. IsFiniteSet(({x} \cup {y}) \cup {z})
      BY <3>1, <3>2, FS_Union
    <3>4. {x, y, z} = ({x} \cup {y}) \cup {z}
      OBVIOUS
    <3> QED
      BY <3>3, <3>4
  <2>2. \A c \in channels : \E x, y, z : TrmPoints(bus, device, base, c) = {x, y, z}
    BY Zenon DEF TrmPoints
  <2>3. \A T \in made : \E c \in channels : T = TrmPoints(bus, device, base, c)
    OBVIOUS
  <2> HIDE DEF made
  <2> TAKE T \in made
  <2>4. PICK c \in channels : T = TrmPoints(bus, device, base, c)
    BY <2>3
  <2>5. PICK x, y, z : T = {x, y, z}
    BY <2>2, <2>4
  <2> QED
    BY <2>1, <2>5
<1>5. IsFiniteSet(UNION made)
  <2> HIDE DEF made
  <2> QED
    BY <1>3, <1>4, FS_UNION
<1>6. \A p \in DevicePointsOf(bus, device, base, channels) :
         \E c \in channels : p \in TrmPoints(bus, device, base, c)
  BY DEF DevicePointsOf
<1> QED
  BY <1>1, <1>5, <1>6, TrmPointIs DEF DevicePointsOf

(* Where a point of a new device belongs.                                  *)
LEMMA MadeFor ==
  ASSUME NEW bus \in DOMAIN NameOrder, NEW device \in 1..MaxDevices, NEW base \in Nat,
         NEW channels \in SUBSET Channel, NEW p \in DevicePointsOf(bus, device, base, channels)
  PROVE  p.bus = bus /\ p.device = device
<1> DEFINE made == DevicePointsOf(bus, device, base, channels)
<1>1. \A q \in made :
        /\ q \in Point /\ q.enabled = None
        /\ q.bus = bus /\ q.device = device /\ q.slave = base
        /\ \E c \in channels : q \in TrmPoints(bus, device, base, c) /\ q.address = base + c - 1
  BY DevicePointsAre
<1>2. p \in made
  OBVIOUS
<1> HIDE DEF made
<1> QED
  BY <1>1, <1>2

(* A point the tools made, whatever was switched on it since.              *)
ToolPoint(p) ==
  /\ p.slave \in Nat
  /\ \E c \in Channel : [p EXCEPT !.enabled = None] \in TrmPoints(p.bus, p.device, p.slave, c)

(* Points of a document that only the tools have edited.                   *)
ToolPoints(points, names) ==
  /\ \A p \in points : ToolPoint(p) /\ p.bus \in names
  /\ \A p, q \in points : DeviceKey(p) = DeviceKey(q) => p.slave = q.slave

LEMMA UnswitchedIs ==
  ASSUME NEW p \in Point
  PROVE  p.enabled = None => [p EXCEPT !.enabled = None] = p
BY DEF Point

(* A part of the points is as good as all of them.                         *)
LEMMA PartIs ==
  ASSUME NEW points, NEW part \in SUBSET points, NEW names, NEW left, ToolPoints(points, names),
         \A p \in part : p.bus \in left
  PROVE  ToolPoints(part, left)
BY DEF ToolPoints

(* A new device next to the others.                                        *)
LEMMA AddedAre ==
  ASSUME NEW points \in SUBSET Point, NEW names, ToolPoints(points, names),
         NEW bus \in DOMAIN NameOrder, bus \in names,
         NEW device \in 1..MaxDevices, NEW base \in Nat, NEW channels \in SUBSET Channel,
         \A p \in points : p.bus = bus => p.device # device
  PROVE  ToolPoints(points \cup DevicePointsOf(bus, device, base, channels), names)
<1> DEFINE made == DevicePointsOf(bus, device, base, channels)
<1>1. \A p \in made :
        /\ p \in Point /\ p.enabled = None
        /\ p.bus = bus /\ p.device = device /\ p.slave = base
        /\ \E c \in channels : p \in TrmPoints(bus, device, base, c)
  BY DevicePointsAre
<1> HIDE DEF made
<1>2. \A p \in made : ToolPoint(p) /\ p.bus \in names
  <2> TAKE p \in made
  <2>1. [p EXCEPT !.enabled = None] = p
    BY <1>1, UnswitchedIs
  <2> QED
    BY <1>1, <2>1 DEF ToolPoint
<1>3. ASSUME NEW p \in points \cup made, NEW q \in points \cup made, DeviceKey(p) = DeviceKey(q)
      PROVE  p.slave = q.slave
  <2>1. p.bus = q.bus /\ p.device = q.device
    BY <1>3 DEF DeviceKey
  <2> QED
    BY <1>1, <1>3, <2>1 DEF ToolPoints
<1> QED
  BY <1>2, <1>3 DEF ToolPoints, made

(* Points some of which were switched.                                     *)
Switched(part, on) == {[p EXCEPT !.enabled = on] : p \in part}

LEMMA SwitchedAre ==
  ASSUME NEW part \in SUBSET Point, NEW on \in BOOLEAN, NEW n \in Switched(part, on)
  PROVE  /\ n \in Point /\ n.enabled = on
         /\ \E p \in part :
              /\ n.bus = p.bus /\ n.device = p.device /\ n.slave = p.slave
              /\ n.address = p.address /\ n.parameter = p.parameter
              /\ [n EXCEPT !.enabled = None] = [p EXCEPT !.enabled = None]
<1>1. ASSUME NEW p \in Point
      PROVE  LET m == [p EXCEPT !.enabled = on] IN
               /\ m \in Point /\ m.enabled = on
               /\ m.bus = p.bus /\ m.device = p.device /\ m.slave = p.slave
               /\ m.address = p.address /\ m.parameter = p.parameter
               /\ [m EXCEPT !.enabled = None] = [p EXCEPT !.enabled = None]
  BY DEF Point
<1>2. PICK p \in part : n = [p EXCEPT !.enabled = on]
  BY DEF Switched
<1> QED
  BY <1>1, <1>2

LEMMA SwitchedFrom ==
  ASSUME NEW points \in SUBSET Point, NEW part \in SUBSET points, NEW on \in BOOLEAN,
         NEW n \in (points \ part) \cup Switched(part, on)
  PROVE  \E p \in points :
           /\ n.bus = p.bus /\ n.device = p.device /\ n.slave = p.slave
           /\ n.address = p.address
           /\ n # p => p \in part
<1>1. CASE n \in points \ part
  BY <1>1
<1>2. CASE n \in Switched(part, on)
  <2>1. PICK p \in part : n = [p EXCEPT !.enabled = on]
    BY <1>2 DEF Switched
  <2>2. p \in Point /\ p \in points
    OBVIOUS
  <2>3. /\ n.bus = p.bus /\ n.device = p.device /\ n.slave = p.slave
        /\ n.address = p.address
    BY <2>1, <2>2 DEF Point
  <2> QED
    BY <2>2, <2>3
<1> QED
  BY <1>1, <1>2

LEMMA SwitchedKeep ==
  ASSUME NEW points \in SUBSET Point, NEW part \in SUBSET points, NEW on \in BOOLEAN, NEW names,
         ToolPoints(points, names)
  PROVE  ToolPoints((points \ part) \cup Switched(part, on), names)
<1> DEFINE new == Switched(part, on)
           all == (points \ part) \cup new
<1>1. \A n \in new : \E p \in part :
        /\ n.bus = p.bus /\ n.device = p.device /\ n.slave = p.slave
        /\ [n EXCEPT !.enabled = None] = [p EXCEPT !.enabled = None]
  BY SwitchedAre
<1> HIDE DEF new
<1>2. \A n \in all : \E p \in points :
        /\ n.bus = p.bus /\ n.device = p.device /\ n.slave = p.slave
        /\ [n EXCEPT !.enabled = None] = [p EXCEPT !.enabled = None]
  BY <1>1
<1> HIDE DEF all
<1>3. \A n \in all : ToolPoint(n) /\ n.bus \in names
  BY <1>2 DEF ToolPoints, ToolPoint
<1>4. ASSUME NEW m \in all, NEW n \in all, DeviceKey(m) = DeviceKey(n) PROVE m.slave = n.slave
  <2>1. PICK p \in points : m.bus = p.bus /\ m.device = p.device /\ m.slave = p.slave
    BY <1>2
  <2>2. PICK q \in points : n.bus = q.bus /\ n.device = q.device /\ n.slave = q.slave
    BY <1>2
  <2> QED
    BY <1>4, <2>1, <2>2 DEF ToolPoints, DeviceKey
<1> QED
  BY <1>3, <1>4 DEF ToolPoints, all, new

-----------------------------------------------------------------------------
(* What every tool keeps.                                                  *)

(* Of any document.                                                        *)
Sound(d) ==
  /\ d \in Document
  /\ IsFiniteSet(d.points)
  /\ IsFiniteSet(d.service.status) /\ IsFiniteSet(d.service.telemetry)
  /\ d.legacy => Len(d.buses) = 1

(* Of a document whose points all come from the tools.                     *)
ToolMade(d) ==
  /\ d.legacy => d.points = {}
  /\ NamesApart(d.buses)
  /\ TemplateService(d.service)
  /\ ToolPoints(d.points, BusNames(d))

(* e is a step of a tool away from d.                                      *)
Keeps(d, e) == Sound(e) /\ ~e.legacy /\ (ToolMade(d) => ToolMade(e))

LEMMA NormalizedKeeps ==
  ASSUME NEW d, Sound(d)
  PROVE  Keeps(d, Normalized(d)) /\ Normalized(d).points = d.points
<1> DEFINE e == Normalized(d)
           f == [d EXCEPT !.legacy = FALSE]
<1>1. /\ SameButLines(f, e)
      /\ ~d.legacy => e = d
      /\ NamesApart(d.buses) => NamesApart(e.buses)
  BY NormalizedIs DEF Sound
<1>2. ~f.legacy /\ f.points = d.points /\ f.service = d.service
  BY DEF Sound, Document
<1> HIDE DEF e, f
<1>3. e \in Document /\ ~e.legacy /\ e.points = d.points /\ e.service = d.service
  BY <1>1, <1>2 DEF SameButLines
<1>4. Sound(e)
  BY <1>3 DEF Sound
<1>5. ASSUME ToolMade(d) PROVE ToolPoints(e.points, BusNames(e))
  <2>1. CASE ~d.legacy
    BY <1>1, <1>5, <2>1 DEF ToolMade
  <2>2. CASE d.legacy
    BY <1>3, <1>5, <2>2 DEF ToolMade, ToolPoints
  <2> QED
    BY <2>1, <2>2 DEF Sound, Document
<1> QED
  BY <1>1, <1>3, <1>4, <1>5 DEF Keeps, ToolMade, e

(* The tools below start from a document that was loaded.                  *)
LEMMA SameButLinesKeeps ==
  ASSUME NEW d, NEW e, Sound(d), ~d.legacy, SameButLines(d, e),
         BusNames(d) \subseteq BusNames(e), NamesApart(d.buses) => NamesApart(e.buses)
  PROVE  Keeps(d, e)
<1>1. Sound(e) /\ ~e.legacy /\ e.points = d.points /\ e.service = d.service
  BY DEF Sound, SameButLines
<1> QED
  BY <1>1 DEF Keeps, ToolMade, ToolPoints

LEMMA WithoutLineKeeps ==
  ASSUME NEW d, Sound(d), ~d.legacy, NEW line \in Line
  PROVE  Keeps(d, WithoutLine(d, line))
<1> DEFINE e == WithoutLine(d, line)
           name == BusOf(d, line)
<1>1. /\ e \in Document /\ e.legacy = d.legacy /\ e.service = d.service
      /\ e.points = {p \in d.points : p.bus # name}
      /\ BusNames(e) = BusNames(d) \ {name}
      /\ NamesApart(d.buses) => NamesApart(e.buses)
  BY WithoutLineIs DEF Sound
<1> HIDE DEF e, name
<1>2. e.points \in SUBSET d.points
  BY <1>1
<1>3. Sound(e) /\ ~e.legacy
  BY <1>1, <1>2, FS_Subset DEF Sound
<1>4. ASSUME ToolMade(d) PROVE ToolPoints(e.points, BusNames(e))
  BY <1>1, <1>2, <1>4 DEF ToolMade, ToolPoints
<1> QED
  BY <1>1, <1>3, <1>4 DEF Keeps, ToolMade, e

(* The tools for devices change the points only.                           *)
LEMMA NewPointsKeep ==
  ASSUME NEW d, Sound(d), ~d.legacy, NEW points \in SUBSET Point, IsFiniteSet(points),
         ToolMade(d) => ToolPoints(points, BusNames(d))
  PROVE  Keeps(d, [d EXCEPT !.points = points])
<1> DEFINE e == [d EXCEPT !.points = points]
<1>1. /\ e \in Document /\ e.legacy = d.legacy /\ e.service = d.service
      /\ e.points = points /\ e.buses = d.buses
  BY DEF Sound, Document
<1> HIDE DEF e
<1>2. BusNames(e) = BusNames(d)
  BY <1>1 DEF BusNames
<1>3. Sound(e) /\ ~e.legacy
  BY <1>1 DEF Sound
<1> QED
  BY <1>1, <1>2, <1>3 DEF Keeps, ToolMade, e

LEMMA BusOfIs ==
  ASSUME NEW d, NEW line \in Line
  PROVE  BusOf(d, line) \in DOMAIN NameOrder
BY LineNames DEF BusOf

LEMMA AddedKeeps ==
  ASSUME NEW d, Sound(d), ~d.legacy, NEW bus \in DOMAIN NameOrder, bus \in BusNames(d),
         NEW device \in 1..MaxDevices, device \notin DevicesOf(d, bus),
         NEW base \in Nat, NEW channels \in SUBSET Channel
  PROVE  Keeps(d, [d EXCEPT !.points = @ \cup DevicePointsOf(bus, device, base, channels)])
<1> DEFINE made == DevicePointsOf(bus, device, base, channels)
           points == d.points \cup made
<1>1. d.points \in SUBSET Point /\ IsFiniteSet(d.points) /\ d \in Document
  BY DEF Sound, Document
<1>2. made \in SUBSET Point /\ IsFiniteSet(made)
  BY DevicePointsAre
<1>3. points \in SUBSET Point /\ IsFiniteSet(points)
  <2> HIDE DEF made
  <2> QED
    BY <1>1, <1>2, FS_Union
<1>4. ASSUME ToolMade(d) PROVE ToolPoints(points, BusNames(d))
  <2>1. \A p \in d.points : p.bus = bus => p.device # device
    BY DEF DevicesOf
  <2> QED
    BY <1>1, <1>4, <2>1, AddedAre DEF ToolMade
<1>5. [d EXCEPT !.points = @ \cup made] = [d EXCEPT !.points = points]
  BY <1>1 DEF Document
<1> HIDE DEF points
<1> QED
  BY <1>3, <1>4, <1>5, NewPointsKeep

LEMMA WithoutDeviceKeeps ==
  ASSUME NEW d, Sound(d), ~d.legacy, NEW bus, NEW device
  PROVE  Keeps(d, WithoutDevice(d, bus, device))
<1> DEFINE points == d.points \ PointsOf(d, bus, device)
<1>1. points \in SUBSET d.points /\ d.points \in SUBSET Point /\ d \in Document
  BY DEF Sound, Document
<1> HIDE DEF points
<1>2. points \in SUBSET Point /\ IsFiniteSet(points)
  BY <1>1, FS_Subset DEF Sound
<1>3. ASSUME ToolMade(d) PROVE ToolPoints(points, BusNames(d))
  BY <1>1, <1>3 DEF ToolMade, ToolPoints
<1>4. WithoutDevice(d, bus, device) = [d EXCEPT !.points = points]
  BY <1>1 DEF WithoutDevice, Document, points
<1> QED
  BY <1>2, <1>3, <1>4, NewPointsKeep

LEMMA ReadBase ==
  ASSUME NEW d, Sound(d), NEW bus, NEW device, ReadAddresses(d, bus, device) # {}
  PROVE  LET S == ReadAddresses(d, bus, device) IN
           /\ SmallestOf(S) \in S /\ SmallestOf(S) \in Nat
           /\ \A a \in S : SmallestOf(S) <= a
<1>1. ReadAddresses(d, bus, device) \subseteq Nat
  BY DEF ReadAddresses, AddressesOf, PointsOf, Sound, Document, Point
<1> QED
  BY <1>1, SmallestIs

LEMMA WithChannelsKeeps ==
  ASSUME NEW d, Sound(d), ~d.legacy, NEW line \in Line, NEW device \in DevicesOf(d, BusOf(d, line)),
         ReadAddresses(d, BusOf(d, line), device) # {}, NEW channels \in SUBSET Channel
  PROVE  Keeps(d, WithChannels(d, BusOf(d, line), device, channels))
<1> DEFINE bus == BusOf(d, line)
           base == SmallestOf(ReadAddresses(d, bus, device))
           e == WithoutDevice(d, bus, device)
           made == DevicePointsOf(bus, device, base, channels)
<1>1. PICK p \in d.points : p.bus = bus /\ p.device = device
  BY DEF DevicesOf
<1>2. bus \in DOMAIN NameOrder /\ device \in 1..MaxDevices /\ base \in Nat
  <2>1. p \in Point
    BY DEF Sound, Document
  <2> QED
    BY <1>1, <2>1, BusOfIs, ReadBase DEF Point
<1>3. Keeps(d, e) /\ d \in Document
  BY WithoutDeviceKeeps DEF Sound
<1>4. /\ e \in Document /\ e.buses = d.buses
      /\ e.points = d.points \ PointsOf(d, bus, device)
  BY <1>3 DEF WithoutDevice, Document
<1>5. device \notin DevicesOf(e, bus)
  BY <1>4 DEF DevicesOf, PointsOf
<1>6. WithChannels(d, bus, device, channels) = [e EXCEPT !.points = @ \cup made]
  BY DEF WithChannels
<1> HIDE DEF e, made, bus, base
<1>7. made \in SUBSET Point /\ IsFiniteSet(made)
  BY <1>2, DevicePointsAre DEF made
<1> DEFINE points == e.points \cup made
<1>8. points \in SUBSET Point /\ IsFiniteSet(points)
  BY <1>3, <1>4, <1>7, FS_Union DEF Keeps, Sound, Document
<1>9. ASSUME ToolMade(d) PROVE ToolPoints(points, BusNames(e))
  <2>1. ToolPoints(d.points, BusNames(d)) /\ BusNames(e) = BusNames(d)
    BY <1>4, <1>9 DEF ToolMade, BusNames
  <2>2. bus \in BusNames(e)
    BY <1>1, <2>1 DEF ToolPoints
  <2>3. ToolPoints(e.points, BusNames(e)) /\ e.points \in SUBSET Point
    BY <1>3, <1>4, <1>9 DEF Keeps, ToolMade, Document
  <2>4. \A q \in e.points : q.bus = bus => q.device # device
    BY <1>5 DEF DevicesOf
  <2> QED
    BY <1>2, <2>2, <2>3, <2>4, AddedAre DEF made
<1>10. [e EXCEPT !.points = @ \cup made] = [e EXCEPT !.points = points]
  BY <1>4 DEF Document
<1> HIDE DEF points
<1>11. CASE ToolMade(d)
  BY <1>3, <1>6, <1>8, <1>9, <1>10, <1>11, NewPointsKeep DEF Keeps, bus
<1>12. CASE ~ToolMade(d)
  <2> DEFINE new == [e EXCEPT !.points = points]
  <2>1. /\ new \in Document /\ new.legacy = e.legacy /\ new.service = e.service
        /\ new.points = points /\ new.buses = e.buses
    BY <1>4, <1>8 DEF Document
  <2> HIDE DEF new
  <2>2. Sound(new) /\ ~new.legacy
    BY <1>3, <1>8, <2>1 DEF Keeps, Sound
  <2> QED
    BY <1>6, <1>10, <1>12, <2>2 DEF Keeps, bus, new
<1> QED
  BY <1>11, <1>12

LEMMA ToggledKeeps ==
  ASSUME NEW d, Sound(d), ~d.legacy, NEW part \in SUBSET d.points, NEW on \in BOOLEAN
  PROVE  Keeps(d, Toggled(d, part, on))
<1> DEFINE new == Switched(part, on)
           points == (d.points \ part) \cup new
           f == [p \in part |-> [p EXCEPT !.enabled = on]]
<1>1. d \in Document /\ d.points \in SUBSET Point /\ IsFiniteSet(d.points) /\ part \in SUBSET Point
  BY DEF Sound, Document
<1>2. new \subseteq Point
  BY <1>1, SwitchedAre
<1>3. IsFiniteSet(new) /\ IsFiniteSet(d.points \ part)
  <2>1. f \in Surjection(part, new)
    BY DEF Surjection, Switched
  <2>2. IsFiniteSet(part) /\ IsFiniteSet(d.points \ part)
    BY <1>1, FS_Subset, FS_Difference
  <2> HIDE DEF f, new
  <2> QED
    BY <2>1, <2>2, FS_Surjection
<1>4. ToolMade(d) => ToolPoints(points, BusNames(d))
  BY <1>1, SwitchedKeep DEF ToolMade
<1>5. Toggled(d, part, on) = [d EXCEPT !.points = points]
  BY <1>1 DEF Toggled, Switched, Document
<1> HIDE DEF new
<1>6. points \in SUBSET Point /\ IsFiniteSet(points)
  BY <1>1, <1>2, <1>3, FS_Union
<1> HIDE DEF points
<1> QED
  BY <1>4, <1>5, <1>6, NewPointsKeep

-----------------------------------------------------------------------------
(* The inductive invariant.                                                *)

IInv ==
  /\ Sound(doc)
  /\ doc.legacy => mapped = None
  /\ byHand \in BOOLEAN
  /\ edits \in Nat
  /\ ~byHand => ToolMade(doc)

LEMMA InitIInv == Init => IInv
<1> SUFFICES ASSUME Init PROVE IInv
  OBVIOUS
<1>1. Sound(doc)
  BY StartAssumption DEF Init, Sound
<1>2. ~byHand => ToolMade(doc)
  BY StartAssumption DEF Init, ToolMade, ToolPoints
<1> QED
  BY <1>1, <1>2, ToolsAssumption DEF Init, IInv

LEMMA LoadedIs ==
  ASSUME IInv
  PROVE  /\ Sound(Loaded) /\ ~Loaded.legacy /\ Loaded.points = doc.points
         /\ ToolMade(doc) => ToolMade(Loaded)
         /\ ~doc.legacy => Loaded = doc
BY NormalizedKeeps DEF IInv, Keeps, Loaded, Normalized

(* Every tool saves what it keeps.                                         *)
LEMMA ToolKeeps ==
  ASSUME IInv, Next
  PROVE  Keeps(Loaded, doc')
<1> DEFINE d == Loaded
<1>1. Sound(d) /\ ~d.legacy /\ d \in Document
  BY LoadedIs DEF Sound
<1> HIDE DEF d
<1>2. CASE SetLine
  <2>1. PICK line \in Line, sound \in BOOLEAN : doc' = WithLine(d, line, sound)
    BY <1>2, ToolsAssumption DEF SetLine, SaveAndMap, Save, d
  <2>2. Keeps(d, WithLine(d, line, sound))
    BY <1>1, WithLineIs, SameButLinesKeeps
  <2> QED
    BY <2>1, <2>2 DEF d
<1>3. CASE ToggleLine
  <2>1. PICK line \in Line, on \in BOOLEAN : doc' = WithLineOn(d, line, on)
    BY <1>3 DEF ToggleLine, SaveOnly, Save, d
  <2>2. Keeps(d, WithLineOn(d, line, on))
    BY <1>1, WithLineOnIs, SameButLinesKeeps
  <2> QED
    BY <2>1, <2>2 DEF d
<1>4. CASE RemoveLine
  <2>1. PICK line \in Line : doc' = WithoutLine(d, line)
    BY <1>4 DEF RemoveLine, SaveAndMap, Save, d
  <2> QED
    BY <1>1, <2>1, WithoutLineKeeps DEF d
<1>5. CASE AddTrm138
  <2>1. PICK line \in Line, base \in Base, channels \in SUBSET Channel, device \in 1..(MaxDevices + 1) :
          /\ Configured(d, line)
          /\ NextDevice(d, BusOf(d, line), device)
          /\ doc' = [d EXCEPT !.points =
                       @ \cup DevicePointsOf(BusOf(d, line), device, base, channels)]
    BY <1>5 DEF AddTrm138, SaveAndMap, Save, d
  <2> DEFINE bus == BusOf(d, line)
  <2>2. bus \in DOMAIN NameOrder /\ bus \in BusNames(d)
    BY <2>1, BusOfIs DEF Configured
  <2>3. device \in 1..MaxDevices /\ device \notin DevicesOf(d, bus) /\ base \in Nat
    BY <2>1, ToolsAssumption DEF NextDevice
  <2> HIDE DEF bus
  <2>4. Keeps(d, [d EXCEPT !.points = @ \cup DevicePointsOf(bus, device, base, channels)])
    BY <1>1, <2>2, <2>3, AddedKeeps
  <2> QED
    BY <2>1, <2>4 DEF d, bus
<1>6. CASE RemoveTrm138
  <2>1. PICK line \in Line :
          \E device \in Selectable(d, BusOf(d, line)) : doc' = WithoutDevice(d, BusOf(d, line), device)
    BY <1>6 DEF RemoveTrm138, SaveAndMap, Save, d
  <2> QED
    BY <1>1, <2>1, WithoutDeviceKeeps DEF d
<1>7. CASE SetTrm138Channels
  <2>1. PICK line \in Line, channels \in SUBSET Channel :
          \E device \in Selectable(d, BusOf(d, line)) :
            /\ ReadAddresses(d, BusOf(d, line), device) # {}
            /\ doc' = WithChannels(d, BusOf(d, line), device, channels)
    BY <1>7 DEF SetTrm138Channels, SaveAndMap, Save, d
  <2>2. PICK device \in DevicesOf(d, BusOf(d, line)) :
          /\ ReadAddresses(d, BusOf(d, line), device) # {}
          /\ doc' = WithChannels(d, BusOf(d, line), device, channels)
    BY <2>1 DEF Selectable
  <2> QED
    BY <1>1, <2>2, WithChannelsKeeps DEF d
<1>8. CASE ToggleChannel
  <2>1. PICK part \in SUBSET d.points, on \in BOOLEAN : doc' = Toggled(d, part, on)
    BY <1>8 DEF ToggleChannel, ToggleSets, ChannelPoints, PointsOf, SaveOnly, Save, d
  <2> QED
    BY <1>1, <2>1, ToggledKeeps DEF d
<1>9. CASE Regenerate
  BY <1>1, <1>9 DEF Regenerate, SaveAndMap, Save, Keeps, d
<1> QED
  BY <1>2, <1>3, <1>4, <1>5, <1>6, <1>7, <1>8, <1>9 DEF Next

LEMMA NextIInv == IInv /\ [Next]_vars => IInv'
<1>1. ASSUME IInv, Next PROVE IInv'
  <2>1. Keeps(Loaded, doc')
    BY <1>1, ToolKeeps
  <2>2. \E new : Save(new)
    BY <1>1 DEF Next, SetLine, ToggleLine, RemoveLine, AddTrm138, RemoveTrm138,
                SetTrm138Channels, ToggleChannel, Regenerate, SaveAndMap, SaveOnly
  <2>3. byHand' = byHand /\ edits' \in Nat
    BY <1>1, <2>2 DEF IInv, Save
  <2> QED
    BY <1>1, <2>1, <2>3, LoadedIs DEF IInv, Keeps
<1>2. ASSUME IInv, UNCHANGED vars PROVE IInv'
  BY <1>2 DEF IInv, vars
<1> QED
  BY <1>1, <1>2

LEMMA Invariance == Spec => []IInv
BY InitIInv, NextIInv, PTL DEF Spec

(* Whatever the tools are asked for, the document stays one: no device gets *)
(* a number beyond the loader's limit.  (config_tools.py:1103-1109)         *)
THEOREM TypeCorrect == Spec => []TypeOK
<1>1. IInv => TypeOK
  BY DEF IInv, TypeOK, Sound
<1> QED
  BY Invariance, <1>1, PTL

-----------------------------------------------------------------------------
(* What the loader makes of the points of the tools.                       *)

LEMMA TrmPointFields ==
  ASSUME NEW bus, NEW device, NEW base, NEW c, NEW p \in TrmPoints(bus, device, base, c)
  PROVE  /\ p.name = <<base, c, p.parameter>> /\ p.address = base + c - 1
         /\ p.bus = bus /\ p.device = device /\ p.slave = base
         /\ p.type = "holding_register" /\ p.timeMark = None /\ p.compatible
         /\ \/ /\ p.parameter = "rEAd" /\ p.start = ValueRegister(c) /\ p.width = 2
               /\ p.channelStatus = StatusRegister(c) /\ p.published /\ ~p.writable
            \/ /\ p.parameter = "C.SP" /\ p.start = SetpointRegister(c) /\ p.width = 2
               /\ p.channelStatus = None /\ p.published /\ p.writable
            \/ /\ p.parameter = "AL.t" /\ p.start = 0 /\ p.width = 1
               /\ p.channelStatus = None /\ ~p.published /\ ~p.writable
<1>1. CASE p = [TrmPoint(bus, device, base, c, "rEAd", ValueRegister(c), 2)
                  EXCEPT !.channelStatus = StatusRegister(c)]
  BY <1>1 DEF TrmPoint
<1>2. CASE p = [TrmPoint(bus, device, base, c, "C.SP", SetpointRegister(c), 2)
                  EXCEPT !.writable = TRUE]
  BY <1>2 DEF TrmPoint
<1>3. CASE p = [TrmPoint(bus, device, base, c, "AL.t", 0, 1) EXCEPT !.published = FALSE]
  BY <1>3 DEF TrmPoint
<1> QED
  BY <1>1, <1>2, <1>3 DEF TrmPoints

(* Two points with one name are one.                                       *)
LEMMA TrmPointUnique ==
  ASSUME NEW bus, NEW device, NEW base, NEW c,
         NEW p \in TrmPoints(bus, device, base, c), NEW q \in TrmPoints(bus, device, base, c),
         p.parameter = q.parameter
  PROVE  p = q
<1> DEFINE r(parameter, start, width) == TrmPoint(bus, device, base, c, parameter, start, width)
           value == [r("rEAd", ValueRegister(c), 2) EXCEPT !.channelStatus = StatusRegister(c)]
           setpoint == [r("C.SP", SetpointRegister(c), 2) EXCEPT !.writable = TRUE]
           char == [r("AL.t", 0, 1) EXCEPT !.published = FALSE]
<1>1. value.parameter = "rEAd" /\ setpoint.parameter = "C.SP" /\ char.parameter = "AL.t"
  BY DEF TrmPoint
<1>2. p \in {value, setpoint, char} /\ q \in {value, setpoint, char}
  BY DEF TrmPoints
<1> HIDE DEF value, setpoint, char
<1> QED
  BY <1>1, <1>2

(* A point on which nothing was switched is one of the three of a channel. *)
LEMMA PointOfChannel ==
  ASSUME NEW p \in Point, ToolPoint(p), p.enabled = None
  PROVE  \E c \in Channel : p \in TrmPoints(p.bus, p.device, p.slave, c)
BY UnswitchedIs DEF ToolPoint

(* The points of the tools name line and SlaveID: nothing is left to        *)
(* resolve.                                                                *)
LEMMA NothingToResolve ==
  ASSUME NEW d, Sound(d), ToolMade(d)
  PROVE  /\ LoadedPoints(d) = d.points
         /\ Resolve(d) = d.points
         /\ \A dev \in DeviceKeys(d.points) : Cardinality(ExplicitIds(d.points, dev)) = 1
<1>1. ASSUME NEW p \in d.points
      PROVE  p \in Point /\ p.bus # None /\ p.slave # None /\ p.slave \in Nat
  <2>1. None \notin DOMAIN NameOrder
    BY ToolsAssumption
  <2>2. \A i \in DOMAIN d.buses : d.buses[i] \in Bus
    BY DEF Sound, Document
  <2>3. \A i \in DOMAIN d.buses : d.buses[i].name # None
    BY <2>1, <2>2 DEF Bus
  <2>4. p \in Point /\ p.bus \in BusNames(d) /\ p.slave \in Nat
    BY DEF ToolMade, ToolPoints, ToolPoint, Sound, Document
  <2>5. p.bus # None
    BY <2>3, <2>4 DEF BusNames
  <2>6. p.slave # None
    BY <2>4, LoaderAssumption
  <2> QED
    BY <2>4, <2>5, <2>6
<1>2. \A p \in d.points : LoadPoint(d, p) = p
  BY <1>1 DEF LoadPoint
<1>3. LoadedPoints(d) = d.points
  BY <1>2 DEF LoadedPoints
<1>4. ASSUME NEW p \in d.points PROVE ExplicitIds(d.points, DeviceKey(p)) = {p.slave}
  <2>1. \A q \in DevicePoints(d.points, DeviceKey(p)) : q.slave = p.slave
    BY DEF DevicePoints, ToolMade, ToolPoints
  <2>2. p \in DevicePoints(d.points, DeviceKey(p))
    BY DEF DevicePoints
  <2> QED
    BY <1>1, <2>1, <2>2 DEF ExplicitIds, Present
<1>5. ASSUME NEW p \in d.points PROVE ResolvedId(d.points, DeviceKey(p)) = p.slave
  BY <1>4 DEF ResolvedId
<1>6. Resolve(d) = d.points
  <2> DEFINE id == [dev \in DeviceKeys(d.points) |-> ResolvedId(d.points, dev)]
  <2>1. \A p \in d.points : id[DeviceKey(p)] = p.slave
    BY <1>5 DEF DeviceKeys
  <2>2. Resolve(d) = {[p EXCEPT !.slave = id[DeviceKey(p)]] : p \in d.points}
    BY <1>3 DEF Resolve
  <2> HIDE DEF id
  <2>3. \A p \in d.points : [p EXCEPT !.slave = id[DeviceKey(p)]] = p
    BY <1>1, <2>1 DEF Point
  <2> QED
    BY <2>2, <2>3
<1>7. ASSUME NEW dev \in DeviceKeys(d.points) PROVE Cardinality(ExplicitIds(d.points, dev)) = 1
  <2>1. PICK p \in d.points : dev = DeviceKey(p)
    BY DEF DeviceKeys
  <2>2. ExplicitIds(d.points, dev) = {p.slave}
    BY <1>4, <2>1
  <2> QED
    BY <2>2, FS_Singleton
<1> QED
  BY <1>3, <1>6, <1>7

-----------------------------------------------------------------------------
(* Which documents of the tools the loader accepts.                        *)

LEMMA ChannelRegisters ==
  ASSUME NEW c \in 1..TRM138_CHANNEL_COUNT
  PROVE  /\ c \in 1..8
         /\ ValueRegister(c) = 2 * c + 14
         /\ StatusRegister(c) = c + 39
         /\ SetpointRegister(c) = 2 * c + 54
BY DEF TRM138_CHANNEL_COUNT, ValueRegister, SetpointRegister, StatusRegister,
       TRM138_REGISTER_BASE, TRM138_SETPOINT_BASE, TRM138_STATUS_BASE, TRM138_TIME_MARK_BASE

(* The registers of a channel: two and a status of the measured value, two *)
(* of the setpoint.                                                        *)
LEMMA ClaimsOfChannel ==
  ASSUME NEW c \in 1..TRM138_CHANNEL_COUNT, NEW bus, NEW device, NEW base,
         NEW p \in TrmPoints(bus, device, base, c), p.published, NEW a \in Claims(p)
  PROVE  \/ p.parameter = "rEAd" /\ a \in {2 * c + 14, 2 * c + 15, c + 39}
         \/ p.parameter = "C.SP" /\ a \in {2 * c + 54, 2 * c + 55}
<1>1. p.timeMark = None
  BY TrmPointFields
<1>2. CASE p.parameter = "rEAd"
  <2>1. p.start = 2 * c + 14 /\ p.width = 2 /\ p.channelStatus = c + 39 /\ c \in 1..8
    BY <1>2, TrmPointFields, ChannelRegisters
  <2>2. a \in Span(2 * c + 14, 2) \cup {c + 39}
    BY <1>1, <2>1 DEF Claims, Present
  <2> QED
    BY <1>2, <2>1, <2>2 DEF Span
<1>3. CASE p.parameter = "C.SP"
  <2>1. p.start = 2 * c + 54 /\ p.width = 2 /\ p.channelStatus = None /\ c \in 1..8
    BY <1>3, TrmPointFields, ChannelRegisters
  <2>2. a \in Span(2 * c + 54, 2)
    BY <1>1, <2>1 DEF Claims, Present
  <2> QED
    BY <1>3, <2>1, <2>2 DEF Span
<1>4. CASE p.parameter = "AL.t"
  BY <1>4, TrmPointFields
<1> QED
  BY <1>2, <1>3, <1>4, TrmPointFields

LEMMA ChannelOf ==
  ASSUME NEW c \in Channel
  PROVE  c \in 1..TRM138_CHANNEL_COUNT /\ c \in 1..8
BY ToolsAssumption DEF TRM138_CHANNEL_COUNT

LEMMA ToolPointFacts ==
  ASSUME NEW d, Sound(d), ToolMade(d), KeysKnown(d), NEW p \in d.points
  PROVE  /\ p \in Point /\ p.enabled = None /\ ToolPoint(p) /\ p.bus \in BusNames(d)
         /\ \E c \in Channel : p \in TrmPoints(p.bus, p.device, p.slave, c)
<1>1. p \in Point /\ p.enabled = None /\ ToolPoint(p) /\ p.bus \in BusNames(d)
  BY DEF Sound, Document, ToolMade, ToolPoints, KeysKnown
<1> QED
  BY <1>1, PointOfChannel

LEMMA ToolRegistersApart ==
  ASSUME NEW d, Sound(d), ToolMade(d), KeysKnown(d), SlaveIdsApart(d.points)
  PROVE  RegistersApart(d.service, d.points)
<1>1. ASSUME NEW p \in d.points, p.published, NEW a \in Claims(p)
      PROVE  a \in Int /\ a >= SERVICE_LINE_STATUS_BASE
  <2>1. PICK c \in Channel : p \in TrmPoints(p.bus, p.device, p.slave, c)
    BY ToolPointFacts
  <2> QED
    BY <1>1, <2>1, ChannelOf, ClaimsOfChannel DEF SERVICE_LINE_STATUS_BASE
<1>2. ASSUME NEW type, NEW a \in ServiceClaims(d.service, type)
      PROVE  a \in Int /\ a < SERVICE_LINE_STATUS_BASE
  BY <1>2 DEF ServiceClaims, ToolMade, TemplateService, Sound, Document, Service
<1>3. ASSUME NEW p \in d.points, p.published
      PROVE  Claims(p) \cap ServiceClaims(d.service, p.type) = {}
  BY <1>1, <1>2, <1>3 DEF SERVICE_LINE_STATUS_BASE
<1>4. ASSUME NEW p \in d.points, p.published, NEW q \in d.points, q.published, q # p,
             q.slave = p.slave
      PROVE  Claims(p) \cap Claims(q) = {}
  <2> SUFFICES ASSUME NEW a \in Claims(p), a \in Claims(q) PROVE FALSE
    OBVIOUS
  <2>1. PICK c \in Channel : p \in TrmPoints(p.bus, p.device, p.slave, c)
    BY ToolPointFacts
  <2>2. PICK k \in Channel : q \in TrmPoints(q.bus, q.device, q.slave, k)
    BY ToolPointFacts
  <2>3. q.bus = p.bus /\ q.device = p.device
    BY <1>4 DEF SlaveIdsApart, DeviceKey
  <2>4. c # k \/ p.parameter # q.parameter
    BY <1>4, <2>1, <2>2, <2>3, TrmPointUnique
  <2>5. c \in 1..8 /\ k \in 1..8
    BY ChannelOf
  <2>6. \/ p.parameter = "rEAd" /\ a \in {2 * c + 14, 2 * c + 15, c + 39}
        \/ p.parameter = "C.SP" /\ a \in {2 * c + 54, 2 * c + 55}
    BY <1>4, <2>1, ChannelOf, ClaimsOfChannel
  <2>7. \/ q.parameter = "rEAd" /\ a \in {2 * k + 14, 2 * k + 15, k + 39}
        \/ q.parameter = "C.SP" /\ a \in {2 * k + 54, 2 * k + 55}
    BY <1>4, <2>2, ChannelOf, ClaimsOfChannel
  <2> QED
    BY <2>4, <2>5, <2>6, <2>7
<1> QED
  BY <1>3, <1>4 DEF RegistersApart

LEMMA ToolPointAccepted ==
  ASSUME NEW d, Sound(d), ToolMade(d), KeysKnown(d), NEW p \in d.points, p.slave \in 2..247
  PROVE  PointAccepted(BusNames(d), p)
<1>1. p \in Point /\ p.bus \in BusNames(d)
  BY ToolPointFacts
<1>2. PICK c \in Channel : p \in TrmPoints(p.bus, p.device, p.slave, c)
  BY ToolPointFacts
<1>3. c \in 1..8
  BY ChannelOf
<1>4. p.address \in 0..MaxOvenAddress
  <2>1. p.address = p.slave + c - 1
    BY <1>2, TrmPointFields
  <2> QED
    BY <1>3, <2>1 DEF MaxOvenAddress
<1>5. p.writable => p.published /\ p.type = "holding_register" /\ p.compatible
  BY <1>2, TrmPointFields
<1>6. \A a \in Addresses(p) : a >= 0
  BY <1>1 DEF Addresses, Present, Point
<1>7. p.device \in 1..MaxDevices /\ p.type \in RegisterType
  BY <1>1 DEF Point
<1> QED
  BY <1>1, <1>4, <1>5, <1>6, <1>7 DEF PointAccepted, SERVICE_SLAVE_ID

LEMMA ToolDocumentAccepted ==
  ASSUME NEW d, Sound(d), ToolMade(d)
  PROVE  Accepted(d) <=>
           /\ Len(d.buses) \in 1..MaxBuses
           /\ \A i \in DOMAIN d.buses : d.buses[i].sound
           /\ \A p \in d.points : p.enabled = None
           /\ \A dev \in Devices(d) : SlavesOn(d, dev) \subseteq 2..247
           /\ \A dev, other \in Devices(d) :
                dev # other => SlavesOn(d, dev) \cap SlavesOn(d, other) = {}
<1>1. /\ LoadedPoints(d) = d.points
      /\ Resolve(d) = d.points
      /\ \A dev \in DeviceKeys(d.points) : Cardinality(ExplicitIds(d.points, dev)) = 1
  BY NothingToResolve
<1>2. \A dev \in Devices(d) : SlavesOn(d, dev) = {p.slave : p \in DevicePoints(d.points, dev)}
  BY DEF SlavesOn, PointsOf, DevicePoints, Devices, DeviceKeys, DeviceKey
<1>3. \A p \in d.points : DeviceKey(p) \in Devices(d) /\ p \in DevicePoints(d.points, DeviceKey(p))
  BY DEF Devices, DeviceKeys, DevicePoints
<1>4. OneIdPerDevice(d)
  BY <1>1 DEF OneIdPerDevice
<1>5. ServiceAccepted(d.service)
  BY DEF ServiceAccepted, ToolMade, TemplateService, Sound, Document, Service
<1>6. LinesAccepted(d) <=> /\ Len(d.buses) \in 1..MaxBuses
                           /\ \A i \in DOMAIN d.buses : d.buses[i].sound
  BY DEF LinesAccepted, ToolMade, NamesApart
<1>7. (\A dev \in Devices(d) : SlavesOn(d, dev) \subseteq 2..247) <=>
         \A p \in d.points : p.slave \in 2..247
  <2>1. ASSUME \A p \in d.points : p.slave \in 2..247, NEW dev \in Devices(d),
               NEW s \in SlavesOn(d, dev)
        PROVE  s \in 2..247
    <3>1. PICK p \in DevicePoints(d.points, dev) : p.slave = s
      BY <1>2
    <3> QED
      BY <2>1, <3>1 DEF DevicePoints
  <2>2. ASSUME \A dev \in Devices(d) : SlavesOn(d, dev) \subseteq 2..247, NEW p \in d.points
        PROVE  p.slave \in 2..247
    <3>1. p.slave \in SlavesOn(d, DeviceKey(p))
      BY <1>2, <1>3
    <3> QED
      BY <1>3, <2>2, <3>1
  <2> QED
    BY <2>1, <2>2
<1>8. (\A dev, other \in Devices(d) : dev # other => SlavesOn(d, dev) \cap SlavesOn(d, other) = {})
        <=> SlaveIdsApart(d.points)
  <2>1. ASSUME SlaveIdsApart(d.points), NEW dev \in Devices(d), NEW other \in Devices(d),
               NEW s, s \in SlavesOn(d, dev), s \in SlavesOn(d, other)
        PROVE  dev = other
    <3>1. PICK p \in DevicePoints(d.points, dev) : p.slave = s
      BY <1>2, <2>1
    <3>2. PICK q \in DevicePoints(d.points, other) : q.slave = s
      BY <1>2, <2>1
    <3> QED
      BY <2>1, <3>1, <3>2 DEF SlaveIdsApart, DevicePoints
  <2>2. ASSUME \A dev, other \in Devices(d) :
                 dev # other => SlavesOn(d, dev) \cap SlavesOn(d, other) = {},
               NEW p \in d.points, NEW q \in d.points, p.slave = q.slave
        PROVE  DeviceKey(p) = DeviceKey(q)
    <3>1. p.slave \in SlavesOn(d, DeviceKey(p)) /\ q.slave \in SlavesOn(d, DeviceKey(q))
      BY <1>2, <1>3
    <3> QED
      BY <1>3, <2>2, <3>1
  <2> QED
    BY <2>1, <2>2 DEF SlaveIdsApart
<1>9. ASSUME KeysKnown(d), \A p \in d.points : p.slave \in 2..247
      PROVE  \A p \in d.points : PointAccepted(BusNames(d), p)
  BY <1>9, ToolPointAccepted
<1>10. ASSUME \A p \in d.points : PointAccepted(BusNames(d), p)
       PROVE  \A p \in d.points : p.slave \in 2..247
  BY <1>10 DEF PointAccepted, SERVICE_SLAVE_ID
<1>11. KeysKnown(d) /\ SlaveIdsApart(d.points) => RegistersApart(d.service, d.points)
  BY ToolRegistersApart
<1>12. Accepted(d) <=> /\ LinesAccepted(d)
                       /\ KeysKnown(d)
                       /\ \A p \in d.points : PointAccepted(BusNames(d), p)
                       /\ SlaveIdsApart(d.points)
                       /\ RegistersApart(d.service, d.points)
  BY <1>1, <1>4, <1>5, Zenon DEF Accepted
<1>13. KeysKnown(d) <=> \A p \in d.points : p.enabled = None
  BY DEF KeysKnown
<1> HIDE DEF SlaveIdsApart, RegistersApart, LinesAccepted, KeysKnown, PointAccepted
<1> QED
  BY <1>6, <1>7, <1>8, <1>9, <1>10, <1>11, <1>12, <1>13, Zenon

(* The documents the tools make are refused for the five reasons only, for  *)
(* every history of edits of every length.  (config_tools.py:43-1174        *)
(* against config.py:160-330)                                               *)
THEOREM ToolDocumentsCorrect == Spec => []ToolDocumentsLoad
<1>1. IInv => ToolDocumentsLoad
  BY ToolDocumentAccepted DEF IInv, ToolDocumentsLoad, LinesSound, NoneSwitched, IdsUsable
<1> QED
  BY Invariance, <1>1, PTL

(* The registers the tables of the map derive are those the points have.    *)
(* (config_tools.py:640-700, 1225-1264)                                     *)
THEOREM MapRegistersCorrect == Spec => []MapTellsRegisters
<1>1. ASSUME IInv, ~byHand, Accepted(doc), NEW p \in Resolve(doc)
      PROVE  LET channel == p.address - p.slave + 1 IN
               /\ channel \in 1..TRM138_CHANNEL_COUNT
               /\ p.parameter = "rEAd" =>
                    p.start = ValueRegister(channel) /\ p.channelStatus = StatusRegister(channel)
               /\ p.parameter = "C.SP" => p.start = SetpointRegister(channel)
  <2>1. Sound(doc) /\ ToolMade(doc) /\ KeysKnown(doc) /\ p \in doc.points
    BY <1>1, NothingToResolve DEF IInv, Accepted
  <2>2. p.slave \in Nat /\ \E c \in Channel : p \in TrmPoints(p.bus, p.device, p.slave, c)
    BY <2>1, ToolPointFacts DEF ToolPoint
  <2>3. PICK c \in Channel : p \in TrmPoints(p.bus, p.device, p.slave, c)
    BY <2>2
  <2>4. c \in 1..TRM138_CHANNEL_COUNT /\ c \in 1..8
    BY ChannelOf
  <2>5. p.address - p.slave + 1 = c
    <3>1. p.address = p.slave + c - 1
      BY <2>3, TrmPointFields
    <3> QED
      BY <2>2, <2>4, <3>1
  <2> QED
    BY <2>3, <2>4, <2>5, TrmPointFields
<1>2. IInv => MapTellsRegisters
  BY <1>1 DEF MapTellsRegisters
<1> QED
  BY Invariance, <1>2, PTL

-----------------------------------------------------------------------------
(* The map file and the document next to it.                               *)

LEMMA SwitchedLineShows ==
  ASSUME NEW d, Sound(d), NEW line \in Line, Configured(d, line), NEW on \in BOOLEAN
  PROVE  LET e == WithLineOn(d, line, on) IN
           (Accepted(e) => Accepted(d)) /\ Shown(e) = Shown(d)
<1> DEFINE e == WithLineOn(d, line, on)
<1>1. /\ SameButLines(d, e)
      /\ DOMAIN e.buses = DOMAIN d.buses /\ Len(e.buses) = Len(d.buses)
      /\ \A i \in DOMAIN d.buses : /\ e.buses[i].name = d.buses[i].name
                                   /\ e.buses[i].sound = d.buses[i].sound
      /\ BusNames(e) = BusNames(d)
  BY WithLineOnIs DEF Sound
<1> HIDE DEF e
<1>2. 1 \in DOMAIN d.buses
  <2>1. d.buses \in Seq(Bus) /\ DOMAIN d.buses # {}
    BY DEF Configured, BusNames, Sound, Document
  <2> QED
    BY <2>1
<1>3. e.points = d.points /\ e.service = d.service /\ e.buses[1].name = d.buses[1].name
  BY <1>1, <1>2 DEF SameButLines
<1>4. LoadedPoints(e) = LoadedPoints(d)
  BY <1>3 DEF LoadedPoints, LoadPoint
<1>5. Resolve(e) = Resolve(d)
  BY <1>4 DEF Resolve
<1>6. LinesAccepted(e) => LinesAccepted(d)
  BY <1>1 DEF LinesAccepted
<1>7. KeysKnown(e) => KeysKnown(d)
  BY <1>3 DEF KeysKnown
<1>8. OneIdPerDevice(e) => OneIdPerDevice(d)
  BY <1>4 DEF OneIdPerDevice
<1>9. Accepted(e) => Accepted(d)
  BY <1>1, <1>3, <1>5, <1>6, <1>7, <1>8, Zenon DEF Accepted
<1>10. Shown(e) = Shown(d)
  BY <1>1, <1>5, Zenon DEF Shown
<1> QED
  BY <1>9, <1>10 DEF e

(* A channel that was switched keeps the gateway from starting.            *)
LEMMA SwitchedChannelRefused ==
  ASSUME NEW d, Sound(d), NEW part \in SUBSET d.points, part # {}, NEW on \in BOOLEAN
  PROVE  ~Accepted(Toggled(d, part, on))
<1> DEFINE e == Toggled(d, part, on)
<1>1. d \in Document /\ part \in SUBSET Point
  BY DEF Sound, Document
<1>2. e.points = (d.points \ part) \cup Switched(part, on)
  BY <1>1 DEF Toggled, Switched, Document
<1>3. PICK p \in part : TRUE
  OBVIOUS
<1>4. [p EXCEPT !.enabled = on] \in Switched(part, on)
  BY <1>3 DEF Switched
<1> DEFINE n == [p EXCEPT !.enabled = on]
<1>5. n.enabled = on /\ n \in e.points
  BY <1>1, <1>2, <1>4, SwitchedAre
<1> HIDE DEF n, e
<1>6. n.enabled # None
  BY <1>5, LoaderAssumption
<1> QED
  BY <1>5, <1>6 DEF Accepted, KeysKnown, e

LEMMA MapStep == IInv /\ MapIsCurrent /\ [Next]_vars => MapIsCurrent'
<1> SUFFICES ASSUME IInv, MapIsCurrent, [Next]_vars, Accepted(doc'), mapped' # None
             PROVE  mapped' = Shown(doc')
  BY DEF MapIsCurrent
<1>1. ASSUME NEW new, SaveAndMap(new) PROVE mapped' = Shown(doc')
  BY <1>1 DEF SaveAndMap, Save, WriteMap
<1>2. CASE ToggleLine
  <2>1. PICK line \in Line, on \in BOOLEAN :
          /\ Configured(Loaded, line)
          /\ doc' = WithLineOn(Loaded, line, on)
          /\ mapped' = mapped
    BY <1>2 DEF ToggleLine, SaveOnly, Save
  <2>2. Loaded = doc /\ Sound(Loaded)
    BY <2>1, LoadedIs DEF IInv
  <2>3. Accepted(doc) /\ Shown(doc') = Shown(doc)
    BY <2>1, <2>2, SwitchedLineShows
  <2> QED
    BY <2>1, <2>3 DEF MapIsCurrent
<1>3. CASE ToggleChannel
  <2>1. PICK part \in SUBSET Loaded.points, on \in BOOLEAN :
          part # {} /\ doc' = Toggled(Loaded, part, on)
    BY <1>3 DEF ToggleChannel, ToggleSets, ChannelPoints, PointsOf, SaveOnly, Save
  <2> QED
    BY <2>1, LoadedIs, SwitchedChannelRefused
<1>4. CASE UNCHANGED vars
  BY <1>4 DEF vars, MapIsCurrent
<1> QED
  BY <1>1, <1>2, <1>3, <1>4
     DEF Next, SetLine, RemoveLine, AddTrm138, RemoveTrm138, SetTrm138Channels, Regenerate

(* Whenever the gateway can load the document, the map next to it shows it, *)
(* although two tools write none.  (config_tools.py:593-597, cli.py:610-611)*)
THEOREM MapCorrect == Spec => []MapIsCurrent
<1>1. Init => MapIsCurrent
  BY DEF Init, MapIsCurrent
<1> QED
  BY Invariance, <1>1, MapStep, PTL DEF Spec

-----------------------------------------------------------------------------
(* What a step of a tool does to the devices.                              *)

(* The points of d and e are the same but for what was switched on them.   *)
LEMMA ToggledPoints ==
  ASSUME NEW d, Sound(d), NEW part \in SUBSET d.points, NEW on \in BOOLEAN,
         NEW n \in Toggled(d, part, on).points
  PROVE  \E p \in d.points :
           /\ n.bus = p.bus /\ n.device = p.device /\ n.slave = p.slave
           /\ n.address = p.address
           /\ n # p => p \in part
<1>1. d \in Document /\ d.points \in SUBSET Point
  BY DEF Sound, Document
<1>2. n \in (d.points \ part) \cup Switched(part, on)
  BY <1>1 DEF Toggled, Switched, Document
<1> QED
  BY <1>1, <1>2, SwitchedFrom

LEMMA DoublesStep == IInv /\ Next => (Doubles(doc') # {} => Doubles(Loaded) # {} \/ SetTrm138Channels)
<1> SUFFICES ASSUME IInv, Next, NEW pair \in Doubles(doc') PROVE Doubles(Loaded) # {} \/ SetTrm138Channels
  OBVIOUS
<1> DEFINE d == Loaded
           p == pair[1]
           q == pair[2]
<1>1. Sound(d) /\ ~d.legacy /\ d \in Document
  BY LoadedIs DEF Sound
<1>2. /\ p \in doc'.points /\ q \in doc'.points
      /\ p.bus = q.bus /\ p.device # q.device /\ p.address = q.address
  BY DEF Doubles
<1> HIDE DEF d, p, q
<1>3. ASSUME NEW r \in d.points, NEW s \in d.points,
             r.bus = s.bus, r.device # s.device, r.address = s.address
      PROVE  Doubles(Loaded) # {}
  <2>1. <<r, s>> \in Doubles(Loaded)
    BY <1>3 DEF Doubles, d
  <2> QED
    BY <2>1
<1>4. CASE doc'.points \subseteq d.points
  BY <1>2, <1>3, <1>4
<1>5. CASE SetLine
  <2>1. PICK line \in Line, sound \in BOOLEAN : doc' = WithLine(d, line, sound)
    BY <1>5, ToolsAssumption DEF SetLine, SaveAndMap, Save, d
  <2> QED
    BY <1>1, <1>4, <2>1, WithLineIs DEF SameButLines
<1>6. CASE ToggleLine
  <2>1. PICK line \in Line, on \in BOOLEAN : doc' = WithLineOn(d, line, on)
    BY <1>6 DEF ToggleLine, SaveOnly, Save, d
  <2> QED
    BY <1>1, <1>4, <2>1, WithLineOnIs DEF SameButLines
<1>7. CASE RemoveLine
  <2>1. PICK line \in Line : doc' = WithoutLine(d, line)
    BY <1>7 DEF RemoveLine, SaveAndMap, Save, d
  <2> QED
    BY <1>1, <1>4, <2>1, WithoutLineIs
<1>8. CASE AddTrm138
  <2>1. PICK line \in Line, base \in Base, channels \in SUBSET Channel, device \in 1..(MaxDevices + 1) :
          /\ Configured(d, line)
          /\ NextDevice(d, BusOf(d, line), device)
          /\ FreeAddresses(d, BusOf(d, line), base, channels)
          /\ doc' = [d EXCEPT !.points =
                       @ \cup DevicePointsOf(BusOf(d, line), device, base, channels)]
    BY <1>8 DEF AddTrm138, SaveAndMap, Save, d
  <2> DEFINE bus == BusOf(d, line)
             made == DevicePointsOf(bus, device, base, channels)
  <2>2. \A r \in made : /\ r.bus = bus /\ r.device = device
                        /\ \E c \in channels : r.address = base + c - 1
    <3>1. bus \in DOMAIN NameOrder /\ device \in 1..MaxDevices /\ base \in Nat
      BY <2>1, BusOfIs, ToolsAssumption DEF NextDevice
    <3> QED
      BY <3>1, DevicePointsAre
  <2>3. doc'.points = d.points \cup made
    BY <1>1, <2>1 DEF Document
  <2> HIDE DEF made
  <2>4. \A r \in made, s \in d.points : r.bus = s.bus => r.address # s.address
    BY <2>1, <2>2 DEF FreeAddresses
  <2> QED
    BY <1>2, <1>3, <2>2, <2>3, <2>4
<1>9. CASE RemoveTrm138
  <2>1. PICK bus, device : doc' = WithoutDevice(d, bus, device)
    BY <1>9 DEF RemoveTrm138, SaveAndMap, Save, d
  <2>2. doc'.points = d.points \ PointsOf(d, bus, device)
    BY <1>1, <2>1 DEF WithoutDevice, Document
  <2> QED
    BY <1>4, <2>2
<1>10. CASE ToggleChannel
  <2>1. PICK part \in SUBSET d.points, on \in BOOLEAN : doc' = Toggled(d, part, on)
    BY <1>10 DEF ToggleChannel, ToggleSets, ChannelPoints, PointsOf, SaveOnly, Save, d
  <2>2. PICK r \in d.points : p.bus = r.bus /\ p.device = r.device /\ p.address = r.address
    BY <1>1, <1>2, <2>1, ToggledPoints
  <2>3. PICK s \in d.points : q.bus = s.bus /\ q.device = s.device /\ q.address = s.address
    BY <1>1, <1>2, <2>1, ToggledPoints
  <2> QED
    BY <1>2, <1>3, <2>2, <2>3
<1>11. CASE Regenerate
  BY <1>4, <1>11 DEF Regenerate, SaveAndMap, Save, d
<1> QED
  BY <1>5, <1>6, <1>7, <1>8, <1>9, <1>10, <1>11 DEF Next

(* No tool but the one that replaces the channels of a device makes two     *)
(* devices of a line answer to one address.  (config_tools.py:864-869,      *)
(* 966-999)                                                                 *)
THEOREM DoublesCorrect == Spec => DoublesOnlyBySetChannels
<1>1. IInv /\ [Next]_vars => [Doubles(doc') # {} => Doubles(Loaded) # {} \/ SetTrm138Channels]_vars
  BY DoublesStep
<1> QED
  BY Invariance, <1>1, PTL DEF Spec, DoublesOnlyBySetChannels

-----------------------------------------------------------------------------
(* Which devices a step touches.                                           *)

Changed(d, e) ==
  {dev \in Devices(d) \cap Devices(e) : PointsOf(d, dev[1], dev[2]) # PointsOf(e, dev[1], dev[2])}
Touched(d, e) == Changed(d, e) \cup (Devices(d) \ Devices(e))

(* What a device may lose, when its SlaveID is counted anew.               *)
IdentityKept(d, e, dev) ==
  \/ SlavesOn(e, dev) = SlavesOn(d, dev)
  \/ SlavesOn(d, dev) \cap ReadAddresses(d, dev[1], dev[2]) = {}

LEMMA DeviceIs ==
  ASSUME NEW d, NEW dev \in Devices(d)
  PROVE  \E p \in d.points : p.bus = dev[1] /\ p.device = dev[2] /\ dev = <<p.bus, p.device>>
BY DEF Devices, DeviceKeys, DeviceKey

(* A tool that leaves the points of all other devices alone touches one.   *)
LEMMA OneDeviceTouched ==
  ASSUME NEW d, NEW e, NEW bus, NEW device, NEW dev \in Touched(d, e),
         \A p : ~(p.bus = bus /\ p.device = device) => (p \in d.points <=> p \in e.points)
  PROVE  dev = <<bus, device>>
<1> SUFFICES ASSUME dev # <<bus, device>> PROVE FALSE
  OBVIOUS
<1>1. dev \in Devices(d)
  BY DEF Touched, Changed
<1>2. PICK p \in d.points : p.bus = dev[1] /\ p.device = dev[2] /\ dev = <<p.bus, p.device>>
  BY <1>1, DeviceIs
<1>3. ~(dev[1] = bus /\ dev[2] = device)
  BY <1>2
<1>4. p \in e.points
  BY <1>2, <1>3
<1>5. dev \in Devices(e)
  BY <1>2, <1>4 DEF Devices, DeviceKeys, DeviceKey
<1>6. PointsOf(d, dev[1], dev[2]) = PointsOf(e, dev[1], dev[2])
  BY <1>3 DEF PointsOf
<1> QED
  BY <1>5, <1>6 DEF Touched, Changed

LEMMA SamePointsTouchNothing ==
  ASSUME NEW d, NEW e, e.points = d.points
  PROVE  Touched(d, e) = {}
BY DEF Touched, Changed, Devices, PointsOf

LEMMA ToggledBack ==
  ASSUME NEW d, Sound(d), NEW part \in SUBSET d.points, NEW on \in BOOLEAN, NEW p \in d.points
  PROVE  \E n \in Toggled(d, part, on).points :
           n.bus = p.bus /\ n.device = p.device /\ n.slave = p.slave
<1>1. d \in Document /\ d.points \in SUBSET Point
  BY DEF Sound, Document
<1>2. Toggled(d, part, on).points = (d.points \ part) \cup {[q EXCEPT !.enabled = on] : q \in part}
  BY <1>1 DEF Toggled, Document
<1>3. CASE p \notin part
  BY <1>2, <1>3
<1>4. CASE p \in part
  <2> DEFINE n == [p EXCEPT !.enabled = on]
  <2>1. n.bus = p.bus /\ n.device = p.device /\ n.slave = p.slave
    BY <1>1 DEF Point
  <2>2. n \in Toggled(d, part, on).points
    BY <1>2, <1>4
  <2> QED
    BY <2>1, <2>2
<1> QED
  BY <1>3, <1>4

LEMMA ToggledIdentity ==
  ASSUME NEW d, Sound(d), NEW part \in SUBSET d.points, NEW on \in BOOLEAN, NEW dev
  PROVE  SlavesOn(Toggled(d, part, on), dev) = SlavesOn(d, dev)
<1> DEFINE e == Toggled(d, part, on)
<1>1. ASSUME NEW n \in e.points
      PROVE  \E p \in d.points : n.bus = p.bus /\ n.device = p.device /\ n.slave = p.slave
  <2>1. PICK p \in d.points :
           /\ n.bus = p.bus /\ n.device = p.device /\ n.slave = p.slave
           /\ n.address = p.address
           /\ n # p => p \in part
    BY ToggledPoints
  <2> QED
    BY <2>1
<1>2. \A p \in d.points :
        \E n \in e.points : n.bus = p.bus /\ n.device = p.device /\ n.slave = p.slave
  BY ToggledBack
<1> HIDE DEF e
<1> QED
  BY <1>1, <1>2 DEF SlavesOn, PointsOf, e

(* The channels are counted anew from the smallest measured address, which *)
(* is the SlaveID unless the channel at that address is gone.              *)
LEMMA ReadAddressBound ==
  ASSUME NEW d, Sound(d), ToolMade(d), NEW bus, NEW device, NEW p \in PointsOf(d, bus, device),
         NEW a \in ReadAddresses(d, bus, device)
  PROVE  p.slave \in Nat /\ p.slave <= a
<1>1. PICK q \in d.points : q.bus = bus /\ q.device = device /\ a = q.address
  BY DEF ReadAddresses, AddressesOf, PointsOf
<1>2. ToolPoint(q) /\ q \in Point /\ p \in d.points /\ p.bus = bus /\ p.device = device
  BY DEF ToolMade, ToolPoints, PointsOf, Sound, Document
<1>3. p.slave = q.slave /\ q.slave \in Nat
  BY <1>1, <1>2 DEF ToolMade, ToolPoints, DeviceKey, ToolPoint
<1> DEFINE m == [q EXCEPT !.enabled = None]
<1>4. m.address = q.address
  BY <1>2 DEF Point
<1>5. PICK c \in Channel : m \in TrmPoints(q.bus, q.device, q.slave, c)
  BY <1>2 DEF ToolPoint
<1> HIDE DEF m
<1>6. m.address = q.slave + c - 1 /\ c \in 1..8
  BY <1>5, TrmPointFields, ChannelOf
<1> QED
  BY <1>1, <1>3, <1>4, <1>6

LEMMA WithChannelsIdentity ==
  ASSUME NEW d, Sound(d), ToolMade(d), NEW bus \in DOMAIN NameOrder, NEW device \in 1..MaxDevices,
         ReadAddresses(d, bus, device) # {}, NEW channels \in SUBSET Channel,
         NEW e, e.points = (d.points \ PointsOf(d, bus, device))
                  \cup DevicePointsOf(bus, device, SmallestOf(ReadAddresses(d, bus, device)), channels),
         <<bus, device>> \in Devices(e)
  PROVE  IdentityKept(d, e, <<bus, device>>)
<1> DEFINE S == ReadAddresses(d, bus, device)
           base == SmallestOf(S)
           made == DevicePointsOf(bus, device, base, channels)
<1>1. base \in S /\ base \in Nat /\ \A a \in S : base <= a
  BY ReadBase
<1> HIDE DEF S, base
<1>2. \A p \in made : p.bus = bus /\ p.device = device /\ p.slave = base
  BY <1>1, DevicePointsAre
<1> HIDE DEF made
<1>3. PointsOf(e, bus, device) \subseteq made
  BY DEF PointsOf, made, base, S
<1>4. PICK p \in e.points : p.bus = bus /\ p.device = device
  BY DeviceIs
<1>5. SlavesOn(e, <<bus, device>>) = {base}
  <2>1. p \in PointsOf(e, bus, device)
    BY <1>4 DEF PointsOf
  <2>2. \A q \in PointsOf(e, bus, device) : q.slave = base
    BY <1>2, <1>3
  <2> QED
    BY <2>1, <2>2 DEF SlavesOn
<1>6. ASSUME NEW s \in S, s \in SlavesOn(d, <<bus, device>>)
      PROVE  SlavesOn(d, <<bus, device>>) = {base}
  <2>1. PICK q \in PointsOf(d, bus, device) : s = q.slave
    BY <1>6 DEF SlavesOn
  <2>2. s \in Nat /\ s <= base
    BY <1>1, <2>1, ReadAddressBound DEF S
  <2>3. s = base
    BY <1>1, <1>6, <2>2
  <2>4. \A r \in PointsOf(d, bus, device) : r.slave = q.slave
    BY <2>1 DEF PointsOf, ToolMade, ToolPoints, DeviceKey
  <2> QED
    BY <2>1, <2>3, <2>4 DEF SlavesOn
<1> QED
  BY <1>5, <1>6 DEF IdentityKept, S

LEMMA IdentityStep ==
  ASSUME IInv, Next
  PROVE  /\ \A dev \in Changed(Loaded, doc') : IdentityKept(Loaded, doc', dev) \/ byHand
         /\ \A dev, other \in Touched(Loaded, doc') : dev = other \/ RemoveLine
<1> DEFINE d == Loaded
           Good == /\ \A dev \in Changed(d, doc') : IdentityKept(d, doc', dev) \/ byHand
                   /\ \A dev, other \in Touched(d, doc') : dev = other \/ RemoveLine
<1>1. /\ Sound(d) /\ ~d.legacy /\ d \in Document
      /\ ~byHand => ToolMade(d)
  BY LoadedIs DEF Sound, IInv
<1> SUFFICES Good
  OBVIOUS
<1> HIDE DEF d
<1>2. Changed(d, doc') \subseteq Touched(d, doc')
  BY DEF Touched
<1>3. CASE doc'.points = d.points
  BY <1>2, <1>3, SamePointsTouchNothing
<1>4. CASE SetLine
  <2>1. PICK line \in Line, sound \in BOOLEAN : doc' = WithLine(d, line, sound)
    BY <1>4, ToolsAssumption DEF SetLine, SaveAndMap, Save, d
  <2> QED
    BY <1>1, <1>3, <2>1, WithLineIs DEF SameButLines
<1>5. CASE ToggleLine
  <2>1. PICK line \in Line, on \in BOOLEAN : doc' = WithLineOn(d, line, on)
    BY <1>5 DEF ToggleLine, SaveOnly, Save, d
  <2> QED
    BY <1>1, <1>3, <2>1, WithLineOnIs DEF SameButLines
<1>6. CASE RemoveLine
  <2>1. PICK line \in Line : doc' = WithoutLine(d, line)
    BY <1>6 DEF RemoveLine, SaveAndMap, Save, d
  <2>2. doc'.points = {p \in d.points : p.bus # BusOf(d, line)}
    BY <1>1, <2>1, WithoutLineIs
  <2>3. Changed(d, doc') = {}
    <3> SUFFICES ASSUME NEW dev \in Changed(d, doc') PROVE FALSE
      OBVIOUS
    <3>1. dev \in Devices(doc')
      BY DEF Changed
    <3>2. dev[1] # BusOf(d, line)
      BY <2>2, <3>1, DeviceIs
    <3>3. PointsOf(d, dev[1], dev[2]) = PointsOf(doc', dev[1], dev[2])
      BY <2>2, <3>2 DEF PointsOf
    <3> QED
      BY <3>3 DEF Changed
  <2> QED
    BY <1>6, <2>3
<1>7. CASE AddTrm138
  <2>1. PICK line \in Line, base \in Base, channels \in SUBSET Channel, device \in 1..(MaxDevices + 1) :
          /\ NextDevice(d, BusOf(d, line), device)
          /\ doc' = [d EXCEPT !.points =
                       @ \cup DevicePointsOf(BusOf(d, line), device, base, channels)]
    BY <1>7 DEF AddTrm138, SaveAndMap, Save, d
  <2> DEFINE bus == BusOf(d, line)
             made == DevicePointsOf(bus, device, base, channels)
  <2>2. \A r \in made : r.bus = bus /\ r.device = device
    <3>1. bus \in DOMAIN NameOrder /\ device \in 1..MaxDevices /\ base \in Nat
      BY <2>1, BusOfIs, ToolsAssumption DEF NextDevice
    <3> QED
      BY <3>1, MadeFor
  <2>3. doc'.points = d.points \cup made
    BY <1>1, <2>1 DEF Document
  <2>4. device \notin DevicesOf(d, bus)
    BY <2>1 DEF NextDevice
  <2> HIDE DEF made, bus
  <2>5. \A dev \in Touched(d, doc') : dev = <<bus, device>>
    BY <2>2, <2>3, OneDeviceTouched
  <2>6. <<bus, device>> \notin Devices(d)
    BY <2>4, DeviceIs DEF DevicesOf
  <2> QED
    BY <2>5, <2>6 DEF Touched, Changed
<1>8. CASE RemoveTrm138
  <2>1. PICK bus, device : doc' = WithoutDevice(d, bus, device)
    BY <1>8 DEF RemoveTrm138, SaveAndMap, Save, d
  <2>2. doc'.points = d.points \ PointsOf(d, bus, device)
    BY <1>1, <2>1 DEF WithoutDevice, Document
  <2>3. \A dev \in Touched(d, doc') : dev = <<bus, device>>
    BY <2>2, OneDeviceTouched DEF PointsOf
  <2>4. <<bus, device>> \notin Devices(doc')
    BY <2>2, DeviceIs DEF PointsOf
  <2> QED
    BY <2>3, <2>4 DEF Touched, Changed
<1>9. CASE SetTrm138Channels
  <2>1. PICK line \in Line, channels \in SUBSET Channel :
          \E device \in Selectable(d, BusOf(d, line)) :
            /\ ReadAddresses(d, BusOf(d, line), device) # {}
            /\ doc' = WithChannels(d, BusOf(d, line), device, channels)
    BY <1>9 DEF SetTrm138Channels, SaveAndMap, Save, d
  <2> DEFINE bus == BusOf(d, line)
  <2>2. PICK device \in DevicesOf(d, bus) :
          /\ ReadAddresses(d, bus, device) # {}
          /\ doc' = WithChannels(d, bus, device, channels)
    BY <2>1 DEF Selectable
  <2> DEFINE base == SmallestOf(ReadAddresses(d, bus, device))
             made == DevicePointsOf(bus, device, base, channels)
  <2>3. bus \in DOMAIN NameOrder /\ device \in 1..MaxDevices /\ base \in Nat
    <3>1. PICK p \in d.points : p.device = device
      BY <2>2 DEF DevicesOf
    <3>2. p \in Point
      BY <1>1 DEF Document
    <3> QED
      BY <1>1, <2>2, <3>1, <3>2, BusOfIs, ReadBase DEF Point
  <2>4. doc'.points = (d.points \ PointsOf(d, bus, device)) \cup made
    BY <1>1, <2>2 DEF WithChannels, WithoutDevice, Document
  <2>5. \A p \in made : p.bus = bus /\ p.device = device
    BY <2>3, MadeFor
  <2> HIDE DEF made, base, bus
  <2>6. \A dev \in Touched(d, doc') : dev = <<bus, device>>
    <3>1. \A p : ~(p.bus = bus /\ p.device = device) => (p \in d.points <=> p \in doc'.points)
      BY <2>4, <2>5 DEF PointsOf
    <3> QED
      BY <3>1, OneDeviceTouched
  <2>7. ASSUME <<bus, device>> \in Devices(doc'), ToolMade(d)
        PROVE  IdentityKept(d, doc', <<bus, device>>)
    BY <1>1, <2>2, <2>3, <2>4, <2>7, WithChannelsIdentity DEF made, base
  <2> QED
    BY <1>1, <1>2, <2>6, <2>7 DEF Changed
<1>10. CASE ToggleChannel
  <2>1. PICK bus, device, part, on :
           /\ part \in SUBSET PointsOf(d, bus, device) /\ on \in BOOLEAN
           /\ doc' = Toggled(d, part, on)
    BY <1>10 DEF ToggleChannel, ToggleSets, ChannelPoints, SaveOnly, Save, d
  <2>2. part \in SUBSET d.points
    BY <2>1 DEF PointsOf
  <2>3. \A dev : SlavesOn(doc', dev) = SlavesOn(d, dev)
    BY <1>1, <2>1, <2>2, ToggledIdentity
  <2>4. ASSUME NEW p, ~(p.bus = bus /\ p.device = device) PROVE p \in d.points <=> p \in doc'.points
    <3>1. p \notin part
      BY <2>1, <2>4 DEF PointsOf
    <3>2. ASSUME p \in doc'.points PROVE p \in d.points
      <4>1. PICK q \in d.points :
               /\ p.bus = q.bus /\ p.device = q.device /\ p.slave = q.slave
               /\ p.address = q.address
               /\ p # q => q \in part
        BY <1>1, <2>1, <2>2, <3>2, ToggledPoints
      <4>2. q \notin part
        BY <2>1, <2>4, <4>1 DEF PointsOf
      <4> QED
        BY <4>1, <4>2
    <3>3. ASSUME p \in d.points PROVE p \in doc'.points
      BY <1>1, <2>1, <3>1, <3>3 DEF Toggled, Document
    <3> QED
      BY <3>2, <3>3
  <2>5. \A dev \in Touched(d, doc') : dev = <<bus, device>>
    BY <2>4, OneDeviceTouched
  <2> QED
    BY <2>3, <2>5 DEF IdentityKept
<1>11. CASE Regenerate
  BY <1>3, <1>11 DEF Regenerate, SaveAndMap, Save, d
<1> QED
  BY <1>4, <1>5, <1>6, <1>7, <1>8, <1>9, <1>10, <1>11 DEF Next

(* A device keeps its SlaveID through every tool, unless the channel at     *)
(* that address is gone when its channels are set anew; and no tool touches *)
(* two devices but the one that removes a line.  (config_tools.py:843-1174) *)
THEOREM IdentityCorrect == Spec => DevicesKeepIdentity
<1> DEFINE Kept ==
      LET changed == {dev \in Devices(Loaded) \cap Devices(doc') :
            PointsOf(Loaded, dev[1], dev[2]) # PointsOf(doc', dev[1], dev[2])}
          touched == changed \cup (Devices(Loaded) \ Devices(doc'))
      IN  /\ \A dev \in changed :
               SlavesOn(doc', dev) = SlavesOn(Loaded, dev)
               \/ SlavesOn(Loaded, dev) \cap ReadAddresses(Loaded, dev[1], dev[2]) = {}
               \/ byHand
          /\ \A dev, other \in touched : dev = other \/ RemoveLine
<1>1. ASSUME IInv, Next PROVE Kept
  BY <1>1, IdentityStep DEF Changed, Touched, IdentityKept
<1>2. IInv /\ [Next]_vars => [Kept]_vars
  BY <1>1
<1> QED
  BY Invariance, <1>2, PTL DEF Spec, DevicesKeepIdentity

-----------------------------------------------------------------------------
(* The registers the running gateway writes.                               *)

LEMMA ImageFinite ==
  ASSUME NEW S, IsFiniteSet(S), NEW f, f = [x \in S |-> f[x]]
  PROVE  IsFiniteSet({f[x] : x \in S})
<1>1. f \in Surjection(S, {f[x] : x \in S})
  BY DEF Surjection
<1> QED
  BY <1>1, FS_Surjection

(* What the loader leaves of a point: only line and SlaveID are resolved.  *)
PointFields(p) ==
  /\ p.name \in PointName /\ p.type \in RegisterType
  /\ p.start \in Nat /\ p.width \in 1..2
  /\ p.timeMark \in Nat \cup {None} /\ p.channelStatus \in Nat \cup {None}
  /\ p.published \in BOOLEAN

LEMMA ResolvedAre ==
  ASSUME NEW d, Sound(d)
  PROVE  IsFiniteSet(Resolve(d)) /\ \A p \in Resolve(d) : PointFields(p)
<1>1. d.points \in SUBSET Point /\ IsFiniteSet(d.points)
  BY DEF Sound, Document
<1> DEFINE load == [q \in d.points |-> LoadPoint(d, q)]
           points == LoadedPoints(d)
           id == [dev \in DeviceKeys(points) |-> ResolvedId(points, dev)]
           resolve == [q \in points |-> [q EXCEPT !.slave = id[DeviceKey(q)]]]
<1>2. points = {load[q] : q \in d.points} /\ Resolve(d) = {resolve[q] : q \in points}
  BY DEF LoadedPoints, Resolve
<1>3. load = [q \in d.points |-> load[q]] /\ resolve = [q \in points |-> resolve[q]]
  OBVIOUS
<1>4. \A q \in points : \E name : q = [name |-> q.name, bus |-> name, device |-> q.device,
         slave |-> q.slave, address |-> q.address, parameter |-> q.parameter, type |-> q.type,
         start |-> q.start, width |-> q.width, timeMark |-> q.timeMark,
         channelStatus |-> q.channelStatus, published |-> q.published,
         writable |-> q.writable, compatible |-> q.compatible, enabled |-> q.enabled]
      /\ PointFields(q)
  <2> TAKE q \in points
  <2>1. PICK p \in d.points : q = LoadPoint(d, p)
    BY <1>2
  <2>2. p \in Point
    BY <1>1
  <2>3. q = p \/ q = [p EXCEPT !.bus = d.buses[1].name]
    BY <2>1 DEF LoadPoint
  <2> WITNESS q.bus
  <2> QED
    BY <2>2, <2>3 DEF Point, PointFields
<1>5. ASSUME NEW q \in points, NEW s PROVE PointFields([q EXCEPT !.slave = s])
  BY <1>4 DEF PointFields
<1>6. \A p \in Resolve(d) : \E q \in points : \E s : p = [q EXCEPT !.slave = s]
  BY <1>2
<1> HIDE DEF load, resolve, points
<1>7. IsFiniteSet(points)
  BY <1>1, <1>2, <1>3, ImageFinite
<1>8. IsFiniteSet(Resolve(d))
  <2>1. IsFiniteSet({resolve[q] : q \in points})
    BY <1>3, <1>7, ImageFinite
  <2> QED
    BY <1>2, <2>1
<1> QED
  BY <1>5, <1>6, <1>8

(* The ends of the registers a block is made for.                          *)
SizedPoints(d, type) == {p \in Resolve(d) : p.published /\ p.type \in TypesOfSize(type)}
ValueEnds(d, type) == {p.start + p.width + 1 : p \in SizedPoints(d, type)}
Metadata(d, type) == UNION {Present({p.timeMark, p.channelStatus}) : p \in SizedPoints(d, type)}
ServiceRegisters(d, type) == UNION {ServiceClaims(d.service, t) : t \in TypesOfSize(type)}
MaskEnds(type) ==
  IF "holding_register" \in TypesOfSize(type) THEN {LOGIC_UNIT_MASK_REGISTER + 2} ELSE {}
BlockEnds(d, type) ==
  {1} \cup ValueEnds(d, type) \cup {a + 2 : a \in Metadata(d, type)}
  \cup {a + 2 : a \in ServiceRegisters(d, type)} \cup MaskEnds(type)

LEMMA BlockSizeIs ==
  ASSUME NEW d, NEW type
  PROVE  BlockSize(d, type) = CHOOSE n \in BlockEnds(d, type) : \A m \in BlockEnds(d, type) : m <= n
BY Zenon DEF BlockSize, BlockEnds, ValueEnds, Metadata, ServiceRegisters, MaskEnds, SizedPoints

LEMMA EndsFinite ==
  ASSUME NEW S, S \subseteq Nat, IsFiniteSet(S)
  PROVE  {a + 2 : a \in S} \subseteq Int /\ IsFiniteSet({a + 2 : a \in S})
<1> DEFINE f == [a \in S |-> a + 2]
<1>1. {a + 2 : a \in S} = {f[a] : a \in S} /\ f = [a \in S |-> f[a]]
  OBVIOUS
<1> HIDE DEF f
<1>2. IsFiniteSet({a + 2 : a \in S})
  BY <1>1, ImageFinite
<1> QED
  BY <1>2

LEMMA BlockIsLargeEnough ==
  ASSUME NEW d, Sound(d), NEW type
  PROVE  /\ BlockSize(d, type) \in Int
         /\ \A m \in BlockEnds(d, type) : m \in Int /\ m <= BlockSize(d, type)
<1> DEFINE sized == SizedPoints(d, type)
<1>1. sized \subseteq Resolve(d) /\ IsFiniteSet(sized) /\ \A p \in sized : PointFields(p)
  BY ResolvedAre, FS_Subset DEF SizedPoints
<1> HIDE DEF sized
<1>2. ValueEnds(d, type) \subseteq Int /\ IsFiniteSet(ValueEnds(d, type))
  <2> DEFINE f == [p \in sized |-> p.start + p.width + 1]
  <2>1. ValueEnds(d, type) = {f[p] : p \in sized} /\ f = [p \in sized |-> f[p]]
    BY DEF ValueEnds, sized
  <2>2. ValueEnds(d, type) \subseteq Int
    BY <1>1 DEF ValueEnds, PointFields, sized
  <2> HIDE DEF f
  <2> QED
    BY <1>1, <2>1, <2>2, ImageFinite
<1>3. Metadata(d, type) \subseteq Nat /\ IsFiniteSet(Metadata(d, type))
  <2> DEFINE f == [p \in sized |-> p.timeMark]
             g == [p \in sized |-> p.channelStatus]
  <2>1. /\ Metadata(d, type) \subseteq {f[p] : p \in sized} \cup {g[p] : p \in sized}
        /\ f = [p \in sized |-> f[p]] /\ g = [p \in sized |-> g[p]]
    BY DEF Metadata, Present, sized
  <2>2. Metadata(d, type) \subseteq Nat
    BY <1>1 DEF Metadata, Present, PointFields, sized
  <2> HIDE DEF f, g
  <2>3. IsFiniteSet({f[p] : p \in sized}) /\ IsFiniteSet({g[p] : p \in sized})
    BY <1>1, <2>1, ImageFinite
  <2>4. IsFiniteSet({f[p] : p \in sized} \cup {g[p] : p \in sized})
    BY <2>3, FS_Union
  <2> QED
    BY <2>1, <2>2, <2>4, FS_Subset
<1>4. ServiceRegisters(d, type) \subseteq Nat /\ IsFiniteSet(ServiceRegisters(d, type))
  <2>1. d.service \in Service /\ IsFiniteSet(d.service.status) /\ IsFiniteSet(d.service.telemetry)
    BY DEF Sound, Document
  <2>2. IsFiniteSet(d.service.status \cup d.service.telemetry)
    BY <2>1, FS_Union
  <2>3. ServiceRegisters(d, type) \subseteq d.service.status \cup d.service.telemetry
    BY DEF ServiceRegisters, ServiceClaims
  <2> QED
    BY <2>1, <2>2, <2>3, FS_Subset DEF Service
<1>5. MaskEnds(type) \subseteq Int /\ IsFiniteSet(MaskEnds(type))
  <2>1. IsFiniteSet({LOGIC_UNIT_MASK_REGISTER + 2}) /\ IsFiniteSet({})
    BY FS_Singleton, FS_EmptySet
  <2> QED
    BY <2>1 DEF MaskEnds, LOGIC_UNIT_MASK_REGISTER
<1> DEFINE E == BlockEnds(d, type)
           meta == {a + 2 : a \in Metadata(d, type)}
           service == {a + 2 : a \in ServiceRegisters(d, type)}
<1>6. meta \subseteq Int /\ IsFiniteSet(meta) /\ service \subseteq Int /\ IsFiniteSet(service)
  BY <1>3, <1>4, EndsFinite
<1>7. E = (({1} \cup ValueEnds(d, type)) \cup meta) \cup (service \cup MaskEnds(type))
  BY DEF BlockEnds
<1> HIDE DEF E, meta, service
<1>8. IsFiniteSet(E) /\ E \subseteq Int /\ E # {}
  <2>1. IsFiniteSet({1} \cup ValueEnds(d, type))
    BY <1>2, FS_Singleton, FS_Union
  <2>2. IsFiniteSet(({1} \cup ValueEnds(d, type)) \cup meta)
    BY <1>6, <2>1, FS_Union
  <2>3. IsFiniteSet(service \cup MaskEnds(type))
    BY <1>5, <1>6, FS_Union
  <2>4. IsFiniteSet(E)
    BY <1>7, <2>2, <2>3, FS_Union
  <2>5. ASSUME NEW x \in E PROVE x \in Int
    <3>1. x = 1 \/ x \in ValueEnds(d, type) \/ x \in meta \/ x \in service \/ x \in MaskEnds(type)
      BY <1>7
    <3>2. CASE x \in ValueEnds(d, type)
      BY <1>2, <3>2
    <3>3. CASE x \in meta
      BY <1>6, <3>3
    <3>4. CASE x \in service
      BY <1>6, <3>4
    <3>5. CASE x \in MaskEnds(type)
      BY <1>5, <3>5
    <3> QED
      BY <3>1, <3>2, <3>3, <3>4, <3>5
  <2>6. 1 \in E
    BY <1>7
  <2> QED
    BY <2>4, <2>5, <2>6
<1>9. \E n \in E : \A m \in E : m <= n
  BY <1>8, GreatestExists
<1>10. BlockSize(d, type) = CHOOSE n \in E : \A m \in E : m <= n
  BY BlockSizeIs DEF E
<1>11. BlockSize(d, type) \in E /\ \A m \in E : m <= BlockSize(d, type)
  BY <1>9, <1>10
<1> QED
  BY <1>8, <1>11 DEF E

(* Who makes a write.                                                      *)
WritesValue(p, w) ==
  /\ p.published
  /\ w.by = <<"value", p.name>> /\ w.slave = p.slave /\ w.type = p.type
  /\ w.at \in Span(p.start, p.width)

WritesMetadata(p, w) ==
  /\ w.by = <<"metadata", p.name>> /\ w.slave = p.slave /\ w.type = p.type
  /\ w.at \in Present({p.timeMark, p.channelStatus})

WritesHealth(d, w) ==
  /\ w.slave \in SlavesOf(Resolve(d)) \cup {SERVICE_SLAVE_ID}
  /\ \/ /\ w.by = <<"status", None>>
        /\ w.type = d.service.statusType /\ w.at \in d.service.status
     \/ /\ w.by = <<"telemetry", None>>
        /\ w.type = d.service.telemetryType /\ w.at \in d.service.telemetry

WritesMask(d, w) ==
  /\ w.slave \in SlavesOf(Resolve(d))
  /\ w.by = <<"mask", None>> /\ w.type = "holding_register" /\ w.at = LOGIC_UNIT_MASK_REGISTER

WritesLine(d, w) ==
  /\ w.slave = SERVICE_SLAVE_ID
  /\ w.by = <<"line", None>> /\ w.type = "holding_register"
  /\ w.at \in Span(SERVICE_LINE_STATUS_BASE, Len(d.buses))

LEMMA WriteIs ==
  ASSUME NEW kind, NEW name, NEW slave, NEW type, NEW addresses,
         NEW w \in Writes(kind, name, slave, type, addresses)
  PROVE  w.by = <<kind, name>> /\ w.slave = slave /\ w.type = type /\ w.at \in addresses
BY DEF Writes

LEMMA Writers ==
  ASSUME NEW d, NEW w \in GatewayWrites(d)
  PROVE  \/ \E p \in Resolve(d) : WritesValue(p, w) \/ WritesMetadata(p, w)
         \/ WritesHealth(d, w) \/ WritesMask(d, w) \/ WritesLine(d, w)
<1>1. CASE \E p \in Resolve(d) : w \in ValueWrites(p) \cup MetadataWrites(p)
  <2>1. PICK p \in Resolve(d) : w \in ValueWrites(p) \cup MetadataWrites(p)
    BY <1>1
  <2>2. CASE w \in ValueWrites(p)
    <3>1. p.published /\ w \in Writes("value", p.name, p.slave, p.type, Span(p.start, p.width))
      BY <2>2 DEF ValueWrites
    <3> QED
      BY <3>1, WriteIs DEF WritesValue
  <2>3. CASE w \in MetadataWrites(p)
    <3> DEFINE A == Present({p.timeMark, p.channelStatus})
    <3>1. w \in Writes("metadata", p.name, p.slave, p.type, A)
      BY <2>3 DEF MetadataWrites
    <3>2. WritesMetadata(p, w) <=> /\ w.by = <<"metadata", p.name>> /\ w.slave = p.slave
                                   /\ w.type = p.type /\ w.at \in A
      BY DEF WritesMetadata
    <3> HIDE DEF A
    <3> QED
      BY <3>1, <3>2, WriteIs
  <2> QED
    BY <2>1, <2>2, <2>3
<1>2. CASE \E s \in SlavesOf(Resolve(d)) \cup {SERVICE_SLAVE_ID} : w \in HealthWrites(d.service, s)
  <2>1. PICK s \in SlavesOf(Resolve(d)) \cup {SERVICE_SLAVE_ID} : w \in HealthWrites(d.service, s)
    BY <1>2
  <2>2. CASE w \in Writes("status", None, s, d.service.statusType, d.service.status)
    BY <2>2, WriteIs DEF WritesHealth
  <2>3. CASE w \in Writes("telemetry", None, s, d.service.telemetryType, d.service.telemetry)
    BY <2>3, WriteIs DEF WritesHealth
  <2> QED
    BY <2>1, <2>2, <2>3 DEF HealthWrites
<1>3. CASE \E s \in SlavesOf(Resolve(d)) : w \in MaskWrites(s)
  BY <1>3, WriteIs DEF MaskWrites, WritesMask
<1>4. CASE w \in LineWrites(d)
  BY <1>4, WriteIs DEF LineWrites, WritesLine
<1>5. \/ \E p \in Resolve(d) : w \in ValueWrites(p) \cup MetadataWrites(p)
      \/ \E s \in SlavesOf(Resolve(d)) \cup {SERVICE_SLAVE_ID} : w \in HealthWrites(d.service, s)
      \/ \E s \in SlavesOf(Resolve(d)) : w \in MaskWrites(s)
      \/ w \in LineWrites(d)
  <2> DEFINE A == UNION {ValueWrites(p) \cup MetadataWrites(p) : p \in Resolve(d)}
             B == UNION {HealthWrites(d.service, s) : s \in SlavesOf(Resolve(d)) \cup {SERVICE_SLAVE_ID}}
             C == UNION {MaskWrites(s) : s \in SlavesOf(Resolve(d))}
  <2>1. GatewayWrites(d) = A \cup B \cup C \cup LineWrites(d)
    BY DEF GatewayWrites
  <2>2. w \in A \/ w \in B \/ w \in C \/ w \in LineWrites(d)
    <3> HIDE DEF A, B, C
    <3> QED
      BY <2>1
  <2> QED
    BY <2>2
<1> QED
  BY <1>1, <1>2, <1>3, <1>4, <1>5

LEMMA TypeIsSized ==
  ASSUME NEW type \in RegisterType
  PROVE  type \in TypesOfSize(type)
BY DEF RegisterType, TypesOfSize

LEMMA WriteFits ==
  ASSUME NEW d, Sound(d), Accepted(d), NEW w \in GatewayWrites(d),
         \A p \in Resolve(d) : w.by[2] = p.name => p.published
  PROVE  w.type \in RegisterType /\ Fits(BlockSize(d, w.type), w)
<1> DEFINE large == \E m \in BlockEnds(d, w.type) : w.at \in Int /\ w.at + 1 < m
<1>1. large => Fits(BlockSize(d, w.type), w)
  <2> SUFFICES ASSUME large PROVE Fits(BlockSize(d, w.type), w)
    OBVIOUS
  <2>1. PICK m \in BlockEnds(d, w.type) : w.at \in Int /\ w.at + 1 < m
    OBVIOUS
  <2>2. m \in Int /\ BlockSize(d, w.type) \in Int /\ m <= BlockSize(d, w.type)
    BY BlockIsLargeEnough
  <2> QED
    BY <2>1, <2>2 DEF Fits
<1>2. d.service \in Service
  BY DEF Sound, Document
<1>3. "holding_register" \in RegisterType /\ Len(d.buses) \in 1..2
  <2> DEFINE n == Len(d.buses)
  <2>1. n \in 1..MaxBuses
    BY DEF Accepted, LinesAccepted
  <2>2. MaxBuses \in Nat /\ MaxBuses <= 2
    BY LoaderAssumption, ToolsAssumption
  <2> HIDE DEF n
  <2>3. n \in 1..2
    BY <2>1, <2>2
  <2> USE DEF n
  <2> QED
    BY <2>3 DEF RegisterType
<1>4. LOGIC_UNIT_MASK_REGISTER + 2 \in BlockEnds(d, "holding_register")
  BY <1>3, TypeIsSized DEF BlockEnds, MaskEnds
<1>5. CASE \E p \in Resolve(d) : WritesValue(p, w) \/ WritesMetadata(p, w)
  <2>1. PICK p \in Resolve(d) : WritesValue(p, w) \/ WritesMetadata(p, w)
    BY <1>5
  <2>2. PointFields(p) /\ p.published
    BY <2>1, ResolvedAre DEF WritesValue, WritesMetadata
  <2>3. w.type \in RegisterType /\ p \in SizedPoints(d, w.type)
    BY <2>1, <2>2, TypeIsSized DEF WritesValue, WritesMetadata, PointFields, SizedPoints
  <2>4. CASE WritesValue(p, w)
    <3>1. w.at \in Int /\ w.at + 1 < p.start + p.width + 1
      BY <2>2, <2>4 DEF WritesValue, PointFields, Span
    <3>2. p.start + p.width + 1 \in BlockEnds(d, w.type)
      BY <2>3 DEF BlockEnds, ValueEnds
    <3> QED
      BY <1>1, <2>3, <3>1, <3>2
  <2>5. CASE WritesMetadata(p, w)
    <3>1. w.at \in Int
      BY <2>2, <2>5 DEF WritesMetadata, PointFields, Present
    <3>2. w.at \in Metadata(d, w.type)
      BY <2>3, <2>5 DEF WritesMetadata, Metadata
    <3>3. w.at + 2 \in BlockEnds(d, w.type) /\ w.at + 1 < w.at + 2
      BY <3>1, <3>2 DEF BlockEnds
    <3> QED
      BY <1>1, <2>3, <3>1, <3>3
  <2> QED
    BY <2>1, <2>4, <2>5
<1>6. CASE WritesHealth(d, w)
  <2>1. w.type \in RegisterType /\ w.at \in Int
    BY <1>2, <1>6 DEF WritesHealth, Service
  <2>2. w.at \in ServiceClaims(d.service, w.type)
    BY <1>6 DEF WritesHealth, ServiceClaims
  <2>3. w.at \in ServiceRegisters(d, w.type)
    BY <2>1, <2>2, TypeIsSized DEF ServiceRegisters
  <2>4. w.at + 2 \in BlockEnds(d, w.type) /\ w.at + 1 < w.at + 2
    BY <2>1, <2>3 DEF BlockEnds
  <2> QED
    BY <1>1, <2>1, <2>4
<1>7. CASE WritesMask(d, w)
  <2>1. w.type = "holding_register" /\ w.at \in Int /\ w.at + 1 < LOGIC_UNIT_MASK_REGISTER + 2
    BY <1>7 DEF WritesMask, LOGIC_UNIT_MASK_REGISTER
  <2> QED
    BY <1>1, <1>3, <1>4, <2>1
<1>8. CASE WritesLine(d, w)
  <2>1. w.type = "holding_register" /\ w.at \in Int /\ w.at + 1 < LOGIC_UNIT_MASK_REGISTER + 2
    <3> DEFINE n == Len(d.buses)
    <3>1. w.type = "holding_register" /\ w.at \in 10..(10 + n - 1) /\ n \in 1..2
      BY <1>3, <1>8 DEF WritesLine, Span, SERVICE_LINE_STATUS_BASE
    <3> HIDE DEF n
    <3> QED
      BY <3>1 DEF LOGIC_UNIT_MASK_REGISTER
  <2> QED
    BY <1>1, <1>3, <1>4, <2>1
<1> QED
  BY <1>5, <1>6, <1>7, <1>8, Writers

(* Every register the gateway writes for a document it accepted lies in its *)
(* block.  (modbus_server.py:150-185, 217-330)                              *)
THEOREM WritesCorrect == Spec => []WritesFitBlocks
<1>1. ASSUME IInv PROVE WritesFitBlocks
  <2> SUFFICES ASSUME Accepted(doc), NEW w \in GatewayWrites(doc),
                      w.by[2] \notin {p.name : p \in {q \in Resolve(doc) : ~q.published}}
               PROVE  Fits([type \in RegisterType |-> BlockSize(doc, type)][w.type], w)
    BY Zenon DEF WritesFitBlocks
  <2>1. \A p \in Resolve(doc) : w.by[2] = p.name => p.published
    OBVIOUS
  <2>2. w.type \in RegisterType /\ Fits(BlockSize(doc, w.type), w)
    BY <1>1, <2>1, WriteFits DEF IInv
  <2> QED
    BY <2>2
<1> QED
  BY Invariance, <1>1, PTL

-----------------------------------------------------------------------------
(* Registers with two writers.                                             *)

Unchecked == {"line", "mask"}
InternalNames(d) == {p.name : p \in {q \in Resolve(d) : ~q.published}}

(* What the loader does not rule out.                                      *)
Excused(d, v, w) ==
  \/ {v.by[1], w.by[1]} \cap Unchecked # {}
  \/ {v.by[2], w.by[2]} \cap InternalNames(d) # {}
  \/ v.by[2] = w.by[2] /\ v.by[2] # None

WritesPoint(p, w) == WritesValue(p, w) \/ WritesMetadata(p, w)

LEMMA PointWriteIs ==
  ASSUME NEW p, PointFields(p), NEW w, WritesPoint(p, w)
  PROVE  /\ w.by[1] \in {"value", "metadata"} /\ w.by[2] = p.name /\ p.name # None
         /\ w.slave = p.slave /\ w.type = p.type
         /\ w.at \in Claims(p)
<1>1. p.name # None
  BY ToolsAssumption DEF PointFields
<1>2. CASE WritesValue(p, w)
  BY <1>1, <1>2 DEF WritesValue, Claims
<1>3. CASE WritesMetadata(p, w)
  BY <1>1, <1>3 DEF WritesMetadata, Claims
<1> QED
  BY <1>2, <1>3 DEF WritesPoint

LEMMA HealthWriteIs ==
  ASSUME NEW d, NEW w, WritesHealth(d, w)
  PROVE  /\ w.by[1] \in {"status", "telemetry"} /\ w.by[2] = None
         /\ w.at \in ServiceClaims(d.service, w.type)
         /\ w.at \in d.service.status \cup d.service.telemetry
BY DEF WritesHealth, ServiceClaims

LEMMA UncheckedWriteIs ==
  ASSUME NEW d, NEW w
  PROVE  /\ WritesMask(d, w) => w.by[1] = "mask" /\ w.by[2] = None
         /\ WritesLine(d, w) => w.by[1] = "line" /\ w.by[2] = None
BY DEF WritesMask, WritesLine

LEMMA PointOrHealth ==
  ASSUME NEW d, NEW w \in GatewayWrites(d), w.by[1] \notin Unchecked
  PROVE  (\E p \in Resolve(d) : WritesPoint(p, w)) \/ WritesHealth(d, w)
BY Writers, UncheckedWriteIs DEF Unchecked, WritesPoint

LEMMA PointsApart ==
  ASSUME NEW d, Sound(d), Accepted(d), NEW p \in Resolve(d), NEW q \in Resolve(d),
         p.published, q.published, p # q, NEW v, NEW w, WritesPoint(p, v), WritesPoint(q, w)
  PROVE  ~Clash(v, w)
<1>1. RegistersApart(d.service, Resolve(d))
  BY Zenon DEF Accepted
<1>2. /\ v.slave = p.slave /\ v.type = p.type /\ v.at \in Claims(p)
      /\ w.slave = q.slave /\ w.type = q.type /\ w.at \in Claims(q)
  BY ResolvedAre, PointWriteIs
<1>3. q.slave = p.slave /\ q.type = p.type => Claims(p) \cap Claims(q) = {}
  BY <1>1 DEF RegistersApart
<1> QED
  BY <1>2, <1>3 DEF Clash

LEMMA PointAndHealthApart ==
  ASSUME NEW d, Sound(d), Accepted(d), NEW p \in Resolve(d), p.published,
         NEW v, NEW w, WritesPoint(p, v), WritesHealth(d, w)
  PROVE  ~Clash(v, w) /\ ~Clash(w, v)
<1>1. RegistersApart(d.service, Resolve(d))
  BY Zenon DEF Accepted
<1>2. /\ v.slave = p.slave /\ v.type = p.type /\ v.at \in Claims(p)
      /\ w.at \in ServiceClaims(d.service, w.type)
  BY ResolvedAre, PointWriteIs, HealthWriteIs
<1>3. Claims(p) \cap ServiceClaims(d.service, p.type) = {}
  BY <1>1 DEF RegistersApart
<1> QED
  BY <1>2, <1>3 DEF Clash

LEMMA HealthApart ==
  ASSUME NEW d, Accepted(d), NEW v, NEW w, WritesHealth(d, v), WritesHealth(d, w)
  PROVE  ~Clash(v, w)
<1>1. ServiceAccepted(d.service)
  BY Zenon DEF Accepted
<1> QED
  BY <1>1 DEF ServiceAccepted, WritesHealth, Clash

LEMMA ClashIsExcused ==
  ASSUME NEW d, Sound(d), Accepted(d),
         NEW v \in GatewayWrites(d), NEW w \in GatewayWrites(d), Clash(v, w)
  PROVE  Excused(d, v, w)
<1> SUFFICES ASSUME ~Excused(d, v, w) PROVE FALSE
  OBVIOUS
<1>1. /\ v.by[1] \notin Unchecked /\ w.by[1] \notin Unchecked
      /\ v.by[2] \notin InternalNames(d) /\ w.by[2] \notin InternalNames(d)
      /\ v.by[2] = w.by[2] => v.by[2] = None
  BY DEF Excused
<1>2. ASSUME NEW p \in Resolve(d), p.name \notin InternalNames(d) PROVE p.published
  BY <1>2 DEF InternalNames
<1>3. ASSUME NEW p \in Resolve(d)
      PROVE  /\ WritesPoint(p, v) => p.published /\ v.by[2] = p.name /\ p.name # None
             /\ WritesPoint(p, w) => p.published /\ w.by[2] = p.name /\ p.name # None
  BY <1>1, <1>2, ResolvedAre, PointWriteIs
<1>4. CASE \E p \in Resolve(d) : WritesPoint(p, v)
  <2>1. PICK p \in Resolve(d) : WritesPoint(p, v)
    BY <1>4
  <2>2. CASE \E q \in Resolve(d) : WritesPoint(q, w)
    <3>1. PICK q \in Resolve(d) : WritesPoint(q, w)
      BY <2>2
    <3>2. p # q
      BY <1>1, <1>3, <2>1, <3>1
    <3> QED
      BY <1>3, <2>1, <3>1, <3>2, PointsApart
  <2>3. CASE WritesHealth(d, w)
    BY <1>3, <2>1, <2>3, PointAndHealthApart
  <2> QED
    BY <1>1, <2>2, <2>3, PointOrHealth
<1>5. CASE WritesHealth(d, v)
  <2>1. CASE \E q \in Resolve(d) : WritesPoint(q, w)
    <3>1. PICK q \in Resolve(d) : WritesPoint(q, w)
      BY <2>1
    <3> QED
      BY <1>3, <1>5, <3>1, PointAndHealthApart
  <2>2. CASE WritesHealth(d, w)
    BY <1>5, <2>2, HealthApart
  <2> QED
    BY <1>1, <2>1, <2>2, PointOrHealth
<1> QED
  BY <1>1, <1>4, <1>5, PointOrHealth

(* A document of the tools as the gateway runs it.                         *)
Running(d) == Sound(d) /\ ToolMade(d) /\ Accepted(d)

LEMMA RunningPoint ==
  ASSUME NEW d, Running(d), NEW p \in Resolve(d)
  PROVE  /\ p \in d.points /\ p.slave \in 2..247
         /\ \E c \in Channel : c \in 1..8 /\ p \in TrmPoints(p.bus, p.device, p.slave, c)
<1>1. Sound(d) /\ ToolMade(d) /\ KeysKnown(d) /\ Resolve(d) = d.points
  BY NothingToResolve DEF Running, Accepted
<1>2. PointAccepted(BusNames(d), p)
  BY Zenon DEF Running, Accepted
<1>3. p.slave \in 2..247
  BY <1>2 DEF PointAccepted, SERVICE_SLAVE_ID
<1>4. PICK c \in Channel : p \in TrmPoints(p.bus, p.device, p.slave, c)
  BY <1>1, ToolPointFacts
<1> QED
  BY <1>1, <1>3, <1>4, ChannelOf

(* The tools give registers only to what they publish.                     *)
LEMMA RunningWrite ==
  ASSUME NEW d, Running(d), NEW p \in Resolve(d), NEW w, WritesPoint(p, w)
  PROVE  /\ p.published
         /\ w.at \in Int /\ w.at > SERVICE_LINE_STATUS_BASE + 1 /\ w.at # LOGIC_UNIT_MASK_REGISTER
<1>1. PICK c \in Channel : c \in 1..8 /\ p \in TrmPoints(p.bus, p.device, p.slave, c)
  BY RunningPoint
<1>2. p.published
  <2>1. CASE p.parameter = "AL.t"
    <3>1. p.timeMark = None /\ p.channelStatus = None
      BY <1>1, <2>1, TrmPointFields
    <3>2. ~WritesMetadata(p, w)
      BY <3>1 DEF WritesMetadata, Present
    <3> QED
      BY <3>2 DEF WritesPoint, WritesValue
  <2> QED
    BY <1>1, <2>1, TrmPointFields
<1>3. w.at \in Claims(p)
  BY ResolvedAre, PointWriteIs DEF Running
<1>4. \/ w.at \in {2 * c + 14, 2 * c + 15, c + 39}
      \/ w.at \in {2 * c + 54, 2 * c + 55}
  BY <1>1, <1>2, <1>3, ChannelOf, ClaimsOfChannel
<1> QED
  BY <1>1, <1>2, <1>4 DEF SERVICE_LINE_STATUS_BASE, LOGIC_UNIT_MASK_REGISTER

(* Points of one SlaveID are told apart by their names.                    *)
LEMMA RunningNames ==
  ASSUME NEW d, Running(d), NEW p \in Resolve(d), NEW q \in Resolve(d), p.name = q.name
  PROVE  p = q
<1>1. PICK c \in Channel : c \in 1..8 /\ p \in TrmPoints(p.bus, p.device, p.slave, c)
  BY RunningPoint
<1>2. PICK k \in Channel : k \in 1..8 /\ q \in TrmPoints(q.bus, q.device, q.slave, k)
  BY RunningPoint
<1>3. p.name[1] = p.slave /\ p.name[2] = c /\ p.name[3] = p.parameter
  <2>1. p.name = <<p.slave, c, p.parameter>>
    BY <1>1, TrmPointFields
  <2> QED
    BY <2>1
<1>4. p.slave = q.slave /\ c = k /\ p.parameter = q.parameter
  <2>1. p.name[1] = q.name[1] /\ p.name[2] = q.name[2] /\ p.name[3] = q.name[3]
    OBVIOUS
  <2>2. q.name[1] = q.slave /\ q.name[2] = k /\ q.name[3] = q.parameter
    <3>1. q.name = <<q.slave, k, q.parameter>>
      BY <1>2, TrmPointFields
    <3> QED
      BY <3>1
  <2> QED
    BY <1>3, <2>1, <2>2
<1>5. SlaveIdsApart(Resolve(d))
  BY Zenon DEF Running, Accepted
<1>6. p.bus = q.bus /\ p.device = q.device
  BY <1>4, <1>5 DEF SlaveIdsApart, DeviceKey
<1> QED
  BY <1>1, <1>2, <1>4, <1>6, TrmPointUnique

(* A point's value and its channel status lie apart.                       *)
LEMMA ValueAndStatusApart ==
  ASSUME NEW d, Running(d), NEW p \in Resolve(d), NEW v, NEW w, WritesValue(p, v), WritesMetadata(p, w)
  PROVE  v.at # w.at
<1>1. PICK c \in Channel : c \in 1..8 /\ p \in TrmPoints(p.bus, p.device, p.slave, c)
  BY RunningPoint
<1>2. p.timeMark = None
  BY <1>1, TrmPointFields
<1>3. CASE p.parameter = "rEAd"
  <2>1. p.start = 2 * c + 14 /\ p.width = 2 /\ p.channelStatus = c + 39
    BY <1>1, <1>3, TrmPointFields, ChannelOf, ChannelRegisters
  <2>2. v.at \in {2 * c + 14, 2 * c + 15} /\ w.at = c + 39
    BY <1>1, <1>2, <2>1 DEF WritesValue, WritesMetadata, Span, Present
  <2> QED
    BY <1>1, <2>2
<1>4. CASE p.parameter # "rEAd"
  <2>1. p.channelStatus = None
    BY <1>1, <1>4, TrmPointFields
  <2> QED
    BY <1>2, <2>1 DEF WritesMetadata, Present
<1> QED
  BY <1>3, <1>4

(* Which registers line statuses and masks take, and the rest leaves.      *)
LEMMA UncheckedRegisters ==
  ASSUME NEW d, Running(d), NEW w \in GatewayWrites(d)
  PROVE  \/ /\ WritesLine(d, w)
            /\ w.by = <<"line", None>>
            /\ w.slave = SERVICE_SLAVE_ID
            /\ w.at \in SERVICE_LINE_STATUS_BASE..(SERVICE_LINE_STATUS_BASE + 1)
         \/ /\ WritesMask(d, w)
            /\ w.by = <<"mask", None>>
            /\ w.slave # SERVICE_SLAVE_ID /\ w.at = LOGIC_UNIT_MASK_REGISTER
         \/ /\ WritesHealth(d, w)
            /\ w.at \in Int /\ w.at < SERVICE_LINE_STATUS_BASE
            /\ w.by[1] \notin Unchecked
         \/ /\ \E p \in Resolve(d) : WritesPoint(p, w)
            /\ w.slave # SERVICE_SLAVE_ID
            /\ w.at \in Int /\ w.at > SERVICE_LINE_STATUS_BASE + 1 /\ w.at # LOGIC_UNIT_MASK_REGISTER
            /\ w.by[1] \notin Unchecked
<1>1. CASE WritesLine(d, w)
  <2> DEFINE n == Len(d.buses)
  <2>1. n \in 1..MaxBuses
    BY DEF Running, Accepted, LinesAccepted
  <2>2. w.at \in SERVICE_LINE_STATUS_BASE..(SERVICE_LINE_STATUS_BASE + n - 1)
    BY <1>1 DEF WritesLine, Span
  <2>3. MaxBuses \in Nat /\ MaxBuses <= 2
    BY LoaderAssumption, ToolsAssumption
  <2> HIDE DEF n
  <2>4. w.at \in SERVICE_LINE_STATUS_BASE..(SERVICE_LINE_STATUS_BASE + 1)
    BY <2>1, <2>2, <2>3 DEF SERVICE_LINE_STATUS_BASE
  <2> QED
    BY <1>1, <2>4 DEF WritesLine
<1>2. CASE WritesMask(d, w)
  <2>1. PICK p \in Resolve(d) : w.slave = p.slave
    BY <1>2 DEF WritesMask, SlavesOf
  <2>2. w.slave # SERVICE_SLAVE_ID
    BY <2>1, RunningPoint DEF SERVICE_SLAVE_ID
  <2> QED
    BY <1>2, <2>2 DEF WritesMask
<1>3. CASE WritesHealth(d, w)
  <2>1. TemplateService(d.service) /\ d.service \in Service
    BY DEF Running, ToolMade, Sound, Document
  <2>2. w.at \in Int /\ w.at < SERVICE_LINE_STATUS_BASE
    BY <1>3, <2>1, HealthWriteIs DEF TemplateService, Service
  <2> QED
    BY <1>3, <2>2, HealthWriteIs DEF Unchecked
<1>4. CASE \E p \in Resolve(d) : WritesPoint(p, w)
  <2>1. PICK p \in Resolve(d) : WritesPoint(p, w)
    BY <1>4
  <2>2. w.by[1] \in {"value", "metadata"} /\ w.slave = p.slave
    BY <2>1, ResolvedAre, PointWriteIs DEF Running
  <2>3. w.slave # SERVICE_SLAVE_ID
    BY <2>2, RunningPoint DEF SERVICE_SLAVE_ID
  <2>4. w.at \in Int /\ w.at > SERVICE_LINE_STATUS_BASE + 1 /\ w.at # LOGIC_UNIT_MASK_REGISTER
    BY <2>1, RunningWrite
  <2> QED
    BY <2>1, <2>2, <2>3, <2>4 DEF Unchecked
<1> QED
  BY <1>1, <1>2, <1>3, <1>4, Writers DEF WritesPoint

LEMMA UncheckedApart ==
  ASSUME NEW d, Running(d), NEW v \in GatewayWrites(d), NEW w \in GatewayWrites(d), Clash(v, w)
  PROVE  v.by[1] \notin Unchecked /\ w.by[1] \notin Unchecked
<1> DEFINE AsLine(x) == /\ x.by = <<"line", None>> /\ x.slave = SERVICE_SLAVE_ID /\ x.at \in 10..11
           AsMask(x) == /\ x.by = <<"mask", None>> /\ x.slave # SERVICE_SLAVE_ID /\ x.at = 48
           Other(x) == /\ x.by[1] \notin Unchecked /\ x.at \in Int /\ x.at # 48
                       /\ x.at < 10 \/ x.at > 11
<1>1. \A x \in GatewayWrites(d) : AsLine(x) \/ AsMask(x) \/ Other(x)
  BY UncheckedRegisters DEF SERVICE_LINE_STATUS_BASE, LOGIC_UNIT_MASK_REGISTER
<1>2. v.by # w.by /\ v.slave = w.slave /\ v.at = w.at
  BY DEF Clash
<1>3. AsLine(v) \/ AsMask(v) \/ Other(v)
  BY <1>1
<1>4. AsLine(w) \/ AsMask(w) \/ Other(w)
  BY <1>1
<1> QED
  BY <1>2, <1>3, <1>4

LEMMA NoClash ==
  ASSUME NEW d, Running(d), NEW v \in GatewayWrites(d), NEW w \in GatewayWrites(d)
  PROVE  ~Clash(v, w)
<1> SUFFICES ASSUME Clash(v, w) PROVE FALSE
  OBVIOUS
<1>1. v.by[1] \notin Unchecked /\ w.by[1] \notin Unchecked
  BY UncheckedApart
<1>2. Excused(d, v, w)
  BY ClashIsExcused DEF Running
<1>3. ASSUME NEW x \in GatewayWrites(d), x.by[1] \notin Unchecked, x.by[2] # None
      PROVE  \E p \in Resolve(d) : WritesPoint(p, x) /\ x.by[2] = p.name
  <2>1. PICK p \in Resolve(d) : WritesPoint(p, x)
    BY <1>3, PointOrHealth, HealthWriteIs
  <2> QED
    BY <2>1, ResolvedAre, PointWriteIs DEF Running
<1>4. ASSUME NEW x \in GatewayWrites(d), x.by[1] \notin Unchecked PROVE x.by[2] \notin InternalNames(d)
  <2> SUFFICES ASSUME x.by[2] \in InternalNames(d) PROVE FALSE
    OBVIOUS
  <2>1. PICK q \in Resolve(d) : ~q.published /\ x.by[2] = q.name
    BY DEF InternalNames
  <2>2. q.name # None
    BY ResolvedAre, ToolsAssumption DEF Running, PointFields
  <2>3. PICK p \in Resolve(d) : WritesPoint(p, x) /\ x.by[2] = p.name
    BY <1>3, <1>4, <2>1, <2>2
  <2> QED
    BY <2>1, <2>3, RunningNames, RunningWrite
<1>5. v.by[2] = w.by[2] /\ v.by[2] # None
  BY <1>1, <1>2, <1>4 DEF Excused
<1>6. PICK p \in Resolve(d) : WritesPoint(p, v) /\ v.by[2] = p.name
  BY <1>1, <1>3, <1>5
<1>7. PICK q \in Resolve(d) : WritesPoint(q, w) /\ w.by[2] = q.name
  BY <1>1, <1>3, <1>5
<1>8. p = q
  BY <1>5, <1>6, <1>7, RunningNames
<1>9. \/ WritesValue(p, v) /\ WritesMetadata(p, w)
      \/ WritesMetadata(p, v) /\ WritesValue(p, w)
  BY <1>6, <1>7, <1>8 DEF WritesPoint, WritesValue, WritesMetadata, Clash
<1> QED
  BY <1>9, ValueAndStatusApart DEF Clash

(* Points are told apart by their names in every document of the tools the  *)
(* gateway accepts, as the service takes for granted that keeps their state *)
(* under the name.  (config_tools.py:1114-1174, service.py:109)             *)
THEOREM PointNamesCorrect == Spec => []PointNamesApart
<1>1. ASSUME IInv, ~byHand, Accepted(doc), NEW p \in doc.points, NEW q \in doc.points,
             p.name = q.name
      PROVE  p = q
  <2>1. Running(doc)
    BY <1>1 DEF IInv, Running
  <2>2. Resolve(doc) = doc.points
    BY <2>1, NothingToResolve DEF Running, Accepted
  <2> QED
    BY <1>1, <2>1, <2>2, RunningNames
<1>2. IInv => PointNamesApart
  BY <1>1 DEF PointNamesApart
<1> QED
  BY Invariance, <1>2, PTL

(* No register of a document the gateway accepted has two writers but for   *)
(* what the loader does not check, and none at all has two in a document of *)
(* the tools.  (config.py:268-330, modbus_server.py:217-330)                *)
THEOREM WritersCorrect == Spec => []OneWriterPerRegister
<1>1. ASSUME IInv, Accepted(doc), NEW v \in GatewayWrites(doc), NEW w \in GatewayWrites(doc),
             Clash(v, w)
      PROVE  byHand /\ Excused(doc, v, w)
  BY <1>1, ClashIsExcused, NoClash DEF IInv, Running
<1>2. IInv => OneWriterPerRegister
  BY <1>1 DEF OneWriterPerRegister, Excused, Unchecked, InternalNames
<1> QED
  BY Invariance, <1>2, PTL

=============================================================================
