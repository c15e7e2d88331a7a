----------------------- MODULE ConsistencyCheckProofs -----------------------
(***************************************************************************)
(* Theorems about the consistency check in BackgroundJobs: each entry left *)
(* alone is compared once and its differences are reported once, whatever  *)
(* the step, the range, the versions and the number of shards.             *)
(*                                                                         *)
(* First the windows: every time of the range lies in exactly one of them. *)
(* Then the check itself: in which windows, and where in the current one,  *)
(* an entry has been compared already.                                     *)
(***************************************************************************)
EXTENDS JobsProofs, FunctionTheorems

(* The windows are a nonempty sequence, and t lies in exactly one.         *)
InOneWindow(t, windows) ==
  \E n \in DOMAIN windows : \A m \in DOMAIN windows : InWindow(t, windows[m]) <=> m = n

Window == [begin : Nat, end : Nat]

-----------------------------------------------------------------------------
(* Windows of a fixed length *)

(* The arithmetic of Partition: lengths, in multiples of a step.           *)
LEMMA TimesMonotone ==
  ASSUME NEW a \in Nat, NEW b \in Nat, a <= b, NEW s \in Nat
  PROVE  a * s <= b * s /\ a * s \in Nat
<1>1. b * s = a * s + (b - a) * s
  OBVIOUS
<1>2. (b - a) * s >= 0 /\ a * s >= 0
  OBVIOUS
<1> QED
  BY <1>1, <1>2

LEMMA DivideFacts ==
  ASSUME NEW x \in Nat, NEW s \in Nat \ {0}
  PROVE  /\ x \div s \in Nat
         /\ (x \div s) * s <= x
         /\ x < (x \div s) * s + s
<1>1. x = s * (x \div s) + (x % s) /\ 0 <= x % s /\ x % s < s /\ x \div s \in Int
  OBVIOUS
<1>2. s * (x \div s) = (x \div s) * s
  BY <1>1
<1>3. x \div s >= 0
  OBVIOUS
<1> QED
  BY <1>1, <1>2, <1>3

LEMMA PartitionCovers ==
  ASSUME NEW begin \in Nat, NEW until \in Nat, begin < until
  PROVE  /\ Partition(begin, until) \in Seq(Window)
         /\ Len(Partition(begin, until)) >= 1
         /\ \A t \in begin .. until - 1 : InOneWindow(t, Partition(begin, until))
<1> DEFINE count == (until - begin + Step - 1) \div Step
           w(n) == [begin |-> begin + (n - 1) * Step,
                    end   |-> IF begin + n * Step > until THEN until ELSE begin + n * Step]
           W == [n \in 1 .. count |-> w(n)]
<1>1. Partition(begin, until) = W
  BY DEF Partition
<1>2. Step \in Nat \ {0}
  BY CheckAssumption
<1>3. count \in Nat /\ until - begin <= count * Step
  <2>1. until - begin + Step - 1 \in Nat
    BY <1>2
  <2>2. count \in Nat /\ until - begin + Step - 1 < count * Step + Step
    BY <1>2, <2>1, DivideFacts
  <2>3. count * Step \in Nat
    BY <1>2, <2>2, TimesMonotone
  <2> QED
    BY <1>2, <2>2, <2>3
<1> HIDE DEF count
<1>4. \A n \in Nat : n * Step \in Nat /\ n * Step + Step = (n + 1) * Step
  <2>1. \A n \in Nat : n * Step \in Nat
    BY <1>2, TimesMonotone
  <2> QED
    BY <1>2, <2>1
<1>5. \A n \in 1 .. count : w(n) \in Window
  BY <1>2, <1>3, <1>4 DEF Window
<1>6. count >= 1
  <2>1. 0 * Step = 0
    BY <1>2
  <2> QED
    BY <1>3, <2>1
<1>7. \A m \in 1 .. count :
        /\ m * Step \in Nat /\ (m - 1) * Step \in Nat
        /\ W[m].begin = begin + (m - 1) * Step
        /\ W[m].end = IF begin + m * Step > until THEN until ELSE begin + m * Step
  <2>1. \A m \in 1 .. count : m \in Nat /\ m - 1 \in Nat
    BY <1>3
  <2> QED
    BY <1>4, <2>1
<1>8. W \in Seq(Window) /\ Len(W) = count /\ DOMAIN W = 1 .. count
  BY <1>3, <1>5
<1> HIDE DEF W
<1>9. ASSUME NEW t \in begin .. until - 1 PROVE InOneWindow(t, W)
  <2>1. PICK q \in Nat : q * Step <= t - begin /\ t - begin < q * Step + Step
    <3>1. t - begin \in Nat
      OBVIOUS
    <3> QED
      BY <1>2, <3>1, DivideFacts
  <2>2. PICK n \in Nat : n = q + 1
    OBVIOUS
  <2>3. q * Step \in Nat /\ n * Step = q * Step + Step /\ n * Step \in Nat
    BY <1>4, <2>1, <2>2
  <2>4. q < count
    <3>1. SUFFICES ASSUME count <= q PROVE FALSE
      BY <1>3, <2>1
    <3>2. count * Step <= q * Step /\ count * Step \in Nat
      BY <1>2, <1>3, <2>1, <3>1, TimesMonotone
    <3> QED
      BY <1>3, <2>1, <2>3, <3>2
  <2>5. n \in 1 .. count /\ n - 1 = q
    BY <1>3, <2>1, <2>2, <2>4
  <2>6. W[n].begin <= t /\ t < W[n].end
    BY <1>7, <2>1, <2>3, <2>5
  <2>7. ASSUME NEW m \in 1 .. count, m < n PROVE ~InWindow(t, W[m])
    <3>1. m * Step <= q * Step /\ m * Step \in Nat
      BY <1>2, <1>3, <2>2, <2>7, TimesMonotone
    <3>2. W[m].end <= begin + m * Step /\ W[m].end \in Nat
      BY <1>7
    <3> QED
      BY <2>1, <2>3, <3>1, <3>2 DEF InWindow
  <2>8. ASSUME NEW m \in 1 .. count, n < m PROVE ~InWindow(t, W[m])
    <3>1. n * Step <= (m - 1) * Step /\ (m - 1) * Step \in Nat
      <4>1. m - 1 \in Nat /\ n <= m - 1
        BY <1>3, <2>8
      <4> QED
        BY <1>2, <4>1, TimesMonotone
    <3>2. W[m].begin = begin + (m - 1) * Step
      BY <1>7
    <3> QED
      BY <2>1, <2>3, <3>1, <3>2 DEF InWindow
  <2>9. \A m \in 1 .. count : InWindow(t, W[m]) <=> m = n
    BY <1>3, <2>2, <2>6, <2>7, <2>8 DEF InWindow
  <2> QED
    BY <1>8, <2>5, <2>9 DEF InOneWindow
<1> QED
  BY <1>1, <1>6, <1>8, <1>9

-----------------------------------------------------------------------------
(* Windows between switches *)

(* The order of the switches is strict and total.                          *)
LEMMA SwitchOrder ==
  ASSUME TypeOK, NEW i \in VersionIDs, NEW j \in VersionIDs
  PROVE  /\ ~SwitchedBefore(i, i)
         /\ i # j => SwitchedBefore(i, j) \/ SwitchedBefore(j, i)
         /\ \A h \in VersionIDs : SwitchedBefore(h, i) /\ SwitchedBefore(i, j) => SwitchedBefore(h, j)
<1>1. \A h \in VersionIDs : h \in Nat /\ versions[h].publishedAt \in Nat
  BY VersionsDomain DEF Version
<1> QED
  BY <1>1 DEF SwitchedBefore

(* A set of versions can be put in order: each at the place that counts    *)
(* the ones up to it.                                                      *)
LEMMA SortedExists ==
  ASSUME TypeOK, NEW ids \in SUBSET VersionIDs
  PROVE  /\ IsFiniteSet(ids)
         /\ \E s \in [1 .. Cardinality(ids) -> ids] :
              \A m, n \in DOMAIN s : m < n => SwitchedBefore(s[m], s[n])
<1> DEFINE UpTo(i) == {j \in ids : j = i \/ SwitchedBefore(j, i)}
           place == [i \in ids |-> Cardinality(UpTo(i))]
           count == Cardinality(ids)
<1>1. IsFiniteSet(ids) /\ count \in Nat
  <2>1. VersionIDs = 1 .. Len(versions) /\ Len(versions) \in Nat
    BY VersionsDomain
  <2>2. IsFiniteSet(VersionIDs)
    BY <2>1, FS_Interval
  <2> QED
    BY <2>2, FS_Subset, FS_CardinalityType
<1> HIDE DEF count
<1>2. \A i \in ids : place[i] \in 1 .. count
  <2> SUFFICES ASSUME NEW i \in ids PROVE Cardinality(UpTo(i)) \in 1 .. count
    OBVIOUS
  <2>1. UpTo(i) \in SUBSET ids /\ i \in UpTo(i)
    OBVIOUS
  <2> HIDE DEF UpTo
  <2>2. IsFiniteSet(UpTo(i)) /\ Cardinality(UpTo(i)) <= count
    BY <1>1, <2>1, FS_Subset DEF count
  <2>3. Cardinality(UpTo(i)) \in Nat /\ Cardinality(UpTo(i)) # 0
    BY <2>1, <2>2, FS_CardinalityType, FS_EmptySet
  <2> QED
    BY <1>1, <2>2, <2>3
<1>3. ASSUME NEW i \in ids, NEW j \in ids, SwitchedBefore(i, j)
      PROVE  place[i] < place[j]
  <2>1. UpTo(i) \in SUBSET UpTo(j) /\ UpTo(j) \in SUBSET ids
    BY <1>3, SwitchOrder
  <2>2. j \in UpTo(j) /\ j \notin UpTo(i)
    BY <1>3, SwitchOrder
  <2>3. place[i] = Cardinality(UpTo(i)) /\ place[j] = Cardinality(UpTo(j))
    OBVIOUS
  <2> HIDE DEF UpTo, place
  <2>4. IsFiniteSet(UpTo(j))
    BY <1>1, <2>1, FS_Subset
  <2>5. Cardinality(UpTo(i)) <= Cardinality(UpTo(j)) /\ Cardinality(UpTo(i)) # Cardinality(UpTo(j))
    BY <2>1, <2>2, <2>4, FS_Subset
  <2> QED
    BY <1>1, <1>2, <2>3, <2>5
<1> HIDE DEF place
<1>4. \A i, j \in ids : place[i] = place[j] => i = j
  <2>1. \A i, j \in ids : i # j => SwitchedBefore(i, j) \/ SwitchedBefore(j, i)
    BY SwitchOrder
  <2> QED
    BY <1>1, <1>2, <1>3, <2>1
<1>5. \A n \in 1 .. count : \E i \in ids : place[i] = n
  <2>1. place \in Injection(ids, 1 .. count)
    <3>1. place \in [ids -> 1 .. count]
      BY <1>2 DEF place
    <3> QED
      BY <1>4, <3>1, Fun_IsInj
  <2>2. IsFiniteSet(1 .. count) /\ Cardinality(1 .. count) = count
    BY <1>1, FS_Interval
  <2>3. place \in Surjection(ids, 1 .. count)
    BY <2>1, <2>2, FS_Injection DEF count
  <2> QED
    BY <2>3, Fun_SurjectionProperties
<1> DEFINE s == [n \in 1 .. count |-> CHOOSE i \in ids : place[i] = n]
<1>6. \A n \in 1 .. count : s[n] \in ids /\ place[s[n]] = n
  BY <1>5
<1>7. s \in [1 .. count -> ids]
  BY <1>6
<1>8. ASSUME NEW m \in 1 .. count, NEW n \in 1 .. count, m < n
      PROVE  SwitchedBefore(s[m], s[n])
  <2>1. PICK i \in ids, j \in ids : i = s[m] /\ j = s[n] /\ place[i] = m /\ place[j] = n
    BY <1>6
  <2>2. i # j /\ ~SwitchedBefore(j, i)
    BY <1>1, <1>3, <1>8, <2>1
  <2> QED
    BY <2>1, <2>2, SwitchOrder
<1> QED
  BY <1>1, <1>7, <1>8 DEF count

(* Between times in order, at most one neighbouring pair encloses t.       *)
LEMMA OneInterval ==
  ASSUME NEW c \in Nat \ {0}, NEW b \in [1 .. c + 1 -> Nat],
         \A m, n \in 1 .. c + 1 : m < n => b[m] <= b[n],
         NEW t \in Nat, NEW n \in 1 .. c, b[n] <= t, t < b[n + 1], NEW m \in 1 .. c
  PROVE  (b[m] <= t /\ t < b[m + 1]) <=> m = n
<1>1. b[m] \in Nat /\ b[m + 1] \in Nat /\ b[n] \in Nat /\ b[n + 1] \in Nat
  OBVIOUS
<1>2. CASE m = n
  BY <1>2
<1>3. CASE m < n
  <2>1. m + 1 = n \/ m + 1 < n
    BY <1>3
  <2>2. b[m + 1] <= b[n]
    BY <1>1, <2>1
  <2> QED
    BY <1>1, <1>3, <2>2
<1>4. CASE n < m
  <2>1. n + 1 = m \/ n + 1 < m
    BY <1>4
  <2>2. b[n + 1] <= b[m]
    BY <1>1, <2>1
  <2> QED
    BY <1>1, <1>4, <2>2
<1> QED
  BY <1>2, <1>3, <1>4

(* Times in order, from the begin of the range to its end, cut the range   *)
(* into windows: t lies in the first one that ends after it.               *)
LEMMA CutIntoWindows ==
  ASSUME NEW c \in Nat \ {0}, NEW b \in [1 .. c + 1 -> Nat], NEW W,
         \A m, n \in 1 .. c + 1 : m < n => b[m] <= b[n],
         W = [n \in 1 .. c |-> [begin |-> b[n], end |-> b[n + 1]]],
         NEW t \in Nat, b[1] <= t, t < b[c + 1]
  PROVE  InOneWindow(t, W)
<1> DEFINE S == {n \in 1 .. c : t < b[n + 1]}
<1>1. S \subseteq Nat /\ c \in S
  OBVIOUS
<1>2. PICK n \in S : \A m \in S : n <= m
  BY <1>1, LeastNat
<1>3. n \in 1 .. c /\ t < b[n + 1]
  OBVIOUS
<1>4. b[n] <= t
  <2>1. CASE n = 1
    BY <2>1
  <2>2. CASE n # 1
    <3>1. n - 1 \in 1 .. c /\ n - 1 + 1 = n
      BY <1>3, <2>2
    <3>2. ASSUME n - 1 \in S PROVE FALSE
      <4>1. n <= n - 1
        <5> HIDE DEF S
        <5> QED
          BY <1>2, <3>2
      <4> QED
        BY <1>3, <4>1
    <3>3. b[n] \in Nat
      BY <1>3
    <3>4. ASSUME t < b[n] PROVE n - 1 \in S
      BY <3>1, <3>4
    <3> QED
      BY <3>2, <3>3, <3>4
  <2> QED
    BY <2>1, <2>2
<1>5. DOMAIN W = 1 .. c
  OBVIOUS
<1>6. ASSUME NEW m \in 1 .. c PROVE InWindow(t, W[m]) <=> m = n
  <2>1. InWindow(t, W[m]) <=> (b[m] <= t /\ t < b[m + 1])
    BY DEF InWindow
  <2> QED
    BY <1>3, <1>4, <2>1, OneInterval
<1> QED
  BY <1>3, <1>5, <1>6 DEF InOneWindow

(* The switch events come in order and end with the end of the range.      *)
LEMMA SwitchEventsFacts ==
  ASSUME TypeOK, NEW begin \in Nat, NEW until \in Nat, begin < until
  PROVE  \E c \in Nat \ {0} : \E e \in [1 .. c -> begin .. until] :
           /\ SwitchEvents(begin, until) = e
           /\ e[c] = until
           /\ \A m, n \in 1 .. c : m < n => e[m] <= e[n]
<1> DEFINE ids == Switched(begin, until)
           d == Cardinality(ids)
           Sorted(s) == \A m, n \in DOMAIN s : m < n => SwitchedBefore(s[m], s[n])
           ordered == CHOOSE s \in [1 .. d -> ids] : Sorted(s)
           times == [n \in DOMAIN ordered |-> versions[ordered[n]].publishedAt]
           e == Append(times, until)
<1>1. SwitchEvents(begin, until) = e
  BY DEF SwitchEvents
<1>2. ids \in SUBSET VersionIDs
  BY DEF Switched
<1>3. \A i \in ids : versions[i].publishedAt \in begin .. until
  <2>1. \A i \in VersionIDs : versions[i].publishedAt \in Nat
    BY VersionsDomain DEF Version
  <2> QED
    BY <2>1 DEF Switched
<1> HIDE DEF ids
<1>4. d \in Nat
  BY <1>2, SortedExists, FS_CardinalityType
<1>5. ordered \in [1 .. d -> ids] /\ Sorted(ordered)
  <2>1. \E s \in [1 .. d -> ids] : Sorted(s)
    BY <1>2, SortedExists
  <2> HIDE DEF d, Sorted
  <2> QED
    BY <2>1
<1> HIDE DEF d, ordered
<1>6. /\ times \in [1 .. d -> begin .. until]
      /\ \A m, n \in 1 .. d : m < n => times[m] <= times[n]
  <2>1. \A i, j \in ids : SwitchedBefore(i, j) => versions[i].publishedAt <= versions[j].publishedAt
    BY <1>3 DEF SwitchedBefore
  <2> QED
    BY <1>3, <1>5, <2>1
<1> HIDE DEF times
<1>7. times \in Seq(begin .. until) /\ Len(times) = d
  BY <1>4, <1>6
<1>8. e \in [1 .. d + 1 -> begin .. until] /\ e[d + 1] = until /\ \A m \in 1 .. d : e[m] = times[m]
  <2>1. until \in begin .. until
    OBVIOUS
  <2>2. /\ e \in Seq(begin .. until) /\ Len(e) = d + 1
        /\ e[d + 1] = until /\ \A m \in 1 .. d : e[m] = times[m]
    BY <1>4, <1>7, <2>1, AppendProperties
  <2> HIDE DEF e
  <2> QED
    BY <2>2
<1> HIDE DEF e
<1>9. \A m, n \in 1 .. d + 1 : m < n => e[m] <= e[n]
  <2> SUFFICES ASSUME NEW m \in 1 .. d + 1, NEW n \in 1 .. d + 1, m < n PROVE e[m] <= e[n]
    OBVIOUS
  <2>1. CASE n = d + 1
    BY <1>8, <2>1
  <2>2. CASE n # d + 1
    BY <1>4, <1>6, <1>8, <2>2
  <2> QED
    BY <2>1, <2>2
<1> QED
  BY <1>1, <1>4, <1>8, <1>9

(* Whatever the switches, every time of the range lies in one window.      *)
LEMMA WindowsCover ==
  ASSUME TypeOK, NEW begin \in Nat, NEW until \in Nat, begin < until
  PROVE  /\ Windows(begin, until) \in Seq(Window)
         /\ Len(Windows(begin, until)) >= 1
         /\ \A t \in begin .. until - 1 : InOneWindow(t, Windows(begin, until))
<1> DEFINE W == Windows(begin, until)
<1>0. PICK c \in Nat \ {0} : \E e \in [1 .. c -> begin .. until] :
        /\ SwitchEvents(begin, until) = e
        /\ e[c] = until
        /\ \A m, n \in 1 .. c : m < n => e[m] <= e[n]
  BY SwitchEventsFacts
<1>1. PICK e \in [1 .. c -> begin .. until] :
        /\ SwitchEvents(begin, until) = e
        /\ e[c] = until
        /\ \A m, n \in 1 .. c : m < n => e[m] <= e[n]
  BY <1>0
<1>2. e \in Seq(begin .. until) /\ Len(e) = c /\ DOMAIN e = 1 .. c
  OBVIOUS
<1>3. CASE c = 1
  <2>1. W = Partition(begin, until)
    BY <1>1, <1>2, <1>3 DEF Windows
  <2> HIDE DEF W
  <2> QED
    BY <2>1, PartitionCovers DEF W
<1>4. CASE c # 1
  <2> DEFINE b == << begin >> \o e
  <2>1. /\ b \in [1 .. c + 1 -> Nat]
        /\ b[1] = begin
        /\ \A n \in 1 .. c : b[n + 1] = e[n]
    <3>1. e \in Seq(Nat) /\ << begin >> \in Seq(Nat) /\ Len(<< begin >>) = 1
      BY <1>2
    <3>2. b \in Seq(Nat) /\ Len(b) = c + 1
      BY <1>2, <3>1, ConcatProperties
    <3>3. \A n \in 1 .. c + 1 : b[n] = IF n <= 1 THEN << begin >>[n] ELSE e[n - 1]
      BY <1>2, <3>1, ConcatProperties
    <3> HIDE DEF b
    <3> QED
      BY <3>2, <3>3
  <2>2. W = [n \in 1 .. c |-> [begin |-> b[n], end |-> b[n + 1]]]
    BY <1>1, <1>2, <1>4 DEF Windows
  <2> HIDE DEF b, W
  <2>3. \A m, n \in 1 .. c + 1 : m < n => b[m] <= b[n]
    <3> SUFFICES ASSUME NEW m \in 1 .. c + 1, NEW n \in 1 .. c + 1, m < n
                 PROVE  b[m] <= b[n]
      OBVIOUS
    <3>1. PICK j \in 1 .. c : n = j + 1
      <4>1. n - 1 \in 1 .. c /\ n = (n - 1) + 1
        OBVIOUS
      <4> QED
        BY <4>1
    <3>2. b[n] = e[j] /\ e[j] \in begin .. until
      BY <2>1, <3>1
    <3>3. CASE m = 1
      BY <2>1, <3>2, <3>3
    <3>4. CASE m # 1
      <4>1. m - 1 \in 1 .. c /\ m = (m - 1) + 1 /\ m - 1 < j
        BY <3>1, <3>4
      <4>2. b[m] = e[m - 1]
        BY <2>1, <4>1
      <4> QED
        BY <1>1, <3>2, <4>1, <4>2
    <3> QED
      BY <3>3, <3>4
  <2>4. W \in Seq(Window) /\ Len(W) = c
    <3>1. \A n \in 1 .. c : b[n] \in Nat /\ b[n + 1] \in Nat
      BY <2>1
    <3> QED
      BY <2>2, <3>1 DEF Window
  <2>5. ASSUME NEW t \in begin .. until - 1 PROVE InOneWindow(t, W)
    <3>1. b[1] <= t /\ t < b[c + 1] /\ t \in Nat
      BY <1>1, <2>1
    <3> QED
      BY <2>1, <2>2, <2>3, <3>1, CutIntoWindows
  <2> QED
    BY <2>4, <2>5 DEF W
<1> QED
  BY <1>3, <1>4

-----------------------------------------------------------------------------
(* Compared once *)

(* The current window still has the entry of k in front of it.             *)
Ahead(k) ==
  \/ check.pc = "count"
  \/ check.pc = "list" /\ check.shard <= HomeShard(k)
  \/ check.pc \in {"time", "read"} /\ (check.shard < HomeShard(k) \/ k \in check.keys)
  \/ check.pc = "read" /\ k = check.key

(* The entry of k still is what it was when the check began; one window    *)
(* has its write time, and it was compared there or will be.               *)
SteadyOK(k) ==
  LET e == check.steady[k]
      holds(n) == InWindow(e.at, check.windows[n]) IN
  /\ e = Live(k) /\ OnlyAtHome(k)
  /\ check.pc \in {"list", "time", "read"} => HomeShard(k) < check.count
  /\ check.pc \in {"time", "read"} /\ k \in check.keys => HomeShard(k) = check.shard
  /\ check.pc = "read" /\ k = check.key => HomeShard(k) = check.shard /\ holds(check.window)
  /\ \E n \in DOMAIN check.windows :
       /\ \A m \in DOMAIN check.windows : holds(m) <=> m = n
       /\ check.compared[k] = IF n < check.window \/ (n = check.window /\ ~Ahead(k)) THEN 1 ELSE 0

ComparedInv ==
  check.pc # "idle" =>
    /\ check.windows \in Seq(Window)
    /\ check.window \in DOMAIN check.windows
    /\ check.pc = "report" => check.window = Len(check.windows)
    /\ check.pc \in {"list", "time", "read"} => check.shard \in ShardIDs /\ check.shard < check.count
    /\ check.pc \in {"list", "time", "read"} => check.count <= MaxShards
    /\ check.pc = "read" => check.key \notin check.keys
    /\ \A k \in Keys : check.steady[k] # None => SteadyOK(k)

(* A key that is looked for where it was, as before.                       *)
LEMMA SameHome ==
  ASSUME UNCHANGED <<shards, routerShards, shardLen>>
  PROVE  \A k : /\ Live(k)' = Live(k) /\ HomeShard(k)' = HomeShard(k)
                /\ OnlyAtHome(k)' <=> OnlyAtHome(k)
BY DEF Live, HomeShard, Route, OnlyAtHome

LEMMA SteadyKept ==
  ASSUME NEW k \in Keys, SteadyOK(k), check'.steady[k] = check.steady[k],
         Live(k)' = Live(k), HomeShard(k)' = HomeShard(k), OnlyAtHome(k)',
         check'.pc = check.pc, check'.windows = check.windows, check'.window = check.window,
         check'.count = check.count, check'.shard = check.shard, check'.keys = check.keys,
         check'.key = check.key, check'.compared = check.compared
  PROVE  SteadyOK(k)'
BY DEF SteadyOK, Ahead

LEMMA StartCheckCompared ==
  ASSUME JobsInv, NEW begin \in 0 .. MaxTime + 1, NEW until \in 0 .. MaxTime + 1,
         StartCheck(begin, until)
  PROVE  ComparedInv'
<1> DEFINE windows == Windows(begin, until)
           steady == [k \in Keys |->
              IF /\ InRange(Live(k), begin, until)
                 /\ OnlyAtHome(k) /\ ~Stale(k, ResolveActive)
                 /\ \A q \in Readers : ~Overtaken(q, k)
              THEN Live(k) ELSE None]
<1>1. begin < until /\ begin \in Nat /\ until \in Nat /\ TypeOK /\ StoreTypeOK
  BY BoundsAssumption DEF StartCheck, JobsInv, ManagerOK, IInv
<1>2. /\ windows \in Seq(Window) /\ Len(windows) >= 1
      /\ \A t \in begin .. until - 1 : InOneWindow(t, windows)
  BY <1>1, WindowsCover
<1>3. UNCHANGED <<shards, routerShards, shardLen>>
  BY DEF StartCheck, storeVars
<1> HIDE DEF windows
<1>4. /\ check'.pc = "count" /\ check'.windows = windows /\ check'.window = 1
      /\ check'.keys = {} /\ check'.steady = steady
      /\ check'.compared = [k \in Keys |-> 0]
  BY DEF StartCheck, NoCheck, windows
<1>5. ASSUME NEW k \in Keys, steady[k] # None PROVE SteadyOK(k)'
  <2>1. /\ steady[k] = Live(k) /\ OnlyAtHome(k)
        /\ Live(k).at \in begin .. until - 1
    <3>1. Live(k) # None => Live(k).at \in Nat
      BY <1>1, LiveType, BoundsAssumption DEF Entry
    <3> QED
      BY <1>1, <1>5, <3>1 DEF InRange
  <2>2. PICK n \in DOMAIN windows : \A m \in DOMAIN windows : InWindow(Live(k).at, windows[m]) <=> m = n
    BY <1>2, <2>1 DEF InOneWindow
  <2>3. ~(n < 1) /\ Ahead(k)'
    BY <1>2, <1>4, <2>2 DEF Ahead
  <2> HIDE DEF steady
  <2> QED
    BY <1>3, <1>4, <2>1, <2>2, <2>3, SameHome DEF SteadyOK
<1> QED
  BY <1>2, <1>4, <1>5 DEF ComparedInv

(* The steps of a check under way: what they leave alone.                  *)
LEMMA UnderWay ==
  ASSUME JobsInv, ComparedInv, check.pc # "idle"
  PROVE  /\ check.windows \in Seq(Window) /\ Len(check.windows) \in Nat
         /\ DOMAIN check.windows = 1 .. Len(check.windows)
         /\ check.window \in DOMAIN check.windows
         /\ check.count \in Nat /\ check.shard \in Nat
         /\ check.compared \in [Keys -> Nat]
         /\ \A k \in Keys : HomeShard(k) \in Nat /\ HomeShard(k) < shardLen
<1>1. PICK w, d : check \in CheckState(w, d)
  BY DEF JobsInv, CheckInv
<1>2. check.windows \in Seq(Window) /\ check.window \in DOMAIN check.windows
  BY DEF ComparedInv
<1>3. \A k \in Keys : HomeShard(k) \in Nat /\ HomeShard(k) < shardLen
  BY RouteFacts, StoreAssumption DEF JobsInv, ShardIDs
<1> QED
  BY <1>1, <1>2, <1>3, LenProperties DEF CheckState

LEMMA CountShardsCompared ==
  ASSUME JobsInv, ComparedInv, CountShards
  PROVE  ComparedInv'
<1>1. check.pc = "count" /\ UNCHANGED <<shards, routerShards, shardLen>>
  BY DEF CountShards, storeVars
<1>2. PICK w, d : check \in CheckState(w, d)
  BY DEF JobsInv, CheckInv
<1>3. /\ check'.pc = "list" /\ check'.count = shardLen /\ check'.shard = 0
      /\ check'.windows = check.windows /\ check'.window = check.window
      /\ check'.steady = check.steady /\ check'.compared = check.compared
  BY <1>2 DEF CountShards, CheckState
<1>4. ASSUME NEW k \in Keys, check.steady[k] # None PROVE SteadyOK(k)'
  <2>1. SteadyOK(k)
    BY <1>1, <1>4 DEF ComparedInv
  <2>2. HomeShard(k) \in Nat /\ HomeShard(k) < shardLen /\ HomeShard(k)' = HomeShard(k)
    BY <1>1, SameHome, UnderWay
  <2>3. Ahead(k) /\ Ahead(k)'
    BY <1>1, <1>3, <2>2 DEF Ahead
  <2> QED
    BY <1>1, <1>3, <2>1, <2>2, <2>3, SameHome DEF SteadyOK
<1>5. 0 \in ShardIDs /\ 0 < shardLen /\ shardLen <= MaxShards
  BY StoreAssumption DEF JobsInv, StoreTypeOK, ShardIDs
<1> QED
  BY <1>1, <1>3, <1>4, <1>5 DEF ComparedInv

LEMMA ListWindowKeysCompared ==
  ASSUME JobsInv, ComparedInv, ListWindowKeys
  PROVE  ComparedInv'
<1>1. check.pc = "list" /\ UNCHANGED <<shards, routerShards, shardLen>>
  BY DEF ListWindowKeys, storeVars
<1>2. PICK w, d : check \in CheckState(w, d)
  BY DEF JobsInv, CheckInv
<1>3. /\ check'.pc = "time" /\ check'.keys = ShardKeys(check.shard)
      /\ check'.count = check.count /\ check'.shard = check.shard
      /\ check'.windows = check.windows /\ check'.window = check.window
      /\ check'.steady = check.steady /\ check'.compared = check.compared
  BY <1>2 DEF ListWindowKeys, CheckState
<1>4. ASSUME NEW k \in Keys, check.steady[k] # None PROVE SteadyOK(k)'
  <2>1. SteadyOK(k) /\ HomeShard(k) < check.count
    BY <1>1, <1>4 DEF ComparedInv, SteadyOK
  <2>2. HomeShard(k) \in Nat /\ HomeShard(k)' = HomeShard(k) /\ check.shard \in Nat
    BY <1>1, SameHome, UnderWay
  <2>3. k \in ShardKeys(check.shard) <=> HomeShard(k) = check.shard
    <3>1. shards[HomeShard(k)][k] # None
      BY <1>4, <2>1 DEF SteadyOK, Live
    <3>2. check.shard \in ShardIDs
      BY <1>1 DEF ComparedInv
    <3> QED
      BY <2>1, <3>1, <3>2 DEF SteadyOK, OnlyAtHome, ShardKeys
  <2>4. Ahead(k) <=> Ahead(k)'
    BY <1>1, <1>3, <2>2, <2>3 DEF Ahead
  <2> QED
    BY <1>1, <1>3, <2>1, <2>2, <2>3, <2>4, SameHome DEF SteadyOK
<1> QED
  BY <1>1, <1>3, <1>4 DEF ComparedInv

LEMMA CheckTimeCompared ==
  ASSUME JobsInv, ComparedInv, NEW j \in Keys, CheckTime(j)
  PROVE  ComparedInv'
<1> DEFINE due == Live(j) # None /\ InWindow(Live(j).at, check.windows[check.window])
<1>1. /\ check.pc = "time" /\ j \in check.keys
      /\ UNCHANGED <<shards, routerShards, shardLen>>
  BY DEF CheckTime, storeVars
<1>2. PICK w, d : check \in CheckState(w, d)
  BY DEF JobsInv, CheckInv
<1>3. /\ check'.pc = IF due THEN "read" ELSE "time"
      /\ check'.keys = check.keys \ {j}
      /\ due => check'.key = j
      /\ check'.count = check.count /\ check'.shard = check.shard
      /\ check'.windows = check.windows /\ check'.window = check.window
      /\ check'.steady = check.steady /\ check'.compared = check.compared
  BY <1>2, <1>1 DEF CheckTime, CheckState
<1> HIDE DEF due
<1>4. ASSUME NEW k \in Keys, check.steady[k] # None PROVE SteadyOK(k)'
  <2>1. SteadyOK(k)
    BY <1>1, <1>4 DEF ComparedInv
  <2>2. HomeShard(k) \in Nat /\ HomeShard(k)' = HomeShard(k)
    BY <1>1, SameHome, UnderWay
  <2>3. k = j => HomeShard(k) = check.shard
    BY <1>1, <2>1 DEF SteadyOK
  <2>4. PICK n \in DOMAIN check.windows :
          /\ \A m \in DOMAIN check.windows :
               InWindow(check.steady[k].at, check.windows[m]) <=> m = n
          /\ check.compared[k] =
               IF n < check.window \/ (n = check.window /\ ~Ahead(k)) THEN 1 ELSE 0
    BY <2>1 DEF SteadyOK
  <2>5. check.window \in DOMAIN check.windows /\ check.steady[k] = Live(k)
    BY <1>1, <2>1 DEF ComparedInv, SteadyOK
  <2>6. k = j => (due <=> n = check.window)
    BY <1>4, <2>4, <2>5 DEF due
  <2>7. n = check.window => (Ahead(k) <=> Ahead(k)')
    BY <1>1, <1>3, <2>2, <2>6 DEF Ahead
  <2>8. check'.pc = "read" /\ k = check'.key =>
          HomeShard(k) = check.shard /\ n = check.window
    BY <1>3, <2>3, <2>6
  <2>9. check'.compared[k] =
          IF n < check'.window \/ (n = check'.window /\ ~Ahead(k)') THEN 1 ELSE 0
    BY <1>3, <2>4, <2>7
  <2> QED
    BY <1>1, <1>3, <2>1, <2>2, <2>4, <2>5, <2>8, <2>9, SameHome DEF SteadyOK
<1> QED
  BY <1>1, <1>3, <1>4 DEF ComparedInv

LEMMA CompareKeyCompared ==
  ASSUME JobsInv, ComparedInv, CompareKey
  PROVE  ComparedInv'
<1>1. /\ check.pc = "read" /\ check.key \in Keys
      /\ UNCHANGED <<shards, routerShards, shardLen>>
  BY DEF CompareKey, CachePut, JobsInv, CheckInv
<1>2. PICK w, d : check \in CheckState(w, d)
  BY DEF JobsInv, CheckInv
<1>3. /\ check'.pc = "time" /\ check'.keys = check.keys
      /\ check'.count = check.count /\ check'.shard = check.shard
      /\ check'.windows = check.windows /\ check'.window = check.window
      /\ check'.steady = check.steady
      /\ check'.compared = [check.compared EXCEPT ![check.key] = @ + 1]
  <2>1. PICK diffs :
          check' = [check EXCEPT !.pc = "time", !.key = None,
                                 !.compared = [check.compared EXCEPT ![check.key] = @ + 1],
                                 !.diffs = diffs]
    BY <1>2 DEF CompareKey, CheckState
  <2> QED
    BY <1>2, <2>1 DEF CheckState
<1>4. ASSUME NEW k \in Keys, check.steady[k] # None PROVE SteadyOK(k)'
  <2>1. SteadyOK(k)
    BY <1>1, <1>4 DEF ComparedInv
  <2>2. HomeShard(k) \in Nat /\ HomeShard(k)' = HomeShard(k) /\ check.shard \in Nat
    BY <1>1, SameHome, UnderWay
  <2>3. PICK n \in DOMAIN check.windows :
          /\ \A m \in DOMAIN check.windows :
               InWindow(check.steady[k].at, check.windows[m]) <=> m = n
          /\ check.compared[k] =
               IF n < check.window \/ (n = check.window /\ ~Ahead(k)) THEN 1 ELSE 0
    BY <2>1 DEF SteadyOK
  <2>4. /\ check.window \in DOMAIN check.windows /\ check.steady[k] = Live(k)
        /\ check.window \in Nat /\ n \in Nat
    BY <1>1, <2>1, <2>3, UnderWay DEF SteadyOK
  <2>5. check'.compared[k] =
          IF n < check'.window \/ (n = check'.window /\ ~Ahead(k)') THEN 1 ELSE 0
    <3>1. CASE k = check.key
      <4>1. n = check.window /\ HomeShard(k) = check.shard /\ k \notin check.keys
        BY <1>1, <2>1, <2>3, <2>4, <3>1 DEF SteadyOK, ComparedInv
      <4>2. Ahead(k) /\ ~Ahead(k)'
        BY <1>1, <1>3, <2>2, <3>1, <4>1 DEF Ahead
      <4>3. check.compared[k] = 0 /\ check'.compared[k] = check.compared[k] + 1
        BY <1>3, <2>3, <2>4, <3>1, <4>1, <4>2, UnderWay, <1>1
      <4> QED
        BY <1>3, <4>1, <4>2, <4>3
    <3>2. CASE k # check.key
      <4>1. Ahead(k) <=> Ahead(k)'
        BY <1>1, <1>3, <2>2, <3>2 DEF Ahead
      <4>2. check'.compared[k] = check.compared[k]
        BY <1>1, <1>3, <3>2, UnderWay
      <4> QED
        BY <1>3, <2>3, <4>1, <4>2
    <3> QED
      BY <3>1, <3>2
  <2> QED
    BY <1>1, <1>3, <2>1, <2>2, <2>3, <2>4, <2>5, SameHome DEF SteadyOK
<1> QED
  BY <1>1, <1>3, <1>4 DEF ComparedInv

LEMMA NextWindowShardCompared ==
  ASSUME JobsInv, ComparedInv, NextWindowShard
  PROVE  ComparedInv'
<1>1. /\ check.pc = "time" /\ check.keys = {}
      /\ UNCHANGED <<shards, routerShards, shardLen>>
  BY DEF NextWindowShard, storeVars
<1>2. PICK w, d : check \in CheckState(w, d)
  BY DEF JobsInv, CheckInv
<1>3. /\ check'.windows = check.windows /\ check'.count = check.count /\ check'.keys = {}
      /\ check'.steady = check.steady /\ check'.compared = check.compared
      /\ \/ /\ check.shard + 1 < check.count
            /\ check'.pc = "list" /\ check'.shard = check.shard + 1
            /\ check'.window = check.window
         \/ /\ ~(check.shard + 1 < check.count)
            /\ check.window < Len(check.windows)
            /\ check'.pc = "count" /\ check'.window = check.window + 1
         \/ /\ ~(check.shard + 1 < check.count)
            /\ ~(check.window < Len(check.windows))
            /\ check'.pc = "report" /\ check'.window = check.window
  BY <1>1, <1>2 DEF NextWindowShard, CheckState
<1>4. /\ check.window \in 1 .. Len(check.windows) /\ Len(check.windows) \in Nat
      /\ check.shard \in Nat /\ check.count \in Nat
      /\ check.shard < check.count /\ check.count <= MaxShards /\ MaxShards \in Nat
  BY <1>1, UnderWay, StoreAssumption DEF ComparedInv
<1>5. ASSUME NEW k \in Keys, check.steady[k] # None PROVE SteadyOK(k)'
  <2>1. SteadyOK(k) /\ HomeShard(k) < check.count
    BY <1>1, <1>5 DEF ComparedInv, SteadyOK
  <2>2. HomeShard(k) \in Nat /\ HomeShard(k)' = HomeShard(k)
    BY <1>1, SameHome, UnderWay
  <2>3. PICK n \in DOMAIN check.windows :
          /\ \A m \in DOMAIN check.windows :
               InWindow(check.steady[k].at, check.windows[m]) <=> m = n
          /\ check.compared[k] =
               IF n < check.window \/ (n = check.window /\ ~Ahead(k)) THEN 1 ELSE 0
    BY <2>1 DEF SteadyOK
  <2>4. n \in 1 .. Len(check.windows)
    BY <1>1, UnderWay
  <2>5. Ahead(k) <=> check.shard < HomeShard(k)
    BY <1>1 DEF Ahead
  <2>6. check'.compared[k] =
          IF n < check'.window \/ (n = check'.window /\ ~Ahead(k)') THEN 1 ELSE 0
    <3>1. CASE check'.pc = "list"
      <4>1. Ahead(k) <=> Ahead(k)'
        BY <1>1, <1>3, <1>4, <2>2, <2>5, <3>1 DEF Ahead
      <4> QED
        BY <1>3, <2>3, <3>1, <4>1
    <3>2. CASE check'.pc = "count"
      <4>1. ~Ahead(k) /\ Ahead(k)'
        BY <1>3, <1>4, <2>1, <2>2, <2>5, <3>2 DEF Ahead
      <4> QED
        BY <1>3, <1>4, <2>3, <2>4, <3>2, <4>1
    <3>3. CASE check'.pc = "report"
      <4>1. ~Ahead(k) /\ ~Ahead(k)'
        BY <1>3, <1>4, <2>1, <2>2, <2>5, <3>3 DEF Ahead
      <4> QED
        BY <1>3, <1>4, <2>3, <2>4, <3>3, <4>1
    <3> QED
      BY <1>3, <3>1, <3>2, <3>3
  <2> QED
    BY <1>1, <1>3, <2>1, <2>2, <2>3, <2>6, SameHome DEF SteadyOK
<1>6. check'.window \in DOMAIN check'.windows
  BY <1>1, <1>3, <1>4, UnderWay
<1>7. /\ check'.pc = "report" => check'.window = Len(check'.windows)
      /\ check'.pc = "list" => check'.shard \in ShardIDs /\ check'.shard < check'.count
  BY <1>3, <1>4 DEF ShardIDs
<1> QED
  BY <1>1, <1>3, <1>4, <1>5, <1>6, <1>7 DEF ComparedInv

LEMMA CheckStepCompared ==
  ASSUME JobsInv, ComparedInv, CheckStep
  PROVE  ComparedInv'
<1>1. CASE Report
  BY <1>1 DEF Report, NoCheck, ComparedInv
<1> QED
  BY <1>1, StartCheckCompared, CountShardsCompared, ListWindowKeysCompared, CheckTimeCompared,
     CompareKeyCompared, NextWindowShardCompared DEF CheckStep

-----------------------------------------------------------------------------
(* What others do to the store during a check *)

(* An entry is removed, or written in the shard its key is looked for; a   *)
(* cache line is emptied.                                                  *)
StoreMoved ==
  \A k \in Keys :
    /\ cache'[k] \in {cache[k], EmptyCacheLine}
    /\ \A i \in ShardIDs \ {HomeShard(k)} : shards'[i][k] \in {shards[i][k], None}

LEMMA QuietMoved == UNCHANGED storeVars => StoreMoved
BY DEF storeVars, StoreMoved

LEMMA PutMoved ==
  ASSUME StoreTypeOK, NEW k \in Keys, NEW e \in Entry \cup {None}, PutEntry(k, e)
  PROVE  StoreMoved
BY PutEntryStep DEF StoreMoved

LEMMA ExpandMoved ==
  ASSUME StoreTypeOK, Expand
  PROVE  StoreMoved
<1>1. ASSUME NEW n \in 1 .. MaxShards, ExpandRouter(n) PROVE StoreMoved
  BY <1>1 DEF ExpandRouter, GrowRouter, StoreMoved
<1>2. CASE ExpandStore
  <2>1. /\ \A i \in ShardIDs : shards'[i] \in {shards[i], [k \in Keys |-> None]}
        /\ cache' = cache
    BY <1>2 DEF ExpandStore, GrowShards
  <2> QED
    BY <2>1 DEF StoreMoved
<1> QED
  BY <1>1, <1>2 DEF Expand

(* A draft and the passing of time leave the resolved version alone.       *)
LEMMA ResolvesSame ==
  ASSUME TypeOK,
         \/ Tick \/ UNCHANGED versionVars
         \/ \E t \in Tables : \E fields \in Schemas[t] : Create(t, fields)
  PROVE  ResolveActive' = ResolveActive
<1>1. CASE Tick \/ UNCHANGED versionVars
  BY <1>1 DEF Tick, versionVars, ResolveActive
<1>2. ASSUME NEW t \in Tables, NEW fields \in Schemas[t], Create(t, fields)
      PROVE  ResolveActive' = ResolveActive
  <2>1. active' = active
    BY <1>2 DEF Create
  <2>2. active # Nil => versions'[active] = versions[active]
    <3>1. active # Nil => active \in VersionIDs
      BY VersionsDomain DEF TypeOK, Nil
    <3> QED
      BY <1>2, <3>1, CreateStep
  <2> QED
    BY <2>1, <2>2 DEF ResolveActive
<1> QED
  BY <1>1, <1>2

(* A step is one of the check or of a reader, or they do not notice it, or *)
(* they observe a job or a switch of versions.                             *)
ObservesJob ==
  ObserveCheck(FALSE) /\ ObserveReads /\ StoreMoved /\ UNCHANGED versionVars

ObservesSwitch ==
  ObserveCheck(TRUE) /\ ObserveReads /\ StoreMoved /\ [Next]_versionVars

ObservesNothing ==
  /\ UNCHANGED <<storeVars, check, reading>>
  /\ [Next]_versionVars /\ ResolveActive' = ResolveActive

LEMMA KindsOfStep ==
  ASSUME JobsInv, [JobsNext]_jobVars
  PROVE  \/ CheckStep /\ UNCHANGED <<versionVars, reading>>
         \/ \E q \in Readers : OnlineRead(q)
         \/ ObservesNothing
         \/ ObservesJob
         \/ ObservesSwitch
<1>1. StoreTypeOK /\ TypeOK
  BY DEF JobsInv, ManagerOK, IInv
<1>2. ASSUME NEW b \in Batches, RunImport(b)
      PROVE  ObservesJob
  <2>1. UNCHANGED storeVars \/ \E k \in Keys, e \in Entry \cup {None} : PutEntry(k, e)
    BY <1>1, <1>2, ImporterStep DEF RunImport, JobsInv
  <2> QED
    BY <1>1, <1>2, <2>1, QuietMoved, PutMoved DEF RunImport, Observe, ObservesJob
<1>3. ASSUME RunScan
      PROVE  ObservesJob
  <2>1. IF scan.pc = "delete" THEN scan.key \in Keys /\ PutEntry(scan.key, None)
        ELSE UNCHANGED storeVars
    BY <1>1, <1>3, ScanStep DEF RunScan, JobsInv
  <2> QED
    BY <1>1, <1>3, <2>1, QuietMoved, PutMoved DEF RunScan, ObservesJob
<1>4. ASSUME NEW r \in Runners, RunBackfill(r)
      PROVE  ObservesJob
  <2>1. UNCHANGED storeVars \/ \E k \in Keys, e \in Entry : PutEntry(k, e)
    BY <1>1, <1>4, BackfillStepInv DEF RunBackfill, JobsInv
  <2> QED
    BY <1>1, <1>4, <2>1, QuietMoved, PutMoved DEF RunBackfill, Observe, ObservesJob
<1>5. ASSUME NEW k \in OnlineKeys, NEW fields \in Rows, OnlineWrite(k, fields)
      PROVE  ObservesJob
  <2>1. PICK v \in OnlineRefs, at \in 1 .. now : WriteAt(k, fields, v, at)
    BY <1>5 DEF OnlineWrite
  <2> DEFINE e == [fields |-> fields, version |-> v, at |-> at]
  <2>2. k \in Keys /\ e \in Entry /\ PutEntry(k, e)
    <3>1. at \in 0 .. MaxTime /\ v \in VersionRefs
      BY <1>1, BoundsAssumption, JobsAssumption DEF TypeOK
    <3> QED
      BY <2>1, <3>1, JobsAssumption DEF WriteAt, Entry
  <2> HIDE DEF e
  <2> QED
    BY <1>1, <1>5, <2>2, PutMoved DEF OnlineWrite, Observe, ObservesJob
<1>6. ASSUME Expand
      PROVE  ObservesJob
  <2>1. UNCHANGED versionVars
    BY <1>6 DEF Expand, ExpandRouter, ExpandStore, GrowRouter, GrowShards, versionVars
  <2> QED
    BY <1>1, <1>6, <2>1, ExpandMoved DEF Expand, Observe, ObservesJob
<1>7. CASE SwitchVersion
  <2>1. ASSUME ClearCache PROVE StoreMoved
    BY <2>1 DEF ClearCache, StoreMoved
  <2>2. ASSUME NEW t \in Tables, NEW fields \in Schemas[t], Create(t, fields),
               UNCHANGED <<storeVars, reading, check>>
        PROVE  ObservesNothing
    BY <1>1, <2>2, ResolvesSame DEF Next, ObservesNothing
  <2>3. ASSUME NEW id \in VersionIDs, Publish(id) \/ Rollback(id), ClearCache,
               ObserveCheck(TRUE), ObserveReads
        PROVE  ObservesSwitch
    BY <2>1, <2>3 DEF Next, ObservesSwitch
  <2> QED
    BY <1>7, <2>2, <2>3 DEF SwitchVersion
<1>8. CASE Clock
  BY <1>1, <1>8, ResolvesSame DEF Clock, Next, ObservesNothing
<1>9. CASE UNCHANGED jobVars
  BY <1>1, <1>9, ResolvesSame DEF jobVars, versionVars, storeVars, ObservesNothing
<1> QED
  BY <1>2, <1>3, <1>4, <1>5, <1>6, <1>7, <1>8, <1>9 DEF JobsNext, RunCheck

LEMMA Observed ==
  ASSUME JobsInv, NEW switch \in BOOLEAN, ObserveCheck(switch)
  PROVE  /\ check'.pc = check.pc /\ check'.windows = check.windows
         /\ check'.window = check.window /\ check'.count = check.count
         /\ check'.shard = check.shard /\ check'.keys = check.keys /\ check'.key = check.key
         /\ check'.diffs = check.diffs /\ check'.compared = check.compared
         /\ check'.steady = [k \in Keys |-> IF Undisturbed(k) THEN check.steady[k] ELSE None]
         /\ check.pc # "idle" => check'.switched = (check.switched \/ switch)
<1> DEFINE steady == [k \in Keys |-> IF Undisturbed(k) THEN check.steady[k] ELSE None]
<1>1. PICK w, d : check \in CheckState(w, d)
  BY DEF JobsInv, CheckInv
<1>2. PICK switched \in BOOLEAN :
        /\ check.pc # "idle" => switched = (check.switched \/ switch)
        /\ check' = [check EXCEPT !.steady = steady, !.switched = switched]
  <2>1. check' = [check EXCEPT !.steady = steady,
                               !.switched = check.pc # "idle" /\ (check.switched \/ switch)]
    BY <1>1 DEF ObserveCheck, CheckState
  <2>2. check.switched \in BOOLEAN
    BY <1>1 DEF CheckState
  <2> HIDE DEF steady
  <2> QED
    BY <2>1, <2>2
<1> HIDE DEF steady
<1>3. /\ check'.pc = check.pc /\ check'.windows = check.windows
      /\ check'.window = check.window /\ check'.count = check.count
      /\ check'.shard = check.shard /\ check'.keys = check.keys /\ check'.key = check.key
      /\ check'.diffs = check.diffs /\ check'.compared = check.compared
      /\ check'.steady = steady /\ check'.switched = switched
  BY <1>1, <1>2 DEF CheckState
<1> QED
  BY <1>2, <1>3 DEF steady

(* A key that is left alone keeps its place.                               *)
LEMMA UndisturbedAtHome ==
  ASSUME StoreMoved, NEW k \in Keys, Undisturbed(k), OnlyAtHome(k)
  PROVE  OnlyAtHome(k)'
BY DEF StoreMoved, Undisturbed, OnlyAtHome

LEMMA ObserveCompared ==
  ASSUME JobsInv, ComparedInv, NEW switch \in BOOLEAN, ObserveCheck(switch), StoreMoved
  PROVE  ComparedInv'
<1>1. ASSUME NEW k \in Keys, check.pc # "idle", check'.steady[k] # None PROVE SteadyOK(k)'
  <2>1. Undisturbed(k) /\ check'.steady[k] = check.steady[k]
    BY <1>1, Observed
  <2>2. SteadyOK(k) /\ OnlyAtHome(k)
    BY <1>1, <2>1 DEF ComparedInv, SteadyOK
  <2>3. OnlyAtHome(k)'
    BY <2>1, <2>2, UndisturbedAtHome
  <2>4. Live(k)' = Live(k) /\ HomeShard(k)' = HomeShard(k)
    BY <2>1 DEF Undisturbed
  <2> QED
    BY <2>1, <2>2, <2>3, <2>4, Observed, SteadyKept
<1> QED
  BY <1>1, Observed DEF ComparedInv

LEMMA QuietCompared ==
  ASSUME ComparedInv, UNCHANGED <<shards, routerShards, shardLen, check>>
  PROVE  ComparedInv'
<1>1. ASSUME NEW k \in Keys, SteadyOK(k) PROVE SteadyOK(k)'
  BY <1>1, SameHome, SteadyKept DEF SteadyOK
<1> QED
  BY <1>1 DEF ComparedInv

LEMMA OnlineReadCompared ==
  ASSUME JobsInv, ComparedInv, NEW q \in Readers, OnlineRead(q)
  PROVE  ComparedInv'
<1>1. UNCHANGED <<shards, routerShards, shardLen, check>>
  BY OnlineReadStep DEF JobsInv, OnlineRead
<1> QED
  BY <1>1, QuietCompared

LEMMA ComparedStep == JobsInv /\ ComparedInv /\ [JobsNext]_jobVars => ComparedInv'
<1> SUFFICES ASSUME JobsInv, ComparedInv, [JobsNext]_jobVars PROVE ComparedInv'
  OBVIOUS
<1>1. ASSUME ObservesNothing PROVE ComparedInv'
  BY <1>1, QuietCompared DEF ObservesNothing, storeVars
<1> QED
  BY <1>1, KindsOfStep, CheckStepCompared, OnlineReadCompared, ObserveCompared
  DEF ObservesJob, ObservesSwitch

LEMMA AlwaysCompared == JobsSpec => [](JobsInv /\ ComparedInv)
<1>1. JobsInit => ComparedInv
  BY DEF JobsInit, NoCheck, ComparedInv
<1> QED
  BY <1>1, JobsInitInv, JobsStep, ComparedStep, PTL DEF JobsSpec

(* Compared once: when a check reports, an entry that was written in its   *)
(* range and left alone since has been compared in exactly one window,     *)
(* whatever is published, rolled back, written, expired or re-routed       *)
(* meanwhile, for any range, any step and any number of shards.            *)
THEOREM ComparesOnce == JobsSpec => []ComparedOnce
<1>1. JobsInv /\ ComparedInv => ComparedOnce
  <2> SUFFICES ASSUME JobsInv, ComparedInv, check.pc = "report",
                      NEW k \in Keys, check.steady[k] # None
               PROVE  check.compared[k] = 1
    BY DEF ComparedOnce
  <2>1. SteadyOK(k) /\ ~Ahead(k) /\ check.window = Len(check.windows)
    BY DEF ComparedInv, Ahead
  <2>2. PICK n \in DOMAIN check.windows :
          check.compared[k] =
            IF n < check.window \/ (n = check.window /\ ~Ahead(k)) THEN 1 ELSE 0
    BY <2>1 DEF SteadyOK
  <2>3. n \in 1 .. Len(check.windows) /\ Len(check.windows) \in Nat
    BY <2>2, UnderWay
  <2> QED
    BY <2>1, <2>2, <2>3
<1> QED
  BY <1>1, AlwaysCompared, PTL

-----------------------------------------------------------------------------
(* What online readers are about to cache *)

(* A reader that was not overtaken has copied what a read would give now.  *)
FreshCopy(q) ==
  LET copy == reading[q] IN
  copy # None /\ ~copy.raced =>
    Known(copy.ver) /\ copy.snap = View(Live(copy.key), copy.ver)

FreshCopies == \A q \in Readers : FreshCopy(q)

LEMMA ViewKept ==
  ASSUME ManagerOK, [Next]_versionVars, NEW v, Known(v), NEW k, Live(k)' = Live(k)
  PROVE  Known(v)' /\ View(Live(k), v)' = View(Live(k), v)
<1>1. Known(v)' /\ Layout(v)' = Layout(v)
  BY LayoutKept
<1> QED
  BY <1>1 DEF View, EmptySnapshot, Filtered

LEMMA FreshCopyKept ==
  ASSUME JobsInv, [Next]_versionVars, NEW q \in Readers, FreshCopy(q),
         reading'[q] = reading[q], Live(reading[q].key)' = Live(reading[q].key)
  PROVE  FreshCopy(q)'
<1>1. CASE reading[q] = None \/ reading[q].raced
  BY <1>1 DEF FreshCopy
<1>2. CASE reading[q] # None /\ ~reading[q].raced
  <2>1. PICK k, v : k = reading[q].key /\ v = reading[q].ver
    OBVIOUS
  <2>2. Known(v) /\ reading[q].snap = View(Live(k), v) /\ ManagerOK /\ Live(k)' = Live(k)
    BY <1>2, <2>1 DEF FreshCopy, JobsInv
  <2>3. Known(v)' /\ View(Live(k), v)' = View(Live(k), v)
    BY <2>2, ViewKept
  <2> QED
    BY <2>1, <2>2, <2>3 DEF FreshCopy
<1> QED
  BY <1>1, <1>2

LEMMA ObserveFresh ==
  ASSUME JobsInv, FreshCopies, ObserveReads, [Next]_versionVars
  PROVE  FreshCopies'
<1> SUFFICES ASSUME NEW q \in Readers PROVE FreshCopy(q)'
  BY DEF FreshCopies
<1>1. CASE reading[q] # None /\ ~Undisturbed(reading[q].key)
  <2>1. reading[q] \in Copy
    BY <1>1 DEF JobsInv, ReadingInv
  <2>2. reading[q].key \in {k \in Keys : ~Undisturbed(k)}
    BY <1>1, <2>1 DEF Copy
  <2>3. reading'[q] = [reading[q] EXCEPT !.raced = TRUE]
    BY <1>1, <2>2 DEF ObserveReads
  <2>4. reading'[q].raced
    BY <2>1, <2>3 DEF Copy
  <2> QED
    BY <2>4 DEF FreshCopy
<1>2. CASE reading[q] # None /\ Undisturbed(reading[q].key)
  <2>1. reading'[q] = reading[q]
    BY <1>2 DEF ObserveReads
  <2>2. Live(reading[q].key)' = Live(reading[q].key)
    BY <1>2 DEF Undisturbed
  <2> QED
    BY <2>1, <2>2, FreshCopyKept DEF FreshCopies
<1>3. CASE reading[q] = None
  <2>1. reading'[q] = None
    BY <1>3 DEF ObserveReads
  <2> QED
    BY <2>1 DEF FreshCopy
<1> QED
  BY <1>1, <1>2, <1>3

(* A step that leaves the copies and the entries alone.                    *)
LEMMA QuietFresh ==
  ASSUME JobsInv, FreshCopies, UNCHANGED <<shards, routerShards, shardLen, reading>>,
         [Next]_versionVars
  PROVE  FreshCopies'
<1>1. \A k : Live(k)' = Live(k)
  BY SameHome
<1> QED
  BY <1>1, FreshCopyKept DEF FreshCopies

(* A copy of an entry in its place is what a read gives.                   *)
LEMMA FoundIsLive ==
  ASSUME JobsInv, NEW k \in Keys, Route(k) < shardLen
  PROVE  Found(k) = View(Live(k), ResolveActive)
<1>1. Live(k) = shards[Route(k)][k]
  BY RouteFacts DEF JobsInv, Live
<1> QED
  BY <1>1 DEF Found

LEMMA OnlineReadFresh ==
  ASSUME JobsInv, FreshCopies, NEW q \in Readers, OnlineRead(q)
  PROVE  FreshCopies'
<1>1. UNCHANGED <<shards, routerShards, shardLen, versionVars>> /\ ManagerOK
  BY OnlineReadStep DEF JobsInv, OnlineRead
<1>2. \A k : Live(k)' = Live(k)
  BY <1>1, SameHome
<1>3. ASSUME NEW p \in Readers, reading'[p] = reading[p] PROVE FreshCopy(p)'
  BY <1>1, <1>2, <1>3, FreshCopyKept DEF FreshCopies
<1>4. reading \in [Readers -> Copy \cup {None}]
  BY DEF JobsInv, ReadingInv
<1>5. FreshCopy(q)'
  <2>1. ASSUME NEW k \in OnlineKeys, CopyMissed(q, k) PROVE FreshCopy(q)'
    <3>1. PICK v : v = ResolveActive /\ Known(v)
      BY <1>1, ResolvesKnown
    <3>2. reading'[q] = [key |-> k, ver |-> v, snap |-> Found(k), raced |-> FALSE]
      BY <1>4, <2>1, <3>1 DEF CopyMissed
    <3>3. Found(k) = View(Live(k), v)
      BY <2>1, <3>1, FoundIsLive, JobsAssumption DEF CopyMissed
    <3>4. Known(v)' /\ View(Live(k), v)' = View(Live(k), v)
      BY <1>1, <1>2, <3>1, ViewKept
    <3>5. reading'[q].key = k /\ reading'[q].ver = v /\ reading'[q].snap = Found(k)
      BY <3>2
    <3> QED
      BY <3>3, <3>4, <3>5 DEF FreshCopy
  <2>2. ASSUME PutCopy(q) PROVE FreshCopy(q)'
    <3>1. reading'[q] = None
      BY <1>4, <2>2 DEF PutCopy
    <3> QED
      BY <3>1 DEF FreshCopy
  <2> QED
    BY <2>1, <2>2 DEF OnlineRead
<1>6. \A p \in Readers \ {q} : reading'[p] = reading[p]
  BY <1>4 DEF OnlineRead, CopyMissed, PutCopy
<1> QED
  BY <1>3, <1>5, <1>6 DEF FreshCopies

(* The check puts into the cache, too, but writes no entry.                *)
LEMMA CheckLeavesEntries ==
  ASSUME CheckStep
  PROVE  UNCHANGED <<shards, routerShards, shardLen>>
BY DEF CheckStep, StartCheck, CountShards, ListWindowKeys, CheckTime, CompareKey,
       NextWindowShard, Report, CachePut, storeVars

LEMMA FreshStep == JobsInv /\ FreshCopies /\ [JobsNext]_jobVars => FreshCopies'
<1> SUFFICES ASSUME JobsInv, FreshCopies, [JobsNext]_jobVars PROVE FreshCopies'
  OBVIOUS
<1>1. ASSUME CheckStep, UNCHANGED <<versionVars, reading>> PROVE FreshCopies'
  BY <1>1, CheckLeavesEntries, QuietFresh
<1>2. ASSUME ObservesNothing PROVE FreshCopies'
  BY <1>2, QuietFresh DEF ObservesNothing, storeVars
<1>3. ASSUME ObservesJob \/ ObservesSwitch PROVE FreshCopies'
  BY <1>3, ObserveFresh DEF ObservesJob, ObservesSwitch
<1> QED
  BY <1>1, <1>2, <1>3, KindsOfStep, OnlineReadFresh

-----------------------------------------------------------------------------
(* Differences reported *)

(* The differences found for k, if it has been compared, are those of what *)
(* a read of its entry shows; the cache holds nothing else, and no reader  *)
(* is about to put anything else there.                                    *)
DiffsOK(k) ==
  LET shown == View(check.steady[k], ResolveActive) IN
  /\ ~Stale(k, ResolveActive)
  /\ \A q \in Readers : ~Overtaken(q, k)
  /\ \E n \in Nat :
       {d \in check.diffs : d.key = k} =
         IF check.compared[k] = 0 THEN {}
         ELSE {[key |-> k, field |-> f, window |-> n] : f \in DiffFields(k, shown)}

ReportedInv ==
  (check.pc # "idle" /\ ~check.switched) =>
    /\ check.diffs \subseteq [key : Keys, field : Fields, window : Nat]
    /\ \A k \in Keys : check.steady[k] # None => DiffsOK(k)

LEMMA ViewSame ==
  ASSUME ManagerOK, [Next]_versionVars, ResolveActive' = ResolveActive,
         NEW k \in Keys, Live(k)' = Live(k), check'.steady[k] = check.steady[k]
  PROVE  /\ View(Live(k), ResolveActive)' = View(Live(k), ResolveActive)
         /\ View(check.steady[k], ResolveActive)' = View(check.steady[k], ResolveActive)
<1>1. PICK v : v = ResolveActive
  OBVIOUS
<1>2. Layout(v)' = Layout(v)
  BY <1>1, ResolvesKnown, LayoutKept
<1>3. Layout(ResolveActive)' = Layout(ResolveActive)
  BY <1>1, <1>2 DEF Layout
<1> QED
  BY <1>3 DEF View, EmptySnapshot, Filtered

(* A key that is left alone, and whose line in the cache is left alone or  *)
(* emptied.                                                                *)
LEMMA DiffsKept ==
  ASSUME JobsInv, [Next]_versionVars, ResolveActive' = ResolveActive,
         NEW k \in Keys, DiffsOK(k), Live(k)' = Live(k), check'.steady[k] = check.steady[k],
         cache'[k] \in {cache[k], EmptyCacheLine},
         \A q \in Readers : ~Overtaken(q, k)',
         check'.diffs = check.diffs, check'.compared = check.compared
  PROVE  DiffsOK(k)'
<1>1. /\ View(Live(k), ResolveActive)' = View(Live(k), ResolveActive)
      /\ View(check.steady[k], ResolveActive)' = View(check.steady[k], ResolveActive)
  BY ViewSame DEF JobsInv
<1>2. ResolveActive \in VersionRefs
  BY ResolvesKnown, KnownRefs DEF JobsInv
<1>3. ~Stale(k, ResolveActive)'
  <2>1. cache'[k][ResolveActive] = cache[k][ResolveActive] \/ cache'[k][ResolveActive] = None
    BY <1>2 DEF EmptyCacheLine
  <2> QED
    BY <1>1, <2>1 DEF DiffsOK, Stale, CacheHit
<1> QED
  BY <1>1, <1>3 DEF DiffsOK, DiffFields

LEMMA ObserveReported ==
  ASSUME JobsInv, ReportedInv, ObservesJob
  PROVE  ReportedInv'
<1>0. /\ FALSE \in BOOLEAN /\ UNCHANGED versionVars
      /\ ObserveCheck(FALSE) /\ ObserveReads /\ StoreMoved
  BY DEF ObservesJob
<1>1. ASSUME NEW k \in Keys, check.pc # "idle", ~check.switched, check'.steady[k] # None
      PROVE  DiffsOK(k)'
  <2>1. Undisturbed(k) /\ check'.steady[k] = check.steady[k]
    BY <1>0, <1>1, Observed
  <2>2. DiffsOK(k)
    BY <1>1, <2>1 DEF ReportedInv
  <2>3. Live(k)' = Live(k) /\ cache'[k] \in {cache[k], EmptyCacheLine}
    BY <1>0, <2>1 DEF Undisturbed, StoreMoved
  <2>4. ResolveActive' = ResolveActive
    BY <1>0 DEF versionVars, ResolveActive
  <2>5. check'.diffs = check.diffs /\ check'.compared = check.compared
    BY <1>0, Observed
  <2>6. \A q \in Readers : ~Overtaken(q, k)'
    <3> SUFFICES ASSUME NEW q \in Readers PROVE ~Overtaken(q, k)'
      OBVIOUS
    <3>1. reading[q] = None \/ reading[q] \in Copy
      BY DEF JobsInv, ReadingInv
    <3>2. \/ reading'[q] = reading[q]
          \/ /\ reading[q] \in Copy /\ reading[q].key # k
             /\ reading'[q] = [reading[q] EXCEPT !.raced = TRUE]
      BY <1>0, <2>1, <3>1 DEF ObserveReads
    <3> QED
      BY <2>2, <3>2 DEF DiffsOK, Overtaken, Copy
  <2> QED
    BY <1>0, <2>1, <2>2, <2>3, <2>4, <2>5, <2>6, DiffsKept
<1>2. /\ check'.pc = check.pc /\ check'.diffs = check.diffs
      /\ check.pc # "idle" => check'.switched = check.switched
  <2>1. check.switched \in BOOLEAN
    BY DEF JobsInv, CheckInv, CheckState
  <2> QED
    BY <1>0, <2>1, Observed
<1> QED
  BY <1>1, <1>2 DEF ReportedInv

LEMMA QuietReported ==
  ASSUME JobsInv, ReportedInv, ObservesNothing
  PROVE  ReportedInv'
<1>1. /\ cache' = cache /\ reading' = reading /\ check' = check
      /\ UNCHANGED <<shards, routerShards, shardLen>>
      /\ [Next]_versionVars /\ ResolveActive' = ResolveActive
  BY DEF ObservesNothing, storeVars
<1>2. ASSUME NEW k \in Keys, DiffsOK(k) PROVE DiffsOK(k)'
  <2>1. Live(k)' = Live(k)
    BY <1>1, SameHome
  <2>2. \A q \in Readers : ~Overtaken(q, k)'
    BY <1>1, <1>2 DEF DiffsOK, Overtaken
  <2> QED
    BY <1>1, <1>2, <2>1, <2>2, DiffsKept
<1> QED
  BY <1>1, <1>2 DEF ReportedInv

(* A reader that was not overtaken puts what a read gives now.             *)
LEMMA OnlineReadReported ==
  ASSUME JobsInv, ReportedInv, FreshCopies, NEW q \in Readers, OnlineRead(q)
  PROVE  ReportedInv'
<1>1. /\ UNCHANGED <<shards, routerShards, shardLen, versionVars, check>>
      /\ ManagerOK /\ StoreTypeOK
  BY OnlineReadStep DEF JobsInv, OnlineRead
<1>2. ResolveActive' = ResolveActive
  BY <1>1 DEF versionVars, ResolveActive
<1>3. reading \in [Readers -> Copy \cup {None}]
  BY DEF JobsInv, ReadingInv
<1>4. ASSUME NEW k \in Keys, DiffsOK(k) PROVE DiffsOK(k)'
  <2>1. Live(k)' = Live(k) /\ check'.steady[k] = check.steady[k]
    BY <1>1, SameHome
  <2>2. \A p \in Readers : ~Overtaken(p, k)'
    BY <1>3, <1>4 DEF DiffsOK, Overtaken, OnlineRead, CopyMissed, PutCopy
  <2>3. CASE cache'[k] = cache[k]
    BY <1>1, <1>2, <1>4, <2>1, <2>2, <2>3, DiffsKept
  <2>4. CASE cache'[k] # cache[k]
    <3>1. PutCopy(q)
      BY <2>4 DEF OnlineRead, CopyMissed, storeVars
    <3>2. /\ reading[q] \in Copy /\ reading[q] # None
          /\ reading[q].key \in Keys /\ reading[q].ver \in VersionRefs
      BY <1>3, <3>1 DEF PutCopy, Copy
    <3>3. cache' = [cache EXCEPT ![reading[q].key][reading[q].ver] = reading[q].snap]
      BY <3>1 DEF PutCopy, CachePut
    <3>4. reading[q].key = k /\ cache[k] \in [VersionRefs -> Snapshot \cup {None}]
      BY <1>1, <2>4, <3>2, <3>3 DEF StoreTypeOK
    <3>5. reading[q].snap = View(Live(k), reading[q].ver)
      BY <1>4, <3>2, <3>4 DEF FreshCopies, FreshCopy, DiffsOK, Overtaken
    <3>6. /\ View(Live(k), ResolveActive)' = View(Live(k), ResolveActive)
          /\ View(check.steady[k], ResolveActive)' = View(check.steady[k], ResolveActive)
      BY <1>1, <1>2, <2>1, ViewSame
    <3>7. cache'[k] = [cache[k] EXCEPT ![reading[q].ver] = reading[q].snap]
      BY <1>1, <3>2, <3>3, <3>4 DEF StoreTypeOK
    <3>8. ~Stale(k, ResolveActive)'
      <4>1. \/ cache'[k][ResolveActive] = cache[k][ResolveActive]
            \/ cache'[k][ResolveActive] = View(Live(k), ResolveActive)
        BY <3>4, <3>5, <3>7
      <4> QED
        BY <1>2, <1>4, <3>6, <4>1 DEF DiffsOK, Stale, CacheHit
    <3>9. check' = check
      BY <1>1
    <3> QED
      BY <1>4, <2>2, <3>6, <3>8, <3>9 DEF DiffsOK, DiffFields
  <2> QED
    BY <2>3, <2>4
<1> QED
  BY <1>1, <1>4 DEF ReportedInv

LEMMA SwitchReported ==
  ASSUME JobsInv, ObservesSwitch
  PROVE  ReportedInv'
<1> DEFINE switch == TRUE
<1>1. switch \in BOOLEAN /\ ObserveCheck(switch)
  BY DEF ObservesSwitch
<1>2. switch
  OBVIOUS
<1> HIDE DEF switch
<1>3. check'.pc = check.pc /\ (check.pc # "idle" => check'.switched = (check.switched \/ switch))
  BY <1>1, Observed
<1> QED
  BY <1>2, <1>3 DEF ReportedInv

(* The entry that is about to be read has not been compared.               *)
LEMMA ReadOnce ==
  ASSUME JobsInv, ComparedInv, check.pc = "read", check.steady[check.key] # None
  PROVE  SteadyOK(check.key) /\ check.compared[check.key] = 0
<1>1. PICK k \in Keys : k = check.key
  BY DEF JobsInv, CheckInv
<1>2. SteadyOK(k)
  BY <1>1 DEF ComparedInv
<1>3. PICK n \in DOMAIN check.windows :
        /\ \A m \in DOMAIN check.windows :
             InWindow(check.steady[k].at, check.windows[m]) <=> m = n
        /\ check.compared[k] =
             IF n < check.window \/ (n = check.window /\ ~Ahead(k)) THEN 1 ELSE 0
  BY <1>2 DEF SteadyOK
<1>4. n = check.window /\ check.window \in Nat
  BY <1>1, <1>2, <1>3, UnderWay DEF SteadyOK
<1>5. Ahead(k)
  BY <1>1 DEF Ahead
<1> QED
  BY <1>1, <1>2, <1>3, <1>4, <1>5

(* A read of an entry in its place, with nothing stale in the cache.       *)
LEMMA ReadShowsLive ==
  ASSUME JobsInv, NEW k \in Keys, Route(k) < shardLen, ~Stale(k, ResolveActive)
  PROVE  ReadNow(k) = View(Live(k), ResolveActive)
BY FoundIsLive DEF ReadNow, Stale, CacheHit

LEMMA CompareKeyReported ==
  ASSUME JobsInv, ComparedInv, ReportedInv, CompareKey, UNCHANGED <<versionVars, reading>>
  PROVE  ReportedInv'
<1> DEFINE found(j) == {[key |-> j, field |-> f, window |-> check.window] :
                     f \in DiffFields(j, ReadNow(j))}
<1>1. PICK j \in Keys : j = check.key
  BY DEF JobsInv, CheckInv, CompareKey
<1>2. /\ check.pc = "read" /\ Route(j) < shardLen
      /\ CachePut(j, ResolveActive, ReadNow(j))
      /\ UNCHANGED <<shards, routerShards, shardLen>>
  BY <1>1 DEF CompareKey, CachePut
<1>3. PICK w, d : check \in CheckState(w, d)
  BY DEF JobsInv, CheckInv
<1>4. /\ check'.pc = "time" /\ check'.steady = check.steady
      /\ check'.switched = check.switched
      /\ check'.compared = [check.compared EXCEPT ![j] = @ + 1]
      /\ check'.diffs = check.diffs \cup found(j)
  <2>1. check' = [check EXCEPT !.pc = "time", !.key = None,
                               !.compared = [check.compared EXCEPT ![j] = @ + 1],
                               !.diffs = check.diffs \cup found(j)]
    BY <1>1, <1>3 DEF CompareKey, CheckState
  <2> QED
    BY <1>3, <2>1 DEF CheckState
<1>5. /\ check.window \in Nat /\ check.compared \in [Keys -> Nat]
      /\ ResolveActive \in VersionRefs /\ ManagerOK /\ StoreTypeOK
      /\ ResolveActive' = ResolveActive
  BY <1>2, UnderWay, ResolvesKnown, KnownRefs DEF JobsInv, versionVars, ResolveActive
<1>6. /\ cache'[j][ResolveActive] = ReadNow(j)
      /\ \A k \in Keys \ {j} : cache'[k] = cache[k]
  BY <1>2, <1>5 DEF CachePut, StoreTypeOK
<1>7. found(j) \subseteq [key : Keys, field : Fields, window : Nat]
  BY <1>5 DEF DiffFields
<1>8. \A k : Live(k)' = Live(k)
  BY <1>2, SameHome
<1>9. ASSUME NEW k \in Keys, ~check.switched, check.steady[k] # None PROVE DiffsOK(k)'
  <2>1. DiffsOK(k) /\ SteadyOK(k) /\ check.diffs \subseteq [key : Keys, field : Fields, window : Nat]
    BY <1>2, <1>9 DEF ReportedInv, ComparedInv
  <2>2. /\ View(Live(k), ResolveActive)' = View(Live(k), ResolveActive)
        /\ View(check.steady[k], ResolveActive)' = View(check.steady[k], ResolveActive)
    BY <1>4, <1>5, <1>8, ViewSame
  <2>3. check.steady[k] = Live(k) /\ \A q \in Readers : ~Overtaken(q, k)'
    BY <2>1 DEF SteadyOK, DiffsOK, Overtaken
  <2>4. CASE k = j
    <3>1. check.compared[k] = 0 /\ check'.compared[k] # 0
      BY <1>1, <1>2, <1>4, <1>5, <1>9, <2>4, ReadOnce
    <3>2. ReadNow(k) = View(Live(k), ResolveActive)
      BY <1>2, <2>1, <2>4, ReadShowsLive DEF DiffsOK
    <3>3. {x \in check.diffs : x.key = k} = {}
      BY <2>1, <3>1 DEF DiffsOK
    <3>4. {x \in check'.diffs : x.key = k} = found(j)
      BY <1>4, <2>4, <3>3
    <3>5. ~Stale(k, ResolveActive)'
      BY <1>5, <1>6, <2>2, <2>4, <3>2 DEF Stale, CacheHit
    <3>6. found(j) = {[key |-> k, field |-> f, window |-> check.window] :
                        f \in DiffFields(k, View(check.steady[k], ResolveActive))}
      BY <2>3, <2>4, <3>2
    <3> HIDE DEF found
    <3> QED
      BY <1>5, <2>2, <2>3, <3>1, <3>4, <3>5, <3>6 DEF DiffsOK, DiffFields
  <2>5. CASE k # j
    <3>1. {x \in check'.diffs : x.key = k} = {x \in check.diffs : x.key = k}
      BY <1>4, <2>5
    <3>2. check'.compared[k] = check.compared[k]
      BY <1>4, <1>5, <2>5
    <3>3. ~Stale(k, ResolveActive)'
      BY <1>5, <1>6, <2>1, <2>2, <2>5 DEF Stale, CacheHit, DiffsOK
    <3> HIDE DEF found
    <3> QED
      BY <2>1, <2>2, <2>3, <3>1, <3>2, <3>3 DEF DiffsOK, DiffFields
  <2> QED
    BY <2>4, <2>5
<1> HIDE DEF found
<1> QED
  BY <1>2, <1>4, <1>7, <1>9 DEF ReportedInv

LEMMA CheckStepReported ==
  ASSUME JobsInv, ComparedInv, ReportedInv, CheckStep, UNCHANGED <<versionVars, reading>>
  PROVE  ReportedInv'
<1>1. PICK w, d : check \in CheckState(w, d)
  BY DEF JobsInv, CheckInv
<1>2. ResolveActive' = ResolveActive
  BY DEF versionVars, ResolveActive
<1>3. ASSUME UNCHANGED storeVars, check.pc # "idle",
             check'.diffs = check.diffs, check'.compared = check.compared,
             check'.steady = check.steady, check'.switched = check.switched
      PROVE  ReportedInv'
  <2>1. cache' = cache /\ UNCHANGED <<shards, routerShards, shardLen>>
    BY <1>3 DEF storeVars
  <2>2. ASSUME NEW k \in Keys, DiffsOK(k) PROVE DiffsOK(k)'
    <3>1. Live(k)' = Live(k)
      BY <2>1, SameHome
    <3>2. \A q \in Readers : ~Overtaken(q, k)'
      BY <2>2 DEF DiffsOK, Overtaken
    <3> QED
      BY <1>2, <1>3, <2>1, <2>2, <3>1, <3>2, DiffsKept
  <2> QED
    BY <1>3, <2>2 DEF ReportedInv
<1>4. ASSUME NEW begin \in 0 .. MaxTime + 1, NEW until \in 0 .. MaxTime + 1,
             StartCheck(begin, until)
      PROVE  ReportedInv'
  <2> DEFINE steady == [k \in Keys |->
                IF /\ InRange(Live(k), begin, until)
                   /\ OnlyAtHome(k) /\ ~Stale(k, ResolveActive)
                   /\ \A q \in Readers : ~Overtaken(q, k)
                THEN Live(k) ELSE None]
             windows == Windows(begin, until)
  <2> HIDE DEF windows
  <2>1. check'.diffs = {} /\ check'.compared = [k \in Keys |-> 0] /\ check'.steady = steady
    BY <1>4 DEF StartCheck, NoCheck, windows
  <2>2. cache' = cache /\ UNCHANGED <<shards, routerShards, shardLen>>
    BY <1>4 DEF StartCheck, storeVars
  <2>3. ASSUME NEW k \in Keys, steady[k] # None PROVE DiffsOK(k)'
    <3>1. ~Stale(k, ResolveActive) /\ \A q \in Readers : ~Overtaken(q, k)'
      BY <2>3 DEF Overtaken
    <3>2. Live(k)' = Live(k)
      BY <2>2, SameHome
    <3>3. ~Stale(k, ResolveActive)'
      BY <1>2, <2>2, <3>1, <3>2 DEF Stale, CacheHit, View, EmptySnapshot, Filtered, Layout,
                                    VersionIDs, versionVars
    <3> HIDE DEF steady
    <3> QED
      BY <2>1, <3>1, <3>3 DEF DiffsOK
  <2> QED
    BY <2>1, <2>3 DEF ReportedInv
<1>5. CASE CountShards
  BY <1>1, <1>3, <1>5 DEF CountShards, CheckState
<1>6. CASE ListWindowKeys
  BY <1>1, <1>3, <1>6 DEF ListWindowKeys, CheckState
<1>7. ASSUME NEW k \in Keys, CheckTime(k) PROVE ReportedInv'
  BY <1>1, <1>3, <1>7 DEF CheckTime, CheckState
<1>8. CASE NextWindowShard
  BY <1>1, <1>3, <1>8 DEF NextWindowShard, CheckState
<1>9. CASE Report
  BY <1>9 DEF Report, NoCheck, ReportedInv
<1> QED
  BY <1>4, <1>5, <1>6, <1>7, <1>8, <1>9, CompareKeyReported DEF CheckStep

LEMMA ReportedStep ==
  JobsInv /\ ComparedInv /\ FreshCopies /\ ReportedInv /\ [JobsNext]_jobVars => ReportedInv'
<1> SUFFICES ASSUME JobsInv, ComparedInv, FreshCopies, ReportedInv, [JobsNext]_jobVars
             PROVE  ReportedInv'
  OBVIOUS
<1> QED
  BY KindsOfStep, CheckStepReported, OnlineReadReported, QuietReported, ObserveReported,
     SwitchReported

(* Differences reported: for an entry that was left alone, that was not    *)
(* cached stale when the check began and no reader overtaken by then was   *)
(* about to cache stale, and unless a version was switched meanwhile, a    *)
(* check reports exactly one difference per field that an online read      *)
(* shows and the offline view prints differently, and none for the other   *)
(* fields, with any number of online readers that fill the cache during    *)
(* the check.                                                              *)
THEOREM ReportsEveryDifference == JobsSpec => []DifferencesReported
<1>1. JobsInit => FreshCopies /\ ReportedInv
  BY DEF JobsInit, NoCheck, ReportedInv, ReadersInit, FreshCopies, FreshCopy
<1>2. JobsInv /\ ComparedInv /\ ComparedOnce /\ ReportedInv => DifferencesReported
  <2> SUFFICES ASSUME JobsInv, ComparedInv, ComparedOnce, ReportedInv,
                      check.pc = "report", ~check.switched,
                      NEW k \in Keys, check.steady[k] # None, NEW f \in Fields
               PROVE  LET shown == View(check.steady[k], ResolveActive)
                          reported == {d \in check.diffs : d.key = k /\ d.field = f} IN
                      IF shown.fields[f] # NoValue /\ Text[shown.fields[f]] # Text[Offline[k][f]]
                      THEN \E d \in reported : reported = {d}
                      ELSE reported = {}
    BY DEF DifferencesReported
  <2> DEFINE shown == View(check.steady[k], ResolveActive)
             reported == {d \in check.diffs : d.key = k /\ d.field = f}
             differs == shown.fields[f] # NoValue /\ Text[shown.fields[f]] # Text[Offline[k][f]]
             diff(g, n) == [key |-> k, field |-> g, window |-> n]
  <2>1. check.compared[k] = 1 /\ DiffsOK(k)
    BY DEF ComparedOnce, ReportedInv
  <2>2. PICK n \in Nat :
          {d \in check.diffs : d.key = k} = {diff(g, n) : g \in DiffFields(k, shown)}
    BY <2>1 DEF DiffsOK
  <2>3. differs <=> f \in DiffFields(k, shown)
    BY DEF DiffFields
  <2> HIDE DEF shown
  <2>4. \A d \in reported : \E g \in DiffFields(k, shown) : d = diff(g, n) /\ g = f
    <3>1. \A g : diff(g, n).field = g
      OBVIOUS
    <3> QED
      BY <2>2, <3>1
  <2>5. f \in DiffFields(k, shown) => diff(f, n) \in reported
    <3>1. diff(f, n).field = f /\ diff(f, n).key = k
      OBVIOUS
    <3> QED
      BY <2>2, <3>1
  <2>6. CASE differs
    BY <2>3, <2>4, <2>5, <2>6 DEF shown
  <2>7. CASE ~differs
    BY <2>3, <2>4, <2>7 DEF shown
  <2> QED
    BY <2>6, <2>7
<1> QED
  BY <1>1, <1>2, FreshStep, ReportedStep, AlwaysCompared, ComparesOnce, JobsInitInv, JobsStep, PTL
  DEF JobsSpec
==============================================================================
