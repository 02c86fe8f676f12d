---------------------------- MODULE BaselineProofs ----------------------------
(***************************************************************************)
(* Proofs about the two parts of the document that tell what is usual:     *)
(* BpfWatch (watchlist and baseline of BPF objects), for any programs,     *)
(* maps, links, failing listings and bounds, and Anomaly (samples and      *)
(* baseline of a metric), for any values, thresholds and windows.          *)
(***************************************************************************)
EXTENDS BpfWatch, Anomaly, WellFoundedInduction, TLAPS

-----------------------------------------------------------------------------
(* Numbers up to a bound *)

(* The order of the naturals is well founded.                              *)
LEMMA Ascending == IsWellFoundedOn({ss \in Nat \X Nat : ss[1] < ss[2]}, Nat)
BY ONLY NatLessThanWellFounded DEF OpToRel

(* A set of numbers has a smallest one.                                    *)
LEMMA Smallest ==
  ASSUME NEW T \in SUBSET Nat, T # {}
  PROVE  \E m \in T : \A n \in T : m <= n
<1> DEFINE L == {ss \in Nat \X Nat : ss[1] < ss[2]}
<1>1. PICK m \in T : \A n \in T : ~ (<<n, m>> \in L)
  <2> HIDE DEF L
  <2>1. IsWellFoundedOn(L, Nat)
    BY Ascending DEF L
  <2> QED
    BY <2>1, WFMin
<1>2. ASSUME NEW n \in T PROVE m <= n
  <2>1. n \in Nat /\ m \in Nat /\ ~ (<<n, m>> \in L)
    BY <1>1
  <2>2. ~ (n < m)
    BY <2>1
  <2> QED
    BY <2>1, <2>2
<1> QED
  BY <1>2

(* Counting up to N.                                                       *)
LEMMA CountUp ==
  ASSUME NEW N \in Nat, NEW P, 0 \in P, \A n \in 0..N : n \in P /\ n < N => n + 1 \in P
  PROVE  \A n \in 0..N : n \in P
<1> SUFFICES ASSUME \E n \in 0..N : n \notin P PROVE FALSE
  OBVIOUS
<1> DEFINE T == {n \in 0..N : n \notin P}
<1>1. PICK m \in T : \A n \in T : m <= n
  <2> HIDE DEF T
  <2>1. T \in SUBSET Nat /\ T # {}
    BY DEF T
  <2> QED
    BY <2>1, Smallest
<1>2. m \in Nat /\ m # 0 /\ m - 1 \in 0..N /\ m - 1 < N
  OBVIOUS
<1>3. m - 1 \in P
  BY <1>1, <1>2
<1> QED
  BY <1>2, <1>3

(* The greatest of some numbers up to N.                                   *)
LEMMA MaxIs ==
  ASSUME NEW N \in Nat, NEW T \in SUBSET (1..N), T # {}
  PROVE  Max(T) \in T /\ \A n \in T : n <= Max(T)
<1> DEFINE R == {N - n : n \in T}
<1>1. R \in SUBSET Nat /\ R # {}
  <2>1. \A n \in T : N - n \in Nat
    OBVIOUS
  <2>2. \A x \in R : x \in Nat
    BY <2>1
  <2>3. \E n \in T : N - n \in R
    OBVIOUS
  <2> QED
    BY <2>2, <2>3
<1>2. PICK r \in R : \A x \in R : r <= x
  <2> HIDE DEF R
  <2> QED
    BY <1>1, Smallest
<1>3. PICK m \in T : r = N - m
  OBVIOUS
<1>4. ASSUME NEW n \in T PROVE m >= n
  <2>1. N - n \in R
    OBVIOUS
  <2> QED
    BY <1>2, <1>3, <2>1
<1>5. Max(T) \in T /\ \A n \in T : Max(T) >= n
  <2>1. \E x \in T : \A y \in T : x >= y
    BY <1>4
  <2> QED
    BY <2>1, Zenon DEF Max
<1> HIDE DEF R
<1>6. 1..N \subseteq Nat
  OBVIOUS
<1>7. \A n \in T : n \in Nat
  BY <1>6
<1> QED
  BY <1>5, <1>7

(* A function defined by its first value and by each step from the value   *)
(* before exists, and stays in S.                                          *)
Iterates(f, N, S, a, F) ==
  f \in [0..N -> S] /\ f[0] = a /\ \A i \in 1..N : f[i] = F[i][f[i - 1]]

(* Such a function exists, by induction over the bound.                    *)
LEMMA Recursion ==
  ASSUME NEW N \in Nat, NEW S, NEW a \in S, NEW F \in [1..N -> [S -> S]]
  PROVE  \E f : Iterates(f, N, S, a, F)
<1> DEFINE Upto(n) == {f \in [0..n -> S] :
                         f[0] = a /\ \A i \in 1..n : f[i] = F[i][f[i - 1]]}
           P == {n \in 0..N : Upto(n) # {}}
<1>1. 0 \in P
  <2>1. [i \in 0..0 |-> a] \in Upto(0)
    OBVIOUS
  <2> QED
    BY <2>1
<1>2. ASSUME NEW n \in 0..N, n \in P, n < N PROVE n + 1 \in P
  <2>1. PICK f \in Upto(n) : TRUE
    BY <1>2
  <2> DEFINE g == [i \in 0..(n + 1) |-> IF i = n + 1 THEN F[n + 1][f[n]] ELSE f[i]]
  <2>6. f \in [0..n -> S] /\ n \in Nat /\ n \in 0..n /\ n + 1 \in 1..N /\ f[n] \in S
    <3>1. n \in Nat /\ n \in 0..n /\ n + 1 \in 1..N
      BY <1>2
    <3>2. f \in [0..n -> S]
      OBVIOUS
    <3> QED
      BY <3>1, <3>2
  <2>7. F[n + 1][f[n]] \in S
    BY <2>6
  <2>2. g \in [0..(n + 1) -> S]
    <3> SUFFICES ASSUME NEW i \in 0..(n + 1)
                 PROVE  (IF i = n + 1 THEN F[n + 1][f[n]] ELSE f[i]) \in S
      OBVIOUS
    <3> QED
      BY <2>6, <2>7
  <2>3. ASSUME NEW i \in 1..(n + 1) PROVE g[i] = F[i][g[i - 1]]
    <3>1. CASE i = n + 1
      BY <3>1
    <3>2. CASE i # n + 1
      BY <3>2
    <3> QED
      BY <3>1, <3>2
  <2>4. g[0] = a
    OBVIOUS
  <2> HIDE DEF g
  <2>5. g \in Upto(n + 1)
    BY <2>2, <2>3, <2>4
  <2> HIDE DEF Upto
  <2> QED
    BY <2>5, <2>6
<1>3. N \in P
  <2> HIDE DEF P
  <2>1. \A n \in 0..N : n \in P
    BY <1>1, <1>2, CountUp
  <2> QED
    BY <2>1
<1>4. PICK f \in Upto(N) : TRUE
  BY <1>3
<1> QED
  BY <1>4 DEF Iterates

-----------------------------------------------------------------------------
(* Objects, keys and entries *)

(* The programs and maps there can be: what they are comes from a variant. *)
Comes(p, v) ==
  /\ p.name = v.name /\ p.tag = v.tag /\ p.maps = v.maps /\ p.code \in Codes(v)
  /\ p.cgroup \in {{}, v.cgroup} /\ p.net \in {{}, v.net}
Loaded  == {p \in Program : \E v \in Variant : Comes(p, v)}
Created == {m \in MapObject : \E v \in MapVariant :
              m.type = v.type /\ m.name = v.name /\ m.btf \in {v.btf, "none"}}

ScanOK(s) ==
  /\ s.progs \in [Id -> Loaded \cup {Absent}]
  /\ s.maps \in [MapId -> Created \cup {Absent}]
  /\ \A i \in MapId : s.maps[i] # Absent => s.maps[i].id = i

(* In the middle of a run an entry may have a state in which it is about   *)
(* to leave the watchlist.                                                 *)
LastAlert == {"none"} \cup Alerting
AnyState  == WatchState \cup Unwatched
ProgEntry == [id : Id \cup {NoId}, state : AnyState, last : LastAlert, meta : Program]
MapEntry  == [id : MapId \cup {NoId}, state : AnyState, last : LastAlert, meta : MapObject]

Watchlist ==
  {w \in [Key -> ProgEntry \cup MapEntry \cup {Absent}] :
     \A k \in Key : w[k] # Absent => IF k[1] = "prog" THEN w[k] \in ProgEntry
                                                     ELSE w[k] \in MapEntry}

(* The bounds are numbers.                                                 *)
LEMMA Bounds == MaxId \in Nat /\ MaxMapId \in Nat /\ MaxEvents \in Nat /\ MaxBadScans \in Nat
BY BoundAssumption

(* Absent is no object and no entry.                                       *)
LEMMA AbsentIs ==
  Absent \notin Program /\ Absent \notin MapObject /\ Absent \notin ProgEntry /\ Absent \notin MapEntry
BY DEF Absent, Program, MapObject, ProgEntry, MapEntry

(* What is loaded has the key of a program.                                *)
LEMMA ProgKeyIs ==
  ASSUME NEW p \in Loaded
  PROVE  ProgKey(p) \in Key /\ ProgKey(p)[1] = "prog"
<1>1. PICK v \in Variant : Comes(p, v)
  BY DEF Loaded
<1>2. p.links \in SUBSET Link
  BY DEF Loaded, Program
<1>3. ProgKey(p) \in ProgKeys(v)
  <2>1. ProgKey(p) = <<"prog", p.code, p.cgroup \cup p.net \cup {l.hook : l \in p.links}>>
    BY DEF ProgKey, Hooks
  <2>2. /\ p.code \in Codes(v) /\ p.cgroup \in {{}, v.cgroup} /\ p.net \in {{}, v.net}
        /\ p.links \in SUBSET Link
    BY <1>1, <1>2 DEF Comes
  <2>3. p.cgroup \cup p.net \cup {l.hook : l \in p.links}
          \in SUBSET (v.cgroup \cup v.net \cup {l.hook : l \in Link})
    BY <2>2
  <2> DEFINE hooks == SUBSET (v.cgroup \cup v.net \cup {l.hook : l \in Link})
             of(c) == {<<"prog", c, h>> : h \in hooks}
  <2>4. ProgKey(p) \in of(p.code)
    BY <2>1, <2>3
  <2>5. of(p.code) \in {of(c) : c \in Codes(v)}
    BY <2>2
  <2>6. ProgKeys(v) = UNION {of(c) : c \in Codes(v)}
    BY DEF ProgKeys
  <2> HIDE DEF of
  <2> QED
    BY <2>4, <2>5, <2>6
<1>4. ProgKey(p) \in Key
  BY <1>3 DEF Key
<1> QED
  BY <1>4 DEF ProgKey

(* What is created has the key of a map.                                   *)
LEMMA MapKeyIs ==
  ASSUME NEW m \in Created
  PROVE  MapKey(m) \in Key /\ MapKey(m)[1] = "map"
<1>1. PICK v \in MapVariant : MapKey(m) \in MapKeys(v)
  BY DEF Created, MapKey, MapKeys
<1>2. MapKey(m) \in Key
  BY <1>1 DEF Key
<1> QED
  BY <1>2 DEF MapKey

(* A key is one of a program or one of a map.                              *)
LEMMA KeyKind == \A k \in Key : k[1] \in {"prog", "map"}
<1>1. \A v : \A k \in ProgKeys(v) : k[1] = "prog"
  BY DEF ProgKeys
<1>2. \A m : \A k \in MapKeys(m) : k[1] = "map"
  BY DEF MapKeys
<1> QED
  BY <1>1, <1>2 DEF Key

(* Whatever the score, a program or a map has one of these states.         *)
LEMMA ClassIs ==
  ASSUME NEW p, NEW s
  PROVE  Class(p, s) \in {"baseline_match", "ignored", "surveillance"} \cup Alerting
BY DEF Class, ClassifyProgram, StateFromScore, Alerting

(* A map that is not in the baseline is watched, and never alerts.         *)
LEMMA MapClassIs ==
  ASSUME NEW t, NEW k
  PROVE  ClassifyMap(t, k \in baseline) = IF k \in baseline THEN "baseline_match" ELSE "surveillance"
BY DEF ClassifyMap, StateFromScore, MapTypeRisk, If

-----------------------------------------------------------------------------
(* The update by a scan *)

(* Absorbing a program leaves a watchlist.                                 *)
LEMMA AbsorbType ==
  ASSUME NEW w \in Watchlist, NEW s, ScanOK(s), NEW i \in Id
  PROVE  Absorb(w, i, s) \in Watchlist
<1> DEFINE p   == s.progs[i]
           k   == ProgKey(p)
           old == IF w[k] # Absent THEN {k}
                  ELSE {o \in Key : o[1] = "prog" /\ w[o] # Absent /\ w[o].id = i}
           last == IF old = {} THEN "none" ELSE w[CHOOSE o \in old : TRUE].last
           e   == [id |-> i, state |-> Class(p, s), last |-> last, meta |-> p]
<1>1. CASE p = Absent
  BY <1>1 DEF Absorb
<1>2. CASE p # Absent
  <2>1. p \in Loaded /\ p \in Program
    BY <1>2 DEF ScanOK, Loaded
  <2>2. k \in Key /\ k[1] = "prog"
    BY <2>1, ProgKeyIs
  <2>3. CASE Class(p, s) \in Unwatched
    <3>1. Absorb(w, i, s) = [w EXCEPT ![k] = Absent]
      BY <1>2, <2>3 DEF Absorb
    <3> HIDE DEF k
    <3> QED
      BY <3>1, <2>2 DEF Watchlist
  <2>4. CASE Class(p, s) \notin Unwatched
    <3>1. Absorb(w, i, s) = [o \in Key |-> IF o = k THEN e ELSE IF o \in old THEN Absent ELSE w[o]]
      BY <1>2, <2>4 DEF Absorb
    <3>2. \A o \in old : o \in Key /\ w[o] # Absent /\ w[o].last \in LastAlert
      BY <2>2 DEF Watchlist, ProgEntry, MapEntry
    <3>3. last \in LastAlert
      <4> HIDE DEF old
      <4>1. CASE old = {}
        BY <4>1 DEF LastAlert
      <4>2. CASE old # {}
        BY <4>2, <3>2
      <4> QED
        BY <4>1, <4>2
    <3>4. e \in ProgEntry
      <4> HIDE DEF last
      <4>1. Class(p, s) \in AnyState
        BY ClassIs DEF AnyState, WatchState, Unwatched
      <4> QED
        BY <2>1, <3>3, <4>1 DEF ProgEntry
    <3> HIDE DEF e, old
    <3>5. \A o \in Key : w[o] \in ProgEntry \cup MapEntry \cup {Absent}
      BY DEF Watchlist
    <3>6. \A o \in Key : w[o] # Absent => IF o[1] = "prog" THEN w[o] \in ProgEntry
                                                         ELSE w[o] \in MapEntry
      BY DEF Watchlist
    <3> QED
      BY <3>1, <3>4, <3>5, <3>6, <2>2 DEF Watchlist
  <2> QED
    BY <2>3, <2>4
<1> QED
  BY <1>1, <1>2

(* So does absorbing a map.                                                *)
LEMMA AbsorbMapType ==
  ASSUME NEW w \in Watchlist, NEW m \in Created
  PROVE  AbsorbMap(w, m) \in Watchlist
<1> DEFINE k == MapKey(m)
           class == ClassifyMap(m.type, k \in baseline)
           last  == IF w[k] = Absent THEN "none" ELSE w[k].last
           e     == [id |-> m.id, state |-> class, meta |-> m, last |-> last]
<1>1. k \in Key /\ k[1] = "map"
  BY MapKeyIs
<1>2. m \in MapObject /\ m.id \in MapId
  BY DEF Created, MapObject
<1>3. last \in LastAlert
  BY <1>1 DEF Watchlist, MapEntry, ProgEntry, LastAlert
<1>4. class \in AnyState
  BY MapClassIs DEF AnyState, WatchState, Unwatched
<1>5. e \in MapEntry
  <2> HIDE DEF last, class
  <2> QED
    BY <1>2, <1>3, <1>4 DEF MapEntry
<1>6. AbsorbMap(w, m) = [w EXCEPT ![k] = IF class \in Unwatched THEN Absent ELSE e]
  BY DEF AbsorbMap
<1> HIDE DEF e, class, k
<1> QED
  BY <1>1, <1>5, <1>6 DEF Watchlist

(* The programs of a scan are absorbed one by one.                         *)
LEMMA AbsorbProgramsIs ==
  ASSUME NEW w \in Watchlist, NEW s, ScanOK(s)
  PROVE  \E f \in [0..MaxId -> Watchlist] :
           /\ f[0] = w
           /\ \A i \in Id : f[i] = Absorb(f[i - 1], i, s)
           /\ AbsorbPrograms(w, s) = f[MaxId]
<1> DEFINE F == [i \in 1..MaxId |-> [x \in Watchlist |-> Absorb(x, i, s)]]
<1>1. F \in [1..MaxId -> [Watchlist -> Watchlist]]
  BY AbsorbType DEF Id
<1>2. PICK f : Iterates(f, MaxId, Watchlist, w, F)
  <2> HIDE DEF F
  <2> QED
    BY <1>1, Recursion, Bounds
<1>3. f = [i \in 0..MaxId |-> IF i = 0 THEN w ELSE Absorb(f[i - 1], i, s)]
  <2>1. ASSUME NEW i \in 1..MaxId PROVE f[i] = Absorb(f[i - 1], i, s)
    <3>1. f[i - 1] \in Watchlist /\ f[i] = F[i][f[i - 1]]
      BY <1>2, Bounds DEF Iterates
    <3> QED
      BY <3>1
  <2> HIDE DEF F
  <2>2. f \in [0..MaxId -> Watchlist] /\ f[0] = w
    BY <1>2 DEF Iterates
  <2> QED
    BY <2>1, <2>2, Bounds
<1> DEFINE g == CHOOSE h : h = [i \in 0..MaxId |-> IF i = 0 THEN w ELSE Absorb(h[i - 1], i, s)]
<1>4. g = [i \in 0..MaxId |-> IF i = 0 THEN w ELSE Absorb(g[i - 1], i, s)]
  BY <1>3, Zenon
<1>5. AbsorbPrograms(w, s) = g[MaxId]
  BY DEF AbsorbPrograms
<1> HIDE DEF g
<1>6. g[0] = w /\ \A i \in Id : g[i] = Absorb(g[i - 1], i, s)
  BY <1>4, Bounds DEF Id
<1>7. \A i \in 0..MaxId : g[i] \in Watchlist
  <2> DEFINE P == {i \in 0..MaxId : g[i] \in Watchlist}
  <2>1. 0 \in P
    BY <1>6, Bounds
  <2>2. ASSUME NEW i \in 0..MaxId, i \in P, i < MaxId PROVE i + 1 \in P
    <3>1. i + 1 \in Id /\ (i + 1) - 1 = i
      BY <2>2, Bounds DEF Id
    <3> QED
      BY <2>2, <3>1, <1>6, AbsorbType DEF Id
  <2> HIDE DEF P
  <2>3. \A i \in 0..MaxId : i \in P
    BY <2>1, <2>2, CountUp, Bounds
  <2> QED
    BY <2>3 DEF P
<1>8. g \in [0..MaxId -> Watchlist]
  BY <1>4, <1>7
<1> QED
  BY <1>5, <1>6, <1>8

(* And so are its maps.                                                    *)
AbsorbMapAt(w, i, s) == IF s.maps[i] = Absent THEN w ELSE AbsorbMap(w, s.maps[i])

(* The watchlist after the maps is that of the last of as many steps.      *)
LEMMA AbsorbMapsIs ==
  ASSUME NEW w \in Watchlist, NEW s, ScanOK(s)
  PROVE  \E f \in [0..MaxMapId -> Watchlist] :
           /\ f[0] = w
           /\ \A i \in MapId : f[i] = AbsorbMapAt(f[i - 1], i, s)
           /\ AbsorbMaps(w, s) = f[MaxMapId]
<1>0. ASSUME NEW x \in Watchlist, NEW i \in MapId PROVE AbsorbMapAt(x, i, s) \in Watchlist
  <2>1. CASE s.maps[i] = Absent
    BY <2>1 DEF AbsorbMapAt
  <2>2. CASE s.maps[i] # Absent
    <3>1. s.maps[i] \in Created
      BY <2>2 DEF ScanOK
    <3> QED
      BY <2>2, <3>1, AbsorbMapType DEF AbsorbMapAt
  <2> QED
    BY <2>1, <2>2
<1> DEFINE F == [i \in 1..MaxMapId |-> [x \in Watchlist |-> AbsorbMapAt(x, i, s)]]
<1>1. F \in [1..MaxMapId -> [Watchlist -> Watchlist]]
  BY <1>0 DEF MapId
<1>2. PICK f : Iterates(f, MaxMapId, Watchlist, w, F)
  <2> HIDE DEF F
  <2> QED
    BY <1>1, Recursion, Bounds
<1>3. f = [i \in 0..MaxMapId |-> IF i = 0 THEN w ELSE AbsorbMapAt(f[i - 1], i, s)]
  <2>1. ASSUME NEW i \in 1..MaxMapId PROVE f[i] = AbsorbMapAt(f[i - 1], i, s)
    <3>1. f[i - 1] \in Watchlist /\ f[i] = F[i][f[i - 1]]
      BY <1>2, Bounds DEF Iterates
    <3> QED
      BY <3>1
  <2> HIDE DEF F
  <2>2. f \in [0..MaxMapId -> Watchlist] /\ f[0] = w
    BY <1>2 DEF Iterates
  <2> QED
    BY <2>1, <2>2, Bounds
<1> DEFINE g == CHOOSE h : h = [i \in 0..MaxMapId |->
                                 IF i = 0 THEN w
                                 ELSE IF s.maps[i] = Absent THEN h[i - 1]
                                 ELSE AbsorbMap(h[i - 1], s.maps[i])]
<1>4. g = [i \in 0..MaxMapId |-> IF i = 0 THEN w
                                ELSE IF s.maps[i] = Absent THEN g[i - 1]
                                ELSE AbsorbMap(g[i - 1], s.maps[i])]
  BY <1>3, Zenon DEF AbsorbMapAt
<1>5. AbsorbMaps(w, s) = g[MaxMapId]
  BY DEF AbsorbMaps
<1> HIDE DEF g
<1>6. g[0] = w /\ \A i \in MapId : g[i] = AbsorbMapAt(g[i - 1], i, s)
  BY <1>4, Bounds DEF MapId, AbsorbMapAt
<1>7. \A i \in 0..MaxMapId : g[i] \in Watchlist
  <2> DEFINE P == {i \in 0..MaxMapId : g[i] \in Watchlist}
  <2>1. 0 \in P
    BY <1>6, Bounds
  <2>2. ASSUME NEW i \in 0..MaxMapId, i \in P, i < MaxMapId PROVE i + 1 \in P
    <3>1. i + 1 \in MapId /\ (i + 1) - 1 = i
      BY <2>2, Bounds DEF MapId
    <3> QED
      BY <2>2, <3>1, <1>0, <1>6 DEF MapId
  <2> HIDE DEF P
  <2>3. \A i \in 0..MaxMapId : i \in P
    BY <2>1, <2>2, CountUp, Bounds
  <2> QED
    BY <2>3 DEF P
<1>8. g \in [0..MaxMapId -> Watchlist]
  BY <1>4, <1>7
<1> QED
  BY <1>5, <1>6, <1>8

(* The entry e stands for this object, unless its class is not watched.    *)
Stands(e, id, object, class) ==
  IF class \in Unwatched THEN e = Absent
  ELSE e # Absent /\ e.id = id /\ e.meta = object /\ e.state = class

(* Class, for a baseline b.                                                *)
ClassIn(p, s, b) == ClassifyProgram(p, RiskyMaps(p, s), ProgKey(p) \in b)

ProgStands(w, s, i, b) ==
  Stands(w[ProgKey(s.progs[i])], i, s.progs[i], ClassIn(s.progs[i], s, b))

MapStands(w, s, i, b) ==
  Stands(w[MapKey(s.maps[i])], i, s.maps[i],
         ClassifyMap(s.maps[i].type, MapKey(s.maps[i]) \in b))

(* The last of the first n programs, or maps, with its key.                *)
LastProg(s, i, n) ==
  /\ i \in Id /\ i <= n /\ s.progs[i] # Absent
  /\ \A j \in Id : i < j /\ j <= n /\ s.progs[j] # Absent
                   => ProgKey(s.progs[j]) # ProgKey(s.progs[i])

LastMap(s, i, n) ==
  /\ i \in MapId /\ i <= n /\ s.maps[i] # Absent
  /\ \A j \in MapId : i < j /\ j <= n /\ s.maps[j] # Absent
                      => MapKey(s.maps[j]) # MapKey(s.maps[i])

(* A program that takes over an entry takes none of a program before it.   *)
LEMMA AbsorbStands ==
  ASSUME NEW w \in Watchlist, NEW s, ScanOK(s), NEW n \in Nat, n + 1 \in Id,
         \A i \in Id : LastProg(s, i, n) => ProgStands(w, s, i, baseline)
  PROVE  \A i \in Id : LastProg(s, i, n + 1) => ProgStands(Absorb(w, n + 1, s), s, i, baseline)
<1> DEFINE m == n + 1
           p == s.progs[m]
           k == ProgKey(p)
           u == Absorb(w, m, s)
<1> SUFFICES ASSUME NEW i \in Id, LastProg(s, i, m) PROVE ProgStands(u, s, i, baseline)
  OBVIOUS
<1>1. i \in Nat /\ s.progs[i] # Absent /\ s.progs[i] \in Loaded
  <2>1. s.progs[i] # Absent
    BY DEF LastProg
  <2> QED
    BY <2>1, Bounds DEF ScanOK, Id
<1>2. ProgKey(s.progs[i]) \in Key
  BY <1>1, ProgKeyIs
<1>3. CASE p = Absent
  <2>1. u = w /\ i # m
    BY <1>1, <1>3 DEF Absorb
  <2>2. LastProg(s, i, n)
    BY <1>1, <1>3, <2>1 DEF LastProg, Id
  <2> QED
    BY <2>1, <2>2
<1>4. CASE p # Absent
  <2>1. p \in Loaded
    BY <1>4 DEF ScanOK
  <2>2. k \in Key
    BY <2>1, ProgKeyIs
  <2> DEFINE old  == IF w[k] # Absent THEN {k}
                     ELSE {o \in Key : o[1] = "prog" /\ w[o] # Absent /\ w[o].id = m}
             last == IF old = {} THEN "none" ELSE w[CHOOSE o \in old : TRUE].last
  <2>3. Class(p, s) \in Unwatched => u = [w EXCEPT ![k] = Absent]
    BY <1>4 DEF Absorb
  <2>4. Class(p, s) \notin Unwatched =>
          u = [o \in Key |-> IF o = k THEN [id |-> m, state |-> Class(p, s), last |-> last, meta |-> p]
                             ELSE IF o \in old THEN Absent ELSE w[o]]
    BY <1>4 DEF Absorb
  <2> HIDE DEF last
  <2>5. CASE i = m
    <3>1. Class(p, s) \in Unwatched => u[k] = Absent
      BY <2>2, <2>3 DEF Watchlist
    <3>2. Class(p, s) \notin Unwatched =>
            u[k] = [id |-> m, state |-> Class(p, s), last |-> last, meta |-> p]
      BY <2>2, <2>4
    <3> HIDE DEF u, k, old
    <3>3. Class(p, s) \notin Unwatched => u[k] # Absent
      BY <3>2 DEF Absent
    <3> QED
      BY <2>5, <3>1, <3>2, <3>3 DEF ProgStands, Stands, k, Class, ClassIn
  <2>6. CASE i # m
    <3> DEFINE q == s.progs[i]
               l == ProgKey(q)
    <3>1. LastProg(s, i, n) /\ i < m
      BY <1>1, <2>6 DEF LastProg, Id
    <3>2. l # k /\ l \in Key
      BY <1>2, <1>4, <3>1 DEF LastProg
    <3>3. Stands(w[l], i, q, ClassIn(q, s, baseline))
      BY <3>1 DEF ProgStands
    <3>4. l \notin old
      <4>1. w[l] = Absent \/ w[l].id = i
        BY <3>3 DEF Stands
      <4> QED
        BY <2>6, <3>2, <4>1
    <3>5. u[l] = w[l]
      <4> HIDE DEF l, k, old
      <4> QED
        BY <2>2, <2>3, <2>4, <3>2, <3>4 DEF Watchlist
    <3> HIDE DEF u
    <3> QED
      BY <3>3, <3>5 DEF ProgStands
  <2> QED
    BY <2>5, <2>6
<1> QED
  BY <1>3, <1>4

(* A map takes over the entry of its key only.                             *)
LEMMA AbsorbMapStands ==
  ASSUME NEW w \in Watchlist, NEW s, ScanOK(s), NEW n \in Nat, n + 1 \in MapId,
         \A i \in MapId : LastMap(s, i, n) => MapStands(w, s, i, baseline)
  PROVE  \A i \in MapId : LastMap(s, i, n + 1) => MapStands(AbsorbMapAt(w, n + 1, s), s, i, baseline)
<1> DEFINE m == n + 1
           p == s.maps[m]
           k == MapKey(p)
           u == AbsorbMapAt(w, m, s)
           class == ClassifyMap(p.type, k \in baseline)
<1> SUFFICES ASSUME NEW i \in MapId, LastMap(s, i, m) PROVE MapStands(u, s, i, baseline)
  OBVIOUS
<1>1. i \in Nat /\ s.maps[i] # Absent /\ s.maps[i] \in Created
  <2>1. s.maps[i] # Absent
    BY DEF LastMap
  <2> QED
    BY <2>1, Bounds DEF ScanOK, MapId
<1>2. MapKey(s.maps[i]) \in Key
  BY <1>1, MapKeyIs
<1>3. CASE p = Absent
  <2>1. u = w /\ i # m
    BY <1>1, <1>3 DEF AbsorbMapAt
  <2>2. LastMap(s, i, n)
    BY <1>1, <1>3, <2>1 DEF LastMap, MapId
  <2> QED
    BY <2>1, <2>2
<1>4. CASE p # Absent
  <2>1. p \in Created /\ p.id = m
    BY <1>4 DEF ScanOK
  <2>2. k \in Key
    BY <2>1, MapKeyIs
  <2> DEFINE last == IF w[k] = Absent THEN "none" ELSE w[k].last
             e    == [id |-> p.id, state |-> class, meta |-> p, last |-> last]
  <2>3. u = [w EXCEPT ![k] = IF class \in Unwatched THEN Absent ELSE e]
    BY <1>4 DEF AbsorbMapAt, AbsorbMap
  <2> HIDE DEF last
  <2>5. CASE i = m
    <3>1. u[k] = IF class \in Unwatched THEN Absent ELSE e
      BY <2>2, <2>3 DEF Watchlist
    <3>2. e # Absent
      BY DEF Absent
    <3>3. e.id = m /\ e.state = class /\ e.meta = p
      BY <2>1
    <3>4. Stands(u[k], m, p, class)
      <4> HIDE DEF u, k, e, class
      <4> QED
        BY <3>1, <3>2, <3>3 DEF Stands
    <3> QED
      BY <2>5, <3>4 DEF MapStands
  <2>6. CASE i # m
    <3> DEFINE l == MapKey(s.maps[i])
    <3>1. LastMap(s, i, n) /\ i < m
      BY <1>1, <2>6 DEF LastMap, MapId
    <3>2. l # k /\ l \in Key
      BY <1>2, <1>4, <3>1 DEF LastMap
    <3>3. u[l] = w[l]
      <4> HIDE DEF l, k, e, class
      <4> QED
        BY <2>2, <2>3, <3>2 DEF Watchlist
    <3> HIDE DEF u
    <3> QED
      BY <3>1, <3>3 DEF MapStands
  <2> QED
    BY <2>5, <2>6
<1> QED
  BY <1>3, <1>4

(* After all programs, the last one of each key stands.                    *)
LEMMA AbsorbProgramsStand ==
  ASSUME NEW w \in Watchlist, NEW s, ScanOK(s)
  PROVE  /\ AbsorbPrograms(w, s) \in Watchlist
         /\ \A i \in Id : LastProg(s, i, MaxId) => ProgStands(AbsorbPrograms(w, s), s, i, baseline)
<1>1. PICK f \in [0..MaxId -> Watchlist] :
        /\ f[0] = w
        /\ \A i \in Id : f[i] = Absorb(f[i - 1], i, s)
        /\ AbsorbPrograms(w, s) = f[MaxId]
  BY AbsorbProgramsIs
<1> DEFINE P == {n \in 0..MaxId : \A i \in Id : LastProg(s, i, n) => ProgStands(f[n], s, i, baseline)}
<1>2. 0 \in P
  BY Bounds DEF LastProg, Id
<1>3. ASSUME NEW n \in 0..MaxId, n \in P, n < MaxId PROVE n + 1 \in P
  <2>1. n \in Nat /\ n + 1 \in Id /\ n + 1 \in 0..MaxId /\ (n + 1) - 1 = n
    BY <1>3, Bounds DEF Id
  <2>2. f[n] \in Watchlist /\ f[n + 1] = Absorb(f[n], n + 1, s)
    BY <1>1, <2>1
  <2>3. \A i \in Id : LastProg(s, i, n) => ProgStands(f[n], s, i, baseline)
    BY <1>3
  <2>4. \A i \in Id : LastProg(s, i, n + 1) => ProgStands(f[n + 1], s, i, baseline)
    BY <2>1, <2>2, <2>3, AbsorbStands
  <2> QED
    BY <2>1, <2>4
<1>4. \A n \in 0..MaxId : n \in P
  <2> HIDE DEF P
  <2> QED
    BY <1>2, <1>3, CountUp, Bounds
<1>5. MaxId \in 0..MaxId
  BY Bounds
<1> QED
  BY <1>1, <1>4, <1>5

(* After all maps, so does the last one of each key, and the entries of    *)
(* programs are as they were.                                              *)
LEMMA AbsorbMapsStand ==
  ASSUME NEW w \in Watchlist, NEW s, ScanOK(s)
  PROVE  /\ AbsorbMaps(w, s) \in Watchlist
         /\ \A i \in MapId : LastMap(s, i, MaxMapId) => MapStands(AbsorbMaps(w, s), s, i, baseline)
         /\ \A k \in Key : k[1] = "prog" => AbsorbMaps(w, s)[k] = w[k]
<1>1. PICK f \in [0..MaxMapId -> Watchlist] :
        /\ f[0] = w
        /\ \A i \in MapId : f[i] = AbsorbMapAt(f[i - 1], i, s)
        /\ AbsorbMaps(w, s) = f[MaxMapId]
  BY AbsorbMapsIs
<1> DEFINE Q(n) == /\ \A i \in MapId : LastMap(s, i, n) => MapStands(f[n], s, i, baseline)
                   /\ \A k \in Key : k[1] = "prog" => f[n][k] = w[k]
           P    == {n \in 0..MaxMapId : Q(n)}
<1>2. 0 \in P
  <2>1. Q(0)
    BY <1>1, Bounds DEF LastMap, MapId
  <2> QED
    BY <2>1, Bounds
<1>3. ASSUME NEW n \in 0..MaxMapId, n \in P, n < MaxMapId PROVE n + 1 \in P
  <2>1. n \in Nat /\ n + 1 \in MapId /\ n + 1 \in 0..MaxMapId /\ (n + 1) - 1 = n
    BY <1>3, Bounds DEF MapId
  <2>2. f[n] \in Watchlist /\ f[n + 1] = AbsorbMapAt(f[n], n + 1, s)
    BY <1>1, <2>1
  <2>3. Q(n)
    BY <1>3
  <2>4. \A i \in MapId : LastMap(s, i, n + 1) => MapStands(f[n + 1], s, i, baseline)
    BY <2>1, <2>2, <2>3, AbsorbMapStands
  <2>5. \A k \in Key : k[1] = "prog" => f[n + 1][k] = f[n][k]
    <3>1. CASE s.maps[n + 1] = Absent
      BY <2>2, <3>1 DEF AbsorbMapAt
    <3>2. CASE s.maps[n + 1] # Absent
      <4> DEFINE m == s.maps[n + 1]
                 l == MapKey(m)
      <4>1. m \in Created
        BY <2>1, <3>2 DEF ScanOK
      <4>2. l \in Key /\ l[1] = "map"
        BY <4>1, MapKeyIs
      <4>3. \E e : f[n + 1] = [f[n] EXCEPT ![l] = e]
        BY <2>2, <3>2 DEF AbsorbMapAt, AbsorbMap
      <4> HIDE DEF l
      <4> QED
        BY <2>2, <4>2, <4>3 DEF Watchlist
    <3> QED
      BY <3>1, <3>2
  <2>6. Q(n + 1)
    BY <2>3, <2>4, <2>5
  <2> HIDE DEF Q
  <2> QED
    BY <2>1, <2>6
<1>4. \A n \in 0..MaxMapId : n \in P
  <2> HIDE DEF P
  <2> QED
    BY <1>2, <1>3, CountUp, Bounds
<1>5. MaxMapId \in 0..MaxMapId
  BY Bounds
<1> QED
  BY <1>1, <1>4, <1>5

(* The last program of a key, and the last map, is the one the watcher     *)
(* takes for it.                                                           *)
LEMMA LastProgIs ==
  ASSUME NEW s, NEW k, IdsWith(s, k) # {}
  PROVE  LET i == Max(IdsWith(s, k))
         IN  i \in Id /\ s.progs[i] # Absent /\ ProgKey(s.progs[i]) = k /\ LastProg(s, i, MaxId)
<1> DEFINE T == IdsWith(s, k)
           i == Max(T)
<1>1. T \in SUBSET (1..MaxId) /\ T # {}
  BY DEF IdsWith, Id
<1>2. i \in T /\ \A n \in T : n <= i
  <2> HIDE DEF T
  <2> QED
    BY <1>1, MaxIs, Bounds
<1> HIDE DEF i
<1>3. i \in Id /\ s.progs[i] # Absent /\ ProgKey(s.progs[i]) = k
  BY <1>2 DEF IdsWith
<1>4. ASSUME NEW j \in Id, i < j, s.progs[j] # Absent PROVE ProgKey(s.progs[j]) # k
  <2>1. j \notin T
    BY <1>2, <1>3, <1>4, Bounds DEF Id
  <2> QED
    BY <1>4, <2>1 DEF IdsWith
<1>5. LastProg(s, i, MaxId)
  BY <1>3, <1>4, Bounds DEF LastProg, Id
<1> QED
  BY <1>3, <1>5 DEF i

(* The same of a map.                                                      *)
LEMMA LastMapIs ==
  ASSUME NEW s, NEW k, MapIdsWith(s, k) # {}
  PROVE  LET i == Max(MapIdsWith(s, k))
         IN  i \in MapId /\ s.maps[i] # Absent /\ MapKey(s.maps[i]) = k /\ LastMap(s, i, MaxMapId)
<1> DEFINE T == MapIdsWith(s, k)
           i == Max(T)
<1>1. T \in SUBSET (1..MaxMapId) /\ T # {}
  BY DEF MapIdsWith, MapId
<1>2. i \in T /\ \A n \in T : n <= i
  <2> HIDE DEF T
  <2> QED
    BY <1>1, MaxIs, Bounds
<1> HIDE DEF i
<1>3. i \in MapId /\ s.maps[i] # Absent /\ MapKey(s.maps[i]) = k
  BY <1>2 DEF MapIdsWith
<1>4. ASSUME NEW j \in MapId, i < j, s.maps[j] # Absent PROVE MapKey(s.maps[j]) # k
  <2>1. j \notin T
    BY <1>2, <1>3, <1>4, Bounds DEF MapId
  <2> QED
    BY <1>4, <2>1 DEF MapIdsWith
<1>5. LastMap(s, i, MaxMapId)
  BY <1>3, <1>4, Bounds DEF LastMap, MapId
<1> QED
  BY <1>3, <1>5 DEF i

(* What the watchlist says of a scan: the last program and map of each key *)
(* stands, and every other entry is vanished.                              *)
Tracks(w, s, b) ==
  /\ \A i \in Id : LastProg(s, i, MaxId) => ProgStands(w, s, i, b)
  /\ \A i \in MapId : LastMap(s, i, MaxMapId) => MapStands(w, s, i, b)
  /\ \A k \in Key :
       w[k] # Absent =>
         IF w[k].state = "vanished" THEN w[k].id = NoId
         ELSE IF k[1] = "prog" THEN IdsWith(s, k) # {} ELSE MapIdsWith(s, k) # {}

(* Whatever the watchlist was, the update by a scan makes it track it.     *)
LEMMA UpdateTracks ==
  ASSUME NEW w \in Watchlist, NEW s, ScanOK(s)
  PROVE  UpdateFromScan(w, s) \in Watchlist /\ Tracks(UpdateFromScan(w, s), s, baseline)
<1> DEFINE v    == AbsorbMaps(AbsorbPrograms(w, s), s)
           u    == UpdateFromScan(w, s)
           seen == {ProgKey(p) : p \in Programs(s)} \cup {MapKey(m) : m \in Maps(s)}
<1>1. /\ v \in Watchlist
      /\ \A i \in Id : LastProg(s, i, MaxId) => ProgStands(v, s, i, baseline)
      /\ \A i \in MapId : LastMap(s, i, MaxMapId) => MapStands(v, s, i, baseline)
  <2> DEFINE x == AbsorbPrograms(w, s)
  <2>1. /\ x \in Watchlist
        /\ \A i \in Id : LastProg(s, i, MaxId) => ProgStands(x, s, i, baseline)
    BY AbsorbProgramsStand
  <2> HIDE DEF x
  <2>2. /\ v \in Watchlist
        /\ \A i \in MapId : LastMap(s, i, MaxMapId) => MapStands(v, s, i, baseline)
        /\ \A k \in Key : k[1] = "prog" => v[k] = x[k]
    BY <2>1, AbsorbMapsStand DEF x
  <2> HIDE DEF v
  <2>3. ASSUME NEW i \in Id, LastProg(s, i, MaxId) PROVE ProgStands(v, s, i, baseline)
    <3>1. s.progs[i] \in Loaded
      BY <2>3 DEF LastProg, ScanOK
    <3>2. ProgKey(s.progs[i]) \in Key /\ ProgKey(s.progs[i])[1] = "prog"
      BY <3>1, ProgKeyIs
    <3> QED
      BY <2>1, <2>2, <2>3, <3>2 DEF ProgStands
  <2> QED
    BY <2>2, <2>3
<1>2. u = [k \in Key |-> IF v[k] # Absent /\ k \notin seen
                        THEN [v[k] EXCEPT !.state = "vanished", !.id = NoId]
                        ELSE v[k]]
  BY DEF UpdateFromScan, AbsorbAll, Vanish
<1> HIDE DEF u, v
<1>3. ASSUME NEW i \in Id, s.progs[i] # Absent PROVE ProgKey(s.progs[i]) \in seen \cap Key
  <2>1. s.progs[i] \in Loaded /\ s.progs[i] \in Programs(s)
    BY <1>3 DEF ScanOK, Programs
  <2> QED
    BY <2>1, ProgKeyIs
<1>4. ASSUME NEW i \in MapId, s.maps[i] # Absent PROVE MapKey(s.maps[i]) \in seen \cap Key
  <2>1. s.maps[i] \in Created /\ s.maps[i] \in Maps(s)
    BY <1>4 DEF ScanOK, Maps
  <2> QED
    BY <2>1, MapKeyIs
<1>5. ASSUME NEW k \in seen
      PROVE  IF k[1] = "prog" THEN IdsWith(s, k) # {} ELSE MapIdsWith(s, k) # {}
  <2>1. CASE \E p \in Programs(s) : k = ProgKey(p)
    <3>1. PICK i \in Id : s.progs[i] # Absent /\ k = ProgKey(s.progs[i])
      BY <2>1 DEF Programs
    <3>2. s.progs[i] \in Loaded
      BY <3>1 DEF ScanOK
    <3>3. k[1] = "prog" /\ i \in IdsWith(s, k)
      BY <3>1, <3>2, ProgKeyIs DEF IdsWith
    <3> QED
      BY <3>3
  <2>2. CASE \E m \in Maps(s) : k = MapKey(m)
    <3>1. PICK i \in MapId : s.maps[i] # Absent /\ k = MapKey(s.maps[i])
      BY <2>2 DEF Maps
    <3>2. s.maps[i] \in Created
      BY <3>1 DEF ScanOK
    <3>3. k[1] = "map" /\ i \in MapIdsWith(s, k)
      BY <3>1, <3>2, MapKeyIs DEF MapIdsWith
    <3> QED
      BY <3>3
  <2> QED
    BY <2>1, <2>2
<1> HIDE DEF seen
<1>6. u \in Watchlist
  <2>1. ASSUME NEW k \in Key, v[k] # Absent
        PROVE  LET e == [v[k] EXCEPT !.state = "vanished", !.id = NoId]
               IN  IF k[1] = "prog" THEN e \in ProgEntry ELSE e \in MapEntry
    <3>1. "vanished" \in AnyState
      BY DEF AnyState, WatchState
    <3>2. CASE k[1] = "prog"
      <4>1. v[k] \in ProgEntry
        BY <1>1, <2>1, <3>2 DEF Watchlist
      <4> QED
        BY <3>1, <3>2, <4>1 DEF ProgEntry
    <3>3. CASE k[1] # "prog"
      <4>1. v[k] \in MapEntry
        BY <1>1, <2>1, <3>3 DEF Watchlist
      <4> QED
        BY <3>1, <3>3, <4>1 DEF MapEntry
    <3> QED
      BY <3>2, <3>3
  <2>2. ASSUME NEW k \in Key
        PROVE  /\ u[k] \in ProgEntry \cup MapEntry \cup {Absent}
               /\ u[k] # Absent => IF k[1] = "prog" THEN u[k] \in ProgEntry ELSE u[k] \in MapEntry
    BY <1>1, <1>2, <2>1 DEF Watchlist
  <2>3. u \in [Key -> ProgEntry \cup MapEntry \cup {Absent}]
    BY <1>2, <2>2
  <2> QED
    BY <2>2, <2>3 DEF Watchlist
<1>7. ASSUME NEW i \in Id, LastProg(s, i, MaxId) PROVE ProgStands(u, s, i, baseline)
  <2>1. ProgKey(s.progs[i]) \in seen /\ ProgKey(s.progs[i]) \in Key
    BY <1>3, <1>7 DEF LastProg
  <2>2. u[ProgKey(s.progs[i])] = v[ProgKey(s.progs[i])]
    BY <1>2, <2>1
  <2> QED
    BY <1>1, <1>7, <2>2 DEF ProgStands
<1>8. ASSUME NEW i \in MapId, LastMap(s, i, MaxMapId) PROVE MapStands(u, s, i, baseline)
  <2>1. MapKey(s.maps[i]) \in seen /\ MapKey(s.maps[i]) \in Key
    BY <1>4, <1>8 DEF LastMap
  <2>2. u[MapKey(s.maps[i])] = v[MapKey(s.maps[i])]
    BY <1>2, <2>1
  <2> QED
    BY <1>1, <1>8, <2>2 DEF MapStands
<1>9. ASSUME NEW k \in Key, u[k] # Absent
      PROVE  IF u[k].state = "vanished" THEN u[k].id = NoId
             ELSE IF k[1] = "prog" THEN IdsWith(s, k) # {} ELSE MapIdsWith(s, k) # {}
  <2>1. CASE k \notin seen
    <3>1. v[k] # Absent /\ u[k] = [v[k] EXCEPT !.state = "vanished", !.id = NoId]
      BY <1>2, <1>9, <2>1
    <3>2. v[k] \in ProgEntry \/ v[k] \in MapEntry
      BY <1>1, <3>1 DEF Watchlist
    <3> QED
      BY <3>1, <3>2 DEF ProgEntry, MapEntry
  <2>2. CASE k \in seen /\ k[1] = "prog"
    <3> DEFINE i == Max(IdsWith(s, k))
    <3>1. IdsWith(s, k) # {}
      BY <1>5, <2>2
    <3>2. i \in Id /\ ProgKey(s.progs[i]) = k /\ LastProg(s, i, MaxId)
      BY <3>1, LastProgIs
    <3> HIDE DEF i
    <3>3. u[k].state = Class(s.progs[i], s)
      BY <1>7, <1>9, <3>2 DEF ProgStands, Stands, Class, ClassIn
    <3>4. u[k].state # "vanished"
      BY <3>3, ClassIs DEF Alerting
    <3> QED
      BY <2>2, <3>1, <3>4
  <2>3. CASE k \in seen /\ k[1] # "prog"
    <3> DEFINE i == Max(MapIdsWith(s, k))
    <3>1. MapIdsWith(s, k) # {}
      BY <1>5, <2>3
    <3>2. i \in MapId /\ MapKey(s.maps[i]) = k /\ LastMap(s, i, MaxMapId)
      BY <3>1, LastMapIs
    <3> HIDE DEF i
    <3>3. u[k].state = ClassifyMap(s.maps[i].type, k \in baseline)
      BY <1>8, <1>9, <3>2 DEF MapStands, Stands
    <3>4. u[k].state # "vanished"
      BY <3>3, MapClassIs
    <3> QED
      BY <2>3, <3>1, <3>4
  <2> QED
    BY <2>1, <2>2, <2>3
<1> QED
  BY <1>6, <1>7, <1>8, <1>9 DEF Tracks, u

-----------------------------------------------------------------------------
(* BpfWatch: the invariant *)

(* What is loaded; a program keeps its maps.                               *)
KernelInv ==
  /\ progs \in [Id -> Loaded \cup {Absent}]
  /\ maps \in [MapId -> Created \cup {Absent}]
  /\ next \in [prog : 1..(MaxId + 1), map : 1..(MaxMapId + 1)]
  /\ \A i \in MapId : maps[i] # Absent => maps[i].id = i
  /\ \A i \in Id : progs[i] # Absent => \A j \in progs[i].maps : maps[j] # Absent

(* Between two runs every entry has a watched state.                       *)
EntriesOK(w) ==
  \A k \in Key : w[k] # Absent =>
    w[k].state \in WatchState /\ (w[k].id = NoId <=> w[k].state = "vanished")

DocInv ==
  /\ watch \in Watchlist /\ EntriesOK(watch)
  /\ baseline \subseteq Key
  /\ \A f \in findings : f.about \in Key

HistoryInv ==
  /\ events \in 0..MaxEvents /\ badScans \in 0..MaxBadScans
  /\ unchanged \in BOOLEAN /\ current \in BOOLEAN

(* An entry that has not vanished holds what there was to know of the last *)
(* object with its key.                                                    *)
Describes(w, s, b) ==
  \A k \in Key :
    w[k] # Absent /\ w[k].state # "vanished" =>
      IF k[1] = "prog"
      THEN /\ IdsWith(s, k) # {}
           /\ w[k].meta = s.progs[Max(IdsWith(s, k))]
           /\ w[k].state = ClassIn(w[k].meta, s, b)
      ELSE /\ MapIdsWith(s, k) # {}
           /\ w[k].meta = s.maps[Max(MapIdsWith(s, k))]

BpfInv ==
  /\ KernelInv /\ DocInv /\ HistoryInv
  /\ unchanged => Describes(watch, Listed({}), baseline)
  /\ current => Tracks(watch, Listed({}), baseline)

(* A map a scan lists is a map there can be, and as it is if no call fails. *)
LEMMA ListedMapIs ==
  ASSUME KernelInv, NEW failed, NEW i \in MapId
  PROVE  LET m == ListedMaps(failed)[i] IN
         /\ m \in Created \cup {Absent} /\ (m # Absent => m.id = i)
         /\ failed = {} \/ failed = {<<"prog", NoId>>} => m = maps[i]
<1> DEFINE m == ListedMaps(failed)[i]
<1>1. CASE maps[i] = Absent
  BY <1>1 DEF ListedMaps
<1>2. CASE maps[i] # Absent
  <2>1. maps[i] \in Created /\ maps[i].id = i
    BY <1>2 DEF KernelInv
  <2>2. [maps[i] EXCEPT !.btf = "none"] \in Created /\ [maps[i] EXCEPT !.btf = "none"].id = i
    BY <2>1 DEF Created, MapObject
  <2>3. m \in {Absent, maps[i], [maps[i] EXCEPT !.btf = "none"]}
    BY DEF ListedMaps
  <2>4. failed = {} \/ failed = {<<"prog", NoId>>} => m = maps[i]
    BY DEF ListedMaps
  <2> QED
    BY <2>1, <2>2, <2>3, <2>4
<1> QED
  BY <1>1, <1>2

(* A program a scan builds is a program there can be, and as it is if no   *)
(* call fails.                                                             *)
LEMMA BuiltIs ==
  ASSUME KernelInv, NEW failed, NEW i \in Id, progs[i] # Absent
  PROVE  BuildProgram(i, failed) \in Loaded /\ BuildProgram(i, {}) = progs[i]
<1> DEFINE p == progs[i]
           c == Schema(p, ListedMaps(failed))
           n(f) == [p EXCEPT
             !.cgroup = IF <<"cgroup", NoId>> \in f THEN {} ELSE @,
             !.net    = IF <<"net", NoId>> \in f THEN {} ELSE @,
             !.links  = IF <<"link", NoId>> \in f THEN {} ELSE @,
             !.loader = ResolveLoader(@, i, f),
             !.code   = IF <<"xlated", i>> \in f
                        THEN <<p.tag, p.name, Schema(p, ListedMaps(f))>> ELSE @]
<1>1. p \in Loaded /\ p \in Program /\ p.loader \in Loader
  BY DEF KernelInv, Loaded, Program
<1>2. PICK v \in Variant : Comes(p, v)
  BY <1>1 DEF Loaded
<1>3. c \in SUBSET (v.maps \X MapTypes)
  <2> SUFFICES ASSUME NEW j \in p.maps, ListedMaps(failed)[j] # Absent
               PROVE  <<j, ListedMaps(failed)[j].type>> \in v.maps \X MapTypes
    BY DEF Schema
  <2>1. j \in MapId /\ p.maps = v.maps
    BY <1>1, <1>2 DEF Program, Comes
  <2>2. ListedMaps(failed)[j] \in Created
    BY <2>1, ListedMapIs
  <2> QED
    BY <2>1, <2>2 DEF Created, MapObject
<1>4. \A f : BuildProgram(i, f) = n(f)
  BY DEF BuildProgram
<1>5. \A f : ResolveLoader(p.loader, i, f) \in Loader
  BY <1>1 DEF ResolveLoader, Loader
<1>6. ResolveLoader(p.loader, i, {}) = p.loader
  BY <1>1 DEF ResolveLoader, Loader
<1>7. n({}) = p
  <2> HIDE DEF p
  <2> QED
    BY <1>1, <1>6 DEF Program
<1>8. <<p.tag, p.name, c>> \in Codes(v)
  BY <1>2, <1>3 DEF Codes, Comes
<1>9. n(failed) \in Loaded
  <2> DEFINE d == IF <<"xlated", i>> \in failed THEN <<p.tag, p.name, c>> ELSE p.code
             a == IF <<"cgroup", NoId>> \in failed THEN {} ELSE p.cgroup
             b == IF <<"net", NoId>> \in failed THEN {} ELSE p.net
             l == IF <<"link", NoId>> \in failed THEN {} ELSE p.links
             r == ResolveLoader(p.loader, i, failed)
  <2>1. /\ d \in Codes(v) /\ a \in {{}, v.cgroup} /\ b \in {{}, v.net}
        /\ a \in SUBSET Hook /\ b \in SUBSET Hook /\ l \in SUBSET Link
    BY <1>1, <1>2, <1>8 DEF Comes, Program
  <2>2. d \in UNION {Codes(w) : w \in Variant} /\ r \in Loader
    BY <1>5, <2>1
  <2>3. n(failed) = [p EXCEPT !.cgroup = a, !.net = b, !.links = l, !.loader = r, !.code = d]
    BY <1>1 DEF Program
  <2> HIDE DEF p, n, a, b, d, l, r
  <2>4. n(failed) \in Program
    BY <1>1, <2>1, <2>2, <2>3 DEF Program
  <2>5. Comes(n(failed), v)
    BY <1>1, <1>2, <2>1, <2>3 DEF Comes, Program
  <2> QED
    BY <2>4, <2>5 DEF Loaded
<1> HIDE DEF n, p
<1> QED
  BY <1>4, <1>7, <1>9 DEF p

(* What a scan lists depends on the kernel alone.                          *)
LEMMA ListedStays ==
  ASSUME UNCHANGED kernel, NEW failed
  PROVE  Listed(failed)' = Listed(failed)
<1>1. progs' = progs /\ maps' = maps
  BY DEF kernel
<1>2. ListedMaps(failed)' = ListedMaps(failed)
  BY <1>1 DEF ListedMaps
<1>3. \A i : BuildProgram(i, failed)' = BuildProgram(i, failed)
  BY <1>1, <1>2 DEF BuildProgram, Schema, ResolveLoader
<1> QED
  BY <1>1, <1>2, <1>3 DEF Listed

(* What a scan lists is what may be loaded.                                *)
LEMMA ListedOK ==
  ASSUME KernelInv, NEW failed
  PROVE  ScanOK(Listed(failed))
<1> DEFINE s == Listed(failed)
<1>1. ASSUME NEW i \in Id PROVE s.progs[i] \in Loaded \cup {Absent}
  BY BuiltIs DEF Listed
<1>2. ASSUME NEW i \in MapId
      PROVE  s.maps[i] \in Created \cup {Absent} /\ (s.maps[i] # Absent => s.maps[i].id = i)
  BY ListedMapIs DEF Listed
<1>3. DOMAIN s.progs = Id /\ DOMAIN s.maps = MapId
  BY DEF Listed, ListedMaps
<1>4. s.progs = [i \in Id |-> s.progs[i]] /\ s.maps = [i \in MapId |-> s.maps[i]]
  BY DEF Listed, ListedMaps
<1> HIDE DEF s
<1>5. s.progs \in [Id -> Loaded \cup {Absent}] /\ s.maps \in [MapId -> Created \cup {Absent}]
  BY <1>1, <1>2, <1>3, <1>4
<1> QED
  BY <1>2, <1>5 DEF ScanOK, s

(* With no call failing, that is everything.                               *)
LEMMA ListedAll ==
  ASSUME KernelInv
  PROVE  /\ \A i \in Id : Listed({}).progs[i] = progs[i]
         /\ \A j \in MapId : Listed({}).maps[j] = maps[j]
BY BuiltIs, ListedMapIs DEF Listed

(* The program an entry is matched with is one of the scan.                *)
LEMMA MatchIs ==
  ASSUME NEW s, ScanOK(s), watch \in Watchlist, NEW k \in Inspected(s)
  PROVE  MatchId(k, s) \in Id /\ Match(k, s) \in Loaded
<1>0. /\ k \in Key /\ k[1] = "prog" /\ MatchId(k, s) # NoId
      /\ watch[k] \in ProgEntry
  BY DEF Inspected, Watchlist
<1>1. CASE IdsWith(s, k) # {}
  <2>1. MatchId(k, s) = Max(IdsWith(s, k))
    BY <1>1 DEF MatchId
  <2>2. MatchId(k, s) \in Id /\ s.progs[MatchId(k, s)] # Absent
    BY <1>1, <2>1, LastProgIs
  <2> QED
    BY <2>2 DEF ScanOK, Match
<1>2. CASE IdsWith(s, k) = {}
  <2>1. /\ MatchId(k, s) = watch[k].id /\ s.progs[watch[k].id] # Absent
        /\ watch[k].id \in Id
    BY <1>0, <1>2 DEF MatchId, ProgEntry
  <2> QED
    BY <2>1 DEF ScanOK, Match
<1> QED
  BY <1>1, <1>2

(* What the loop over the entries remembers and finds.                     *)
LEMMA InspectIs ==
  ASSUME NEW e \in ProgEntry, NEW p \in Loaded, NEW s
  PROVE  /\ Inspect(e, p, s).last \in LastAlert
         /\ \A f \in Inspect(e, p, s).found : f.about = ProgKey(p)
<1>1. Inspect(e, p, s).last \in LastAlert
  BY DEF Inspect, ProgEntry, LastAlert, Alerting
<1>2. \A f \in Inspect(e, p, s).found : f.about = ProgKey(p)
  <2>1. \A c, what, level : \A f \in Say(c, ProgKey(p), what, level) : f.about = ProgKey(p)
    BY DEF Say
  <2> QED
    BY <2>1 DEF Inspect
<1> QED
  BY <1>1, <1>2

(* The loop of the watcher leaves a watchlist.                             *)
LEMMA RenamedType ==
  ASSUME NEW s, ScanOK(s), watch \in Watchlist, NEW order \in Bijection(Id, Id)
  PROVE  Renamed(s, order) \in Watchlist
<1> DEFINE Here(k)  == {o \in Inspected(s) : ProgKey(Match(o, s)) = k}
           Moved(k) == Here(k) \ {k}
           From(k)  == IF Moved(k) = {} THEN k
                       ELSE CHOOSE o \in Moved(k) : \A x \in Moved(k) :
                              order[MatchId(x, s)] <= order[MatchId(o, s)]
           New(k)   == [id |-> MatchId(From(k), s), state |-> Class(Match(From(k), s), s),
                        last |-> Inspect(watch[From(k)], Match(From(k), s), s).last,
                        meta |-> Match(From(k), s)]
           r == Renamed(s, order)
<1>1. order \in [Id -> Id]
  BY DEF Bijection, Injection
<1>2. ASSUME NEW k \in Key, Here(k) # {} PROVE From(k) \in Here(k)
  <2>1. CASE Moved(k) = {}
    BY <1>2, <2>1
  <2>2. CASE Moved(k) # {}
    <3> DEFINE T == {order[MatchId(o, s)] : o \in Moved(k)}
    <3>1. T \in SUBSET (1..MaxId) /\ T # {}
      <4>1. \A o \in Moved(k) : order[MatchId(o, s)] \in 1..MaxId
        BY <1>1, MatchIs DEF Id
      <4> HIDE DEF Moved
      <4> QED
        BY <2>2, <4>1
    <3>2. Max(T) \in T /\ \A n \in T : n <= Max(T)
      <4> HIDE DEF T
      <4> QED
        BY <3>1, MaxIs, Bounds
    <3>3. \E o \in Moved(k) : \A x \in Moved(k) : order[MatchId(x, s)] <= order[MatchId(o, s)]
      <4> HIDE DEF Moved
      <4> QED
        BY <3>2
    <3> HIDE DEF Moved
    <3>4. From(k) \in Moved(k)
      BY <2>2, <3>3, Zenon
    <3> QED
      BY <3>4 DEF Moved
  <2> QED
    BY <2>1, <2>2
<1>3. r = [k \in Key |-> IF Here(k) # {} THEN New(k)
                         ELSE IF k \in Inspected(s) THEN Absent ELSE watch[k]]
  <2> DEFINE home == [o \in Inspected(s) |-> ProgKey(Match(o, s))]
  <2>1. \A k : {o \in Inspected(s) : home[o] = k} = Here(k)
    OBVIOUS
  <2> DEFINE Entry(k, here) ==
               LET moved == here \ {k}
                   from  == IF moved = {} THEN k
                            ELSE CHOOSE o \in moved : \A x \in moved :
                                   order[MatchId(x, s)] <= order[MatchId(o, s)]
                   p     == Match(from, s)
               IN  IF here # {}
                   THEN [id |-> MatchId(from, s), state |-> Class(p, s),
                         last |-> Inspect(watch[from], p, s).last, meta |-> p]
                   ELSE IF k \in Inspected(s) THEN Absent ELSE watch[k]
  <2>2. r = [k \in Key |-> Entry(k, {o \in Inspected(s) : home[o] = k})]
    BY Zenon DEF Renamed
  <2>3. \A k : Entry(k, {o \in Inspected(s) : home[o] = k}) = Entry(k, Here(k))
    <3> HIDE DEF Entry, Here
    <3> QED
      BY <2>1
  <2>4. r = [k \in Key |-> Entry(k, Here(k))]
    <3> HIDE DEF Entry, Here, r
    <3> QED
      BY <2>2, <2>3
  <2> QED
    BY <2>4, Zenon
<1>4. ASSUME NEW k \in Key, Here(k) # {} PROVE New(k) \in ProgEntry /\ k[1] = "prog"
  <2> DEFINE o == From(k)
             p == Match(o, s)
  <2>1. o \in Inspected(s) /\ ProgKey(p) = k
    BY <1>2, <1>4
  <2> HIDE DEF o
  <2>2. watch[o] \in ProgEntry
    BY <2>1 DEF Inspected, Watchlist
  <2>3. MatchId(o, s) \in Id /\ p \in Loaded
    BY <2>1, MatchIs
  <2>4. k[1] = "prog"
    BY <2>1, <2>3, ProgKeyIs
  <2>5. Class(p, s) \in AnyState
    BY ClassIs DEF AnyState, WatchState, Unwatched
  <2> HIDE DEF p
  <2>6. Inspect(watch[o], p, s).last \in LastAlert
    BY <2>2, <2>3, InspectIs
  <2>7. p \in Program
    BY <2>3 DEF Loaded
  <2>8. New(k) = [id |-> MatchId(o, s), state |-> Class(p, s),
                  last |-> Inspect(watch[o], p, s).last, meta |-> p]
    BY DEF o, p
  <2> HIDE DEF New
  <2>9. New(k) \in ProgEntry
    BY <2>3, <2>5, <2>6, <2>7, <2>8 DEF ProgEntry
  <2> QED
    BY <2>4, <2>9
<1> HIDE DEF r, New, Here
<1>5. ASSUME NEW k \in Key
      PROVE  /\ r[k] \in ProgEntry \cup MapEntry \cup {Absent}
             /\ r[k] # Absent => IF k[1] = "prog" THEN r[k] \in ProgEntry ELSE r[k] \in MapEntry
  <2>1. CASE Here(k) # {}
    BY <1>3, <1>4, <2>1
  <2>2. CASE Here(k) = {}
    BY <1>3, <2>2 DEF Watchlist
  <2> QED
    BY <2>1, <2>2
<1>6. r \in [Key -> ProgEntry \cup MapEntry \cup {Absent}]
  BY <1>3, <1>5
<1> QED
  BY <1>5, <1>6 DEF Watchlist, r

(* A finding of a run is about an object with a key.                       *)
LEMMA FoundAbout ==
  ASSUME NEW s, ScanOK(s), watch \in Watchlist
  PROVE  \A f \in ProgFindings(s) \cup MapFindings(s) : f.about \in Key
<1>1. ASSUME NEW f \in ProgFindings(s) PROVE f.about \in Key
  <2>1. PICK k \in Inspected(s) : f \in Inspect(watch[k], Match(k, s), s).found
    BY DEF ProgFindings
  <2>2. watch[k] \in ProgEntry /\ Match(k, s) \in Loaded
    BY MatchIs DEF Inspected, Watchlist
  <2>3. f.about = ProgKey(Match(k, s))
    BY <2>1, <2>2, InspectIs
  <2> QED
    BY <2>2, <2>3, ProgKeyIs
<1>2. ASSUME NEW f \in MapFindings(s) PROVE f.about \in Key
  <2>1. PICK k \in InspectedMaps(s) : f.about = k
    BY DEF MapFindings, Say
  <2> QED
    BY <2>1 DEF InspectedMaps
<1> QED
  BY <1>1, <1>2

(* The audit says something of programs and maps only.                     *)
LEMMA AuditAbout ==
  ASSUME NEW s, ScanOK(s)
  PROVE  \A f \in AuditFindings(s) : f.about \in Key
<1>1. Programs(s) \subseteq Loaded /\ Maps(s) \subseteq Created
  BY DEF Programs, Maps, ScanOK
<1>3. ASSUME NEW f \in AuditFindings(s)
      PROVE  \/ \E p \in Programs(s) : f.about = ProgKey(p)
             \/ \E m \in Maps(s) : f.about = MapKey(m)
  <2> DEFINE Prog(p) == Say(\/ Class(p, s) \in Alerting
                            \/ Class(p, s) = "surveillance" /\ watch[ProgKey(p)] = Absent,
                            ProgKey(p), "audit", Class(p, s))
             Map(m)  == Say(ClassifyMap(m.type, MapKey(m) \in baseline) = "surveillance"
                              /\ watch[MapKey(m)] = Absent,
                            MapKey(m), "audit", "surveillance")
  <2>1. \A p : \A g \in Prog(p) : g.about = ProgKey(p)
    BY DEF Say
  <2>2. \A m : \A g \in Map(m) : g.about = MapKey(m)
    BY DEF Say
  <2>3. AuditFindings(s) = UNION ({Prog(p) : p \in Programs(s)} \cup {Map(m) : m \in Maps(s)})
    BY DEF AuditFindings
  <2> HIDE DEF Prog, Map
  <2>4. (\E p \in Programs(s) : f \in Prog(p)) \/ (\E m \in Maps(s) : f \in Map(m))
    BY <1>3, <2>3
  <2> QED
    BY <2>1, <2>2, <2>4
<1> QED
  BY <1>1, <1>3, ProgKeyIs, MapKeyIs

(* The entry that stands has a watched state and an identifier.            *)
LEMMA TrackedEntry ==
  ASSUME NEW w \in Watchlist, NEW s, ScanOK(s), NEW b, Tracks(w, s, b),
         NEW k \in Key, w[k] # Absent, w[k].state # "vanished"
  PROVE  IF k[1] = "prog"
         THEN LET i == Max(IdsWith(s, k)) IN
              /\ IdsWith(s, k) # {} /\ i \in Id
              /\ w[k].id = i /\ w[k].meta = s.progs[i]
              /\ w[k].state = ClassIn(s.progs[i], s, b) /\ w[k].state \notin Unwatched
         ELSE LET i == Max(MapIdsWith(s, k)) IN
              /\ MapIdsWith(s, k) # {} /\ i \in MapId
              /\ w[k].id = i /\ w[k].meta = s.maps[i]
              /\ w[k].state = ClassifyMap(s.maps[i].type, k \in b) /\ w[k].state \notin Unwatched
<1>1. CASE k[1] = "prog"
  <2> DEFINE i == Max(IdsWith(s, k))
  <2>1. IdsWith(s, k) # {}
    BY <1>1 DEF Tracks
  <2>2. i \in Id /\ ProgKey(s.progs[i]) = k /\ LastProg(s, i, MaxId)
    BY <2>1, LastProgIs
  <2> HIDE DEF i
  <2>3. Stands(w[k], i, s.progs[i], ClassIn(s.progs[i], s, b))
    BY <2>2 DEF Tracks, ProgStands
  <2> QED
    BY <1>1, <2>1, <2>2, <2>3 DEF Stands, i
<1>2. CASE k[1] # "prog"
  <2> DEFINE i == Max(MapIdsWith(s, k))
  <2>1. MapIdsWith(s, k) # {}
    BY <1>2 DEF Tracks
  <2>2. i \in MapId /\ MapKey(s.maps[i]) = k /\ LastMap(s, i, MaxMapId)
    BY <2>1, LastMapIs
  <2> HIDE DEF i
  <2>3. Stands(w[k], i, s.maps[i], ClassifyMap(s.maps[i].type, k \in b))
    BY <2>2 DEF Tracks, MapStands
  <2> QED
    BY <1>2, <2>1, <2>2, <2>3 DEF Stands, i
<1> QED
  BY <1>1, <1>2

(* A watchlist that tracks a scan describes it.                            *)
LEMMA TracksDescribes ==
  ASSUME NEW w \in Watchlist, NEW s, ScanOK(s), NEW b, Tracks(w, s, b)
  PROVE  Describes(w, s, b)
BY TrackedEntry DEF Describes

(* And all its entries have a watched state.                               *)
LEMMA TracksOK ==
  ASSUME NEW w \in Watchlist, NEW s, ScanOK(s), Tracks(w, s, baseline)
  PROVE  EntriesOK(w)
<1> SUFFICES ASSUME NEW k \in Key, w[k] # Absent
             PROVE  w[k].state \in WatchState /\ (w[k].id = NoId <=> w[k].state = "vanished")
  BY DEF EntriesOK
<1>1. CASE w[k].state = "vanished"
  BY <1>1 DEF Tracks, WatchState
<1>2. CASE w[k].state # "vanished"
  <2>1. w[k].id \in Nat \ {0} /\ w[k].state \notin Unwatched
    BY <1>2, TrackedEntry, Bounds DEF Id, MapId
  <2>2. w[k].state \in AnyState
    BY DEF Watchlist, ProgEntry, MapEntry
  <2> QED
    BY <1>2, <2>1, <2>2 DEF AnyState, WatchState, NoId, Unwatched
<1> QED
  BY <1>1, <1>2

(* A scan that lacks the programs alone lists every map.                   *)
LEMMA ListedMapsSame == ListedMaps({<<"prog", NoId>>}) = ListedMaps({})
BY DEF ListedMaps

(* A scan that lacks the programs still describes every map.               *)
LEMMA NoProgramsDescribe ==
  ASSUME NEW w \in Watchlist, KernelInv, NEW failed, failed = {<<"prog", NoId>>},
         Tracks(w, Listed(failed), baseline)
  PROVE  Describes(w, Listed({}), baseline)
<1> DEFINE s == Listed(failed)
           t == Listed({})
<1>1. ScanOK(s)
  BY ListedOK
<1>2. \A k : IdsWith(s, k) = {} /\ MapIdsWith(s, k) = MapIdsWith(t, k)
  BY ListedMapsSame DEF IdsWith, MapIdsWith, Listed
<1>3. s.maps = t.maps
  BY ListedMapsSame DEF Listed
<1>4. Describes(w, s, baseline)
  BY <1>1, TracksDescribes
<1> HIDE DEF s, t
<1> QED
  BY <1>2, <1>3, <1>4 DEF Describes, s, t

-----------------------------------------------------------------------------
(* BpfWatch: the steps *)

(* The invariant holds initially.                                          *)
LEMMA BpfFirst == BpfInit => BpfInv
<1> SUFFICES ASSUME BpfInit PROVE BpfInv
  OBVIOUS
<1>1. KernelInv
  BY Bounds DEF BpfInit, KernelInv
<1>2. watch \in Watchlist /\ \A k \in Key : watch[k] = Absent
  BY DEF BpfInit, Watchlist
<1>3. DocInv
  BY <1>2 DEF BpfInit, DocInv, EntriesOK
<1>4. HistoryInv
  BY Bounds DEF BpfInit, HistoryInv
<1>5. /\ \A i \in Id : Listed({}).progs[i] = Absent
      /\ \A i \in MapId : Listed({}).maps[i] = Absent
  BY DEF BpfInit, Listed, ListedMaps
<1>6. Describes(watch, Listed({}), baseline)
  BY <1>2 DEF Describes
<1>7. Tracks(watch, Listed({}), baseline)
  BY <1>2, <1>5 DEF Tracks, LastProg, LastMap
<1> QED
  BY <1>1, <1>3, <1>4, <1>6, <1>7 DEF BpfInv

(* A change of the kernel leaves the document as it is.                    *)
LEMMA KernelStep ==
  ASSUME KernelInv, Kernel
  PROVE  KernelInv' /\ Happens
<1> USE DEF KernelInv
<1>1. ASSUME NEW v \in Variant, LoadProgram(v) PROVE KernelInv' /\ Happens
  <2> DEFINE p == [name |-> v.name, type |-> v.type, tag |-> v.tag, code |-> v.code,
                   cgroup |-> v.cgroup, net |-> v.net, loader |-> v.loader,
                   maps |-> v.maps, links |-> {}, pinned |-> FALSE]
  <2>1. p \in Loaded /\ p.maps = v.maps
    <3>1. v.code \in Codes(v) /\ v.code \in UNION {Codes(w) : w \in Variant}
      BY DEF Codes
    <3>2. p \in Program
      BY <3>1, VariantAssumption DEF Program
    <3> QED
      BY <3>1, <3>2 DEF Loaded, Comes
  <2>2. /\ next.prog \in Id /\ progs' = [progs EXCEPT ![next.prog] = p]
        /\ next' = [next EXCEPT !.prog = @ + 1] /\ UNCHANGED maps
        /\ \A j \in p.maps : maps[j] # Absent
    BY <1>1, <2>1 DEF LoadProgram
  <2> HIDE DEF p
  <2>3. next' \in [prog : 1..(MaxId + 1), map : 1..(MaxMapId + 1)]
    BY <2>2, Bounds DEF Id
  <2>4. progs' \in [Id -> Loaded \cup {Absent}]
    BY <2>1, <2>2
  <2>5. \A i \in Id : progs'[i] # Absent => \A j \in progs'[i].maps : maps[j] # Absent
    BY <2>2
  <2> QED
    BY <1>1, <2>2, <2>3, <2>4, <2>5 DEF LoadProgram
<1>2. ASSUME NEW i \in Id, UnloadProgram(i) PROVE KernelInv' /\ Happens
  BY <1>2 DEF UnloadProgram
<1>3. ASSUME NEW i \in Id, Happens, progs[i] # Absent, UNCHANGED <<maps, next>>,
             NEW p, p.maps = progs[i].maps, p \in Loaded,
             progs' = [progs EXCEPT ![i] = p]
      PROVE  KernelInv' /\ Happens
  BY <1>3
<1>4. ASSUME NEW i \in Id, progs[i] # Absent
      PROVE  /\ progs[i] \in Loaded
             /\ \A l \in Link : [progs[i] EXCEPT !.links = @ \cup {l}] \in Loaded
             /\ \A l : [progs[i] EXCEPT !.links = @ \ {l}] \in Loaded
             /\ [progs[i] EXCEPT !.pinned = ~@] \in Loaded
             /\ \A v \in Variant : [progs[i] EXCEPT !.loader = v.loader] \in Loaded
  <2>1. progs[i] \in Loaded
    BY <1>4
  <2> QED
    BY <2>1, VariantAssumption DEF Loaded, Program, Comes
<1>5. ASSUME NEW i \in Id, NEW l \in Link, Attach(i, l) \/ Detach(i, l)
      PROVE  KernelInv' /\ Happens
  <2>1. progs[i] # Absent
    BY <1>5 DEF Attach, Detach
  <2>2. progs[i] \in Program
    BY <2>1, <1>4 DEF Loaded
  <2>3. CASE Attach(i, l)
    <3> DEFINE p == [progs[i] EXCEPT !.links = @ \cup {l}]
    <3>1. p.maps = progs[i].maps /\ p \in Loaded
      BY <1>4, <2>1, <2>2 DEF Program
    <3>2. progs' = [progs EXCEPT ![i] = p]
      BY <2>3 DEF Attach
    <3> HIDE DEF p
    <3> QED
      BY <1>3, <2>1, <2>3, <3>1, <3>2 DEF Attach
  <2>4. CASE Detach(i, l)
    <3> DEFINE p == [progs[i] EXCEPT !.links = @ \ {l}]
    <3>1. p.maps = progs[i].maps /\ p \in Loaded
      BY <1>4, <2>1, <2>2 DEF Program
    <3>2. progs' = [progs EXCEPT ![i] = p]
      BY <2>4 DEF Detach
    <3> HIDE DEF p
    <3> QED
      BY <1>3, <2>1, <2>4, <3>1, <3>2 DEF Detach
  <2> QED
    BY <1>5, <2>3, <2>4
<1>6. ASSUME NEW i \in Id, Pin(i) PROVE KernelInv' /\ Happens
  <2> DEFINE p == [progs[i] EXCEPT !.pinned = ~@]
  <2>1. progs[i] # Absent
    BY <1>6 DEF Pin
  <2>2. p.maps = progs[i].maps /\ p \in Loaded
    <3>1. p \in Loaded
      BY <1>4, <2>1, Zenon
    <3>2. progs[i] \in Program
      BY <1>4, <2>1 DEF Loaded
    <3>3. p.maps = progs[i].maps
      BY <3>2 DEF Program
    <3> QED
      BY <3>1, <3>3
  <2>3. progs' = [progs EXCEPT ![i] = p]
    BY <1>6 DEF Pin
  <2> HIDE DEF p
  <2> QED
    BY <1>3, <1>6, <2>1, <2>2, <2>3 DEF Pin
<1>7. ASSUME NEW i \in Id, NEW v \in Variant, Hold(i, v) PROVE KernelInv' /\ Happens
  <2> DEFINE p == [progs[i] EXCEPT !.loader = v.loader]
  <2>1. progs[i] # Absent
    BY <1>7 DEF Hold
  <2>2. p.maps = progs[i].maps /\ p \in Loaded
    BY <1>4, <2>1 DEF Program, Loaded
  <2>3. progs' = [progs EXCEPT ![i] = p]
    BY <1>7 DEF Hold
  <2> HIDE DEF p
  <2> QED
    BY <1>3, <1>7, <2>1, <2>2, <2>3 DEF Hold
<1>8. ASSUME NEW v \in MapVariant, CreateMap(v) PROVE KernelInv' /\ Happens
  <2> DEFINE m == [id |-> next.map, name |-> v.name, type |-> v.type, btf |-> v.btf,
                   holders |-> {}]
  <2>1. next.map \in MapId /\ maps' = [maps EXCEPT ![next.map] = m]
        /\ next' = [next EXCEPT !.map = @ + 1] /\ UNCHANGED progs
    BY <1>8 DEF CreateMap
  <2>2. m \in Created /\ m.id = next.map
    BY <2>1, MapAssumption DEF Created, MapObject, MapTypes
  <2>3. m # Absent
    BY <2>2, AbsentIs DEF Created
  <2> HIDE DEF m
  <2>4. next' \in [prog : 1..(MaxId + 1), map : 1..(MaxMapId + 1)]
    BY <2>1, Bounds DEF MapId
  <2>5. maps' \in [MapId -> Created \cup {Absent}]
        /\ \A i \in MapId : maps'[i] # Absent => maps'[i].id = i
    BY <2>1, <2>2
  <2>6. \A j : maps[j] # Absent => maps'[j] # Absent
    BY <2>1, <2>3
  <2> QED
    BY <1>8, <2>1, <2>4, <2>5, <2>6 DEF CreateMap
<1>9. ASSUME NEW i \in MapId, NEW pids \in SUBSET Pid, HoldMap(i, pids)
      PROVE  KernelInv' /\ Happens
  <2> DEFINE m == [maps[i] EXCEPT !.holders = pids]
  <2>1. maps[i] # Absent /\ maps' = [maps EXCEPT ![i] = m] /\ UNCHANGED <<progs, next>>
    BY <1>9 DEF HoldMap
  <2>2. maps[i] \in Created /\ maps[i].id = i
    BY <2>1
  <2>3. m \in Created /\ m.id = i
    BY <2>2 DEF Created, MapObject
  <2>4. m # Absent
    BY <2>3, AbsentIs DEF Created
  <2> HIDE DEF m
  <2>5. maps' \in [MapId -> Created \cup {Absent}]
        /\ \A j \in MapId : maps'[j] # Absent => maps'[j].id = j
    BY <2>1, <2>3
  <2>6. \A j : maps[j] # Absent => maps'[j] # Absent
    BY <2>1, <2>4
  <2> QED
    BY <1>9, <2>1, <2>5, <2>6 DEF HoldMap
<1>10. ASSUME NEW i \in MapId, FreeMap(i) PROVE KernelInv' /\ Happens
  BY <1>10 DEF FreeMap
<1>11. CASE Reboot
  BY <1>11, Bounds DEF Reboot
<1> QED
  BY <1>1, <1>2, <1>5, <1>6, <1>7, <1>8, <1>9, <1>10, <1>11 DEF Kernel

(* A run that scans leaves the watchlist as the scan found the kernel.     *)
LEMMA ScanStep ==
  ASSUME BpfInv, NEW failed, Scan(failed), UNCHANGED <<kernel, baseline, events>>,
         NEW w \in Watchlist, watch' = UpdateFromScan(w, Listed(failed)),
         \A f \in findings' : f.about \in Key
  PROVE  BpfInv'
<1> DEFINE s == Listed(failed)
           t == Listed({})
<1>1. KernelInv /\ ScanOK(s) /\ ScanOK(t)
  BY ListedOK DEF BpfInv
<1>2. KernelInv'
  BY <1>1 DEF KernelInv, kernel
<1>3. watch' \in Watchlist /\ Tracks(watch', s, baseline)
  BY <1>1, UpdateTracks
<1>4. EntriesOK(watch')
  BY <1>1, <1>3, TracksOK
<1>5. DocInv'
  BY <1>3, <1>4 DEF BpfInv, DocInv, EntriesOK
<1>6. HistoryInv'
  <2>1. events' \in 0..MaxEvents /\ badScans' \in 0..MaxBadScans
    BY Bounds DEF BpfInv, HistoryInv, Scan
  <2>2. unchanged \in BOOLEAN /\ (failed = {<<"prog", NoId>>}) \in BOOLEAN
    BY Zenon DEF BpfInv, HistoryInv
  <2>3. unchanged' \in BOOLEAN /\ current' \in BOOLEAN
    BY <2>2, Zenon DEF Scan
  <2> QED
    BY <2>1, <2>3, Zenon DEF HistoryInv
<1>7. t' = t /\ baseline' = baseline
  BY ListedStays
<1>8. current' => failed = {}
  BY DEF Scan
<1>9. unchanged' => failed = {} \/ failed = {<<"prog", NoId>>}
  BY DEF Scan
<1>10. failed = {} => Describes(watch', t, baseline)
  BY <1>1, <1>3, TracksDescribes
<1>11. failed = {<<"prog", NoId>>} => Describes(watch', t, baseline)
  BY <1>1, <1>3, NoProgramsDescribe
<1>12. current' => Tracks(watch', t, baseline)
  BY <1>3, <1>8
<1>13. unchanged' => Describes(watch', t, baseline)
  BY <1>9, <1>10, <1>11
<1> HIDE DEF t
<1>14. (unchanged' => Describes(watch', t', baseline')) /\ (current' => Tracks(watch', t', baseline'))
  BY <1>7, <1>12, <1>13
<1> QED
  BY <1>2, <1>5, <1>6, <1>14 DEF BpfInv, t

(* A promoted entry leaves the watchlist for the baseline; the classes of  *)
(* the others stay.                                                        *)
LEMMA PromotedTracks ==
  ASSUME NEW w \in Watchlist, NEW s, ScanOK(s), NEW b, NEW k \in Key
  PROVE  LET u == [w EXCEPT ![k] = Absent] IN
         /\ Tracks(w, s, b) => Tracks(u, s, b \cup {k})
         /\ Describes(w, s, b) => Describes(u, s, b \cup {k})
         /\ Describes(w, s, b) => Describes(u, s, b)
<1> DEFINE u == [w EXCEPT ![k] = Absent]
           c == b \cup {k}
<1>1. u[k] = Absent /\ \A l \in Key : l # k => u[l] = w[l]
  BY DEF Watchlist
<1>2. \A p : ProgKey(p) # k => ClassIn(p, s, c) = ClassIn(p, s, b)
  BY DEF ClassIn
<1>3. \A p : ProgKey(p) = k => ClassIn(p, s, c) \in Unwatched
  BY DEF ClassIn, ClassifyProgram, Unwatched
<1>4. \A t : ClassifyMap(t, k \in c) \in Unwatched
  BY DEF ClassifyMap, Unwatched
<1> HIDE DEF u
<1>5. ASSUME Tracks(w, s, b) PROVE Tracks(u, s, c)
  <2>1. ASSUME NEW i \in Id, LastProg(s, i, MaxId) PROVE ProgStands(u, s, i, c)
    <3>1. s.progs[i] \in Loaded /\ ProgStands(w, s, i, b)
      BY <1>5, <2>1 DEF Tracks, LastProg, ScanOK
    <3>2. ProgKey(s.progs[i]) \in Key
      BY <3>1, ProgKeyIs
    <3> HIDE DEF c
    <3> QED
      BY <1>1, <1>2, <1>3, <3>1, <3>2 DEF ProgStands, Stands
  <2>2. ASSUME NEW i \in MapId, LastMap(s, i, MaxMapId) PROVE MapStands(u, s, i, c)
    <3> DEFINE l == MapKey(s.maps[i])
    <3>1. s.maps[i] \in Created /\ MapStands(w, s, i, b)
      BY <1>5, <2>2 DEF Tracks, LastMap, ScanOK
    <3>2. l \in Key
      BY <3>1, MapKeyIs
    <3>3. CASE l = k
      <4>1. ClassifyMap(s.maps[i].type, l \in c) \in Unwatched
        BY <1>4, <3>3
      <4> HIDE DEF c, l
      <4> QED
        BY <1>1, <3>3, <4>1 DEF MapStands, Stands, l
    <3>4. CASE l # k
      <4>1. (l \in c) = (l \in b)
        BY <3>4
      <4>2. u[l] = w[l]
        BY <1>1, <3>2, <3>4
      <4> QED
        BY <3>1, <4>1, <4>2 DEF MapStands
    <3> QED
      BY <3>3, <3>4
  <2>3. \A l \in Key : u[l] # Absent => u[l] = w[l]
    BY <1>1
  <2> QED
    BY <1>5, <2>1, <2>2, <2>3 DEF Tracks
<1>6. ASSUME Describes(w, s, b) PROVE Describes(u, s, c) /\ Describes(u, s, b)
  <2>1. ASSUME NEW l \in Key, u[l] # Absent, l[1] = "prog", IdsWith(s, l) # {},
               u[l].meta = s.progs[Max(IdsWith(s, l))]
        PROVE  ClassIn(u[l].meta, s, c) = ClassIn(u[l].meta, s, b)
    <3>1. ProgKey(u[l].meta) = l
      BY <2>1, LastProgIs
    <3>2. l # k
      BY <1>1, <2>1
    <3> QED
      BY <1>2, <3>1, <3>2
  <2>2. \A l \in Key : u[l] # Absent => u[l] = w[l]
    BY <1>1
  <2> HIDE DEF c
  <2>3. Describes(u, s, b)
    BY <1>6, <2>2 DEF Describes
  <2>4. Describes(u, s, c)
    BY <2>1, <2>3 DEF Describes
  <2> QED
    BY <2>3, <2>4
<1> QED
  BY <1>5, <1>6 DEF u

(* When an entry leaves the watchlist, the others and the kernel stay.     *)
LEMMA EntryLeaves ==
  ASSUME BpfInv, NEW k \in Key, watch' = [watch EXCEPT ![k] = Absent],
         UNCHANGED <<kernel, events, badScans, unchanged>>, current' = FALSE \/ UNCHANGED current,
         findings' = {}, baseline' \subseteq Key
  PROVE  KernelInv' /\ DocInv' /\ HistoryInv' /\ Listed({})' = Listed({})
<1>1. KernelInv' /\ Listed({})' = Listed({})
  BY ListedStays DEF BpfInv, KernelInv, kernel
<1>2. watch' \in Watchlist /\ EntriesOK(watch')
  BY DEF BpfInv, DocInv, EntriesOK, Watchlist
<1>3. DocInv'
  BY <1>2 DEF DocInv, EntriesOK
<1>4. HistoryInv'
  BY DEF BpfInv, HistoryInv
<1> QED
  BY <1>1, <1>3, <1>4

(* Every step keeps the invariant.                                         *)
LEMMA BpfStep == BpfInv /\ [BpfNext]_bpfVars => BpfInv'
<1> SUFFICES ASSUME BpfInv, [BpfNext]_bpfVars PROVE BpfInv'
  OBVIOUS
<1>1. KernelInv /\ watch \in Watchlist
  BY DEF BpfInv, DocInv
<1>2. CASE Kernel
  <2>1. KernelInv' /\ Happens
    BY <1>1, <1>2, KernelStep
  <2>2. DocInv'
    BY <2>1 DEF BpfInv, DocInv, EntriesOK, Happens, doc
  <2>3. HistoryInv'
    <3>1. events' \in 0..MaxEvents /\ badScans' \in 0..MaxBadScans
      BY <2>1, Bounds DEF BpfInv, HistoryInv, Happens
    <3>2. unchanged' \in BOOLEAN /\ current' \in BOOLEAN
      BY <2>1, Zenon DEF Happens
    <3> QED
      BY <3>1, <3>2, Zenon DEF HistoryInv
  <2> QED
    BY <2>1, <2>2, <2>3 DEF BpfInv, Happens
<1>3. CASE Watch
  <2>1. PICK failed \in Failing \cup {{}}, order \in Bijection(Id, Id) :
          /\ Scan(failed)
          /\ watch' = UpdateFromScan(Renamed(Listed(failed), order), Listed(failed))
          /\ findings' = ProgFindings(Listed(failed)) \cup MapFindings(Listed(failed))
          /\ UNCHANGED <<kernel, baseline, events>>
    BY <1>3 DEF Watch
  <2>2. ScanOK(Listed(failed))
    BY <1>1, ListedOK
  <2>3. Renamed(Listed(failed), order) \in Watchlist
    BY <1>1, <2>2, RenamedType
  <2>4. \A f \in findings' : f.about \in Key
    BY <1>1, <2>1, <2>2, FoundAbout
  <2> QED
    BY <2>1, <2>3, <2>4, ScanStep
<1>4. CASE Audit
  <2>1. PICK failed \in Failing \cup {{}} :
          /\ Scan(failed)
          /\ watch' = UpdateFromScan(watch, Listed(failed))
          /\ findings' = AuditFindings(Listed(failed))
          /\ UNCHANGED <<kernel, baseline, events>>
    BY <1>4 DEF Audit
  <2>2. ScanOK(Listed(failed))
    BY <1>1, ListedOK
  <2>3. \A f \in findings' : f.about \in Key
    BY <2>1, <2>2, AuditAbout
  <2> QED
    BY <1>1, <2>1, <2>3, ScanStep
<1>5. ASSUME NEW k \in Key, Promote(k) PROVE BpfInv'
  <2>1. /\ baseline' = baseline \cup {k} /\ watch' = [watch EXCEPT ![k] = Absent]
        /\ findings' = {} /\ UNCHANGED <<kernel, events, badScans, unchanged, current>>
    BY <1>5 DEF Promote
  <2>2. KernelInv' /\ DocInv' /\ HistoryInv' /\ Listed({})' = Listed({})
    BY <2>1, EntryLeaves DEF BpfInv, DocInv
  <2>3. ScanOK(Listed({}))
    BY <1>1, ListedOK
  <2>4. /\ Tracks(watch, Listed({}), baseline) => Tracks(watch', Listed({})', baseline')
        /\ Describes(watch, Listed({}), baseline) => Describes(watch', Listed({})', baseline')
    BY <1>1, <2>1, <2>2, <2>3, PromotedTracks
  <2> QED
    BY <2>1, <2>2, <2>4 DEF BpfInv
<1>6. ASSUME NEW k \in Key, Clear(k) PROVE BpfInv'
  <2>1. /\ baseline' = baseline /\ watch' = [watch EXCEPT ![k] = Absent]
        /\ findings' = {} /\ UNCHANGED <<kernel, events, badScans, unchanged>>
        /\ current' = FALSE
    BY <1>6 DEF Clear
  <2>2. KernelInv' /\ DocInv' /\ HistoryInv' /\ Listed({})' = Listed({})
    BY <2>1, EntryLeaves DEF BpfInv, DocInv
  <2>3. ScanOK(Listed({}))
    BY <1>1, ListedOK
  <2>4. Describes(watch, Listed({}), baseline) => Describes(watch', Listed({})', baseline')
    BY <1>1, <2>1, <2>2, <2>3, PromotedTracks
  <2> QED
    BY <2>1, <2>2, <2>4 DEF BpfInv
<1>7. CASE UNCHANGED bpfVars
  <2>1. Listed({})' = Listed({})
    BY <1>7, ListedStays DEF bpfVars
  <2>2. KernelInv' /\ DocInv' /\ HistoryInv'
    BY <1>7 DEF BpfInv, KernelInv, DocInv, HistoryInv, EntriesOK, bpfVars, kernel, doc
  <2> QED
    BY <1>7, <2>1, <2>2 DEF BpfInv, bpfVars, doc
<1> QED
  BY <1>2, <1>3, <1>4, <1>5, <1>6, <1>7 DEF BpfNext

(* The invariant holds in every reachable state.                           *)
LEMMA BpfAlways == BpfSpec => []BpfInv
BY BpfFirst, BpfStep, PTL DEF BpfSpec

-----------------------------------------------------------------------------
(* What it shows of the watcher *)

(* watchlist.py, watcher.py: whatever is loaded, renamed, promoted or      *)
(* missed by a listing, an entry is one of a program or of a map, in a     *)
(* watched state, with an identifier unless it vanished.                   *)
THEOREM BpfTypes == BpfSpec => []BpfTypeOK
<1>1. BpfInv => BpfTypeOK
  <2> SUFFICES ASSUME BpfInv PROVE BpfTypeOK
    OBVIOUS
  <2>1. KernelInv /\ DocInv /\ HistoryInv
    BY DEF BpfInv
  <2>2. progs \in [Id -> Program \cup {Absent}] /\ maps \in [MapId -> MapObject \cup {Absent}]
    BY <2>1 DEF KernelInv, Loaded, Created
  <2>3. DOMAIN watch = Key
    BY <2>1 DEF DocInv, Watchlist
  <2>4. ASSUME NEW k \in Key, watch[k] # Absent
        PROVE  /\ watch[k] \in IF k[1] = "prog" THEN EntryOf(Program, Id)
                                             ELSE EntryOf(MapObject, MapId)
               /\ watch[k].id = NoId <=> watch[k].state = "vanished"
    <3>1. watch[k].state \in WatchState
      BY <2>1, <2>4 DEF DocInv, EntriesOK
    <3>2. IF k[1] = "prog" THEN watch[k] \in ProgEntry ELSE watch[k] \in MapEntry
      BY <2>1, <2>4 DEF DocInv, Watchlist
    <3>3. CASE k[1] = "prog"
      <4>1. watch[k] \in EntryOf(Program, Id)
        BY <3>1, <3>2, <3>3 DEF ProgEntry, EntryOf, LastAlert
      <4> QED
        BY <2>1, <2>4, <3>3, <4>1 DEF DocInv, EntriesOK
    <3>4. CASE k[1] # "prog"
      <4>1. watch[k] \in EntryOf(MapObject, MapId)
        BY <3>1, <3>2, <3>4 DEF MapEntry, EntryOf, LastAlert
      <4> QED
        BY <2>1, <2>4, <3>4, <4>1 DEF DocInv, EntriesOK
    <3> QED
      BY <3>3, <3>4
  <2> QED
    BY <2>1, <2>2, <2>3, <2>4 DEF BpfTypeOK, KernelInv, DocInv, HistoryInv
<1> QED
  BY <1>1, BpfAlways, PTL

(* update_watchlist_from_scan: after a run that saw the kernel, for any    *)
(* number of programs and maps, the entry of every key stands for the last *)
(* object with that key, and what is loaded no more has vanished.          *)
THEOREM WatchlistTracks == BpfSpec => []WatchlistTracksKernel
<1>1. BpfInv => WatchlistTracksKernel
  <2> SUFFICES ASSUME BpfInv, current PROVE WatchlistTracksKernel
    BY DEF WatchlistTracksKernel
  <2> DEFINE now == Listed({})
  <2>1. KernelInv /\ watch \in Watchlist /\ Tracks(watch, now, baseline)
    BY DEF BpfInv, DocInv
  <2>2. ASSUME NEW k \in Key, k[1] = "prog"
        PROVE  LET id == Max(IdsWith(now, k)) IN
               IF IdsWith(now, k) = {} THEN watch[k] # Absent => watch[k].state = "vanished"
               ELSE Stands(watch[k], id, progs[id], Class(progs[id], now))
    <3> DEFINE id == Max(IdsWith(now, k))
    <3>1. CASE IdsWith(now, k) = {}
      BY <2>1, <2>2, <3>1 DEF Tracks
    <3>2. CASE IdsWith(now, k) # {}
      <4>1. id \in Id /\ ProgKey(now.progs[id]) = k /\ LastProg(now, id, MaxId)
        BY <3>2, LastProgIs
      <4> HIDE DEF id
      <4>2. now.progs[id] = progs[id]
        BY <2>1, <4>1, ListedAll
      <4> HIDE DEF now
      <4> QED
        BY <2>1, <3>2, <4>1, <4>2 DEF Tracks, ProgStands, Class, ClassIn, id
    <3> QED
      BY <3>1, <3>2
  <2>3. ASSUME NEW k \in Key, k[1] # "prog"
        PROVE  LET id == Max(MapIdsWith(now, k)) IN
               IF MapIdsWith(now, k) = {} THEN watch[k] # Absent => watch[k].state = "vanished"
               ELSE Stands(watch[k], id, maps[id], ClassifyMap(maps[id].type, k \in baseline))
    <3> DEFINE id == Max(MapIdsWith(now, k))
    <3>1. CASE MapIdsWith(now, k) = {}
      BY <2>1, <2>3, <3>1 DEF Tracks
    <3>2. CASE MapIdsWith(now, k) # {}
      <4>1. id \in MapId /\ MapKey(now.maps[id]) = k /\ LastMap(now, id, MaxMapId)
        BY <3>2, LastMapIs
      <4> HIDE DEF id
      <4>2. now.maps[id] = maps[id]
        BY <2>1, <4>1, ListedAll
      <4> HIDE DEF now
      <4> QED
        BY <2>1, <3>2, <4>1, <4>2 DEF Tracks, MapStands, id
    <3> QED
      BY <3>1, <3>2
  <2> QED
    BY <2>2, <2>3 DEF WatchlistTracksKernel, Stands
<1> QED
  BY <1>1, BpfAlways, PTL

(* run_bpf_watch: a run that sees what the run before it saw finds         *)
(* nothing, whatever was promoted or cleared in between.                   *)
THEOREM WatchIsIdempotent == BpfSpec => WatchIdempotent
<1>1. BpfInv /\ [BpfNext]_bpfVars
        => [unchanged /\ unchanged' /\ findings' # {} => ~Watch]_bpfVars
  <2> SUFFICES ASSUME BpfInv, unchanged, unchanged', Watch PROVE findings' = {}
    OBVIOUS
  <2>1. PICK failed \in Failing \cup {{}} :
          Scan(failed) /\ findings' = ProgFindings(Listed(failed)) \cup MapFindings(Listed(failed))
    BY DEF Watch
  <2> DEFINE s == Listed(failed)
             t == Listed({})
  <2>2. failed = {} \/ failed = {<<"prog", NoId>>}
    BY <2>1 DEF Scan
  <2>3. s.maps = t.maps
    BY <2>2, ListedMapsSame DEF Listed
  <2>4. \A k : MapIdsWith(s, k) = MapIdsWith(t, k)
    BY <2>3 DEF MapIdsWith
  <2>5. Describes(watch, t, baseline) /\ KernelInv /\ watch \in Watchlist
    BY DEF BpfInv, DocInv
  <2>6. MapFindings(s) = {}
    <3> SUFFICES ASSUME NEW k \in InspectedMaps(s)
                 PROVE  watch[k].meta = s.maps[Max(MapIdsWith(s, k))]
      BY DEF MapFindings, Say
    <3> HIDE DEF s, t
    <3>1. k \in Key /\ k[1] # "prog" /\ watch[k] # Absent /\ watch[k].state # "vanished"
      BY DEF InspectedMaps
    <3> QED
      BY <2>3, <2>4, <2>5, <3>1 DEF Describes
  <2>7. ProgFindings(s) = {}
    <3>1. CASE failed = {<<"prog", NoId>>}
      <4>1. Inspected(s) = {}
        <5> SUFFICES ASSUME NEW k \in Inspected(s) PROVE FALSE
          OBVIOUS
        <5>1. ScanOK(s)
          BY <2>5, ListedOK
        <5>2. MatchId(k, s) \in Id /\ Match(k, s) \in Loaded
          BY <2>5, <5>1, MatchIs
        <5>3. s.progs[MatchId(k, s)] = Absent
          BY <3>1, <5>2 DEF Listed
        <5> QED
          BY <5>2, <5>3, AbsentIs DEF Match, Loaded
      <4> QED
        BY <4>1 DEF ProgFindings
    <3>2. CASE failed = {}
      <4> SUFFICES ASSUME NEW k \in Inspected(t)
                   PROVE  Inspect(watch[k], Match(k, t), t).found = {}
        BY <3>2 DEF ProgFindings
      <4> DEFINE p == Match(k, t)
                 e == watch[k]
      <4>1. k \in Key /\ k[1] = "prog" /\ watch[k] # Absent /\ watch[k].state # "vanished"
        BY DEF Inspected
      <4> HIDE DEF t
      <4>2. /\ IdsWith(t, k) # {} /\ e.meta = t.progs[Max(IdsWith(t, k))]
            /\ e.state = ClassIn(e.meta, t, baseline)
        BY <2>5, <4>1 DEF Describes
      <4>3. e.meta = p
        BY <4>2 DEF Match, MatchId
      <4>4. e.state = Class(p, t)
        BY <4>2, <4>3 DEF Class, ClassIn
      <4> HIDE DEF e, p
      <4>5. NewLinks(p, e) = {}
        BY <4>3 DEF NewLinks
      <4>6. Class(p, t) \in Alerting => ~(Rank[e.state] < Rank[Class(p, t)])
        BY <4>4 DEF Alerting, Rank
      <4>7. Inspect(e, p, t).found = {}
        BY <4>3, <4>5, <4>6 DEF Inspect, Say
      <4> QED
        BY <4>7 DEF e, p
    <3> QED
      BY <2>2, <3>1, <3>2
  <2> QED
    BY <2>1, <2>6, <2>7
<1> QED
  BY <1>1, BpfAlways, PTL DEF BpfSpec, WatchIdempotent

(* can_promote_program: right after a run that saw the kernel, what is     *)
(* promoted stands for no program of a type that must not be, nor for one  *)
(* that may tail-call through a map the watchlist shows.                   *)
THEOREM PromotionIsGuarded == BpfSpec => PromotionGuarded
<1>1. BpfInv /\ [BpfNext]_bpfVars =>
        [current =>
           LET now == Listed({}) IN
           \A k \in baseline' \ baseline :
             k[1] = "prog" /\ IdsWith(now, k) # {} =>
               LET p == progs[Max(IdsWith(now, k))] IN
               /\ p.type \notin NonPromotableTypes
               /\ \A j \in p.maps :
                    maps[j].type = "prog_array" =>
                      \/ MapKey(maps[j]) \in baseline
                      \/ j # Max(MapIdsWith(now, MapKey(maps[j])))]_bpfVars
  <2> DEFINE now == Listed({})
             p(k) == progs[Max(IdsWith(now, k))]
  <2> SUFFICES ASSUME BpfInv, BpfNext, current,
                      NEW k \in baseline' \ baseline, k[1] = "prog", IdsWith(now, k) # {}
               PROVE  /\ p(k).type \notin NonPromotableTypes
                      /\ \A j \in p(k).maps :
                           maps[j].type = "prog_array" =>
                             \/ MapKey(maps[j]) \in baseline
                             \/ j # Max(MapIdsWith(now, MapKey(maps[j])))
    BY DEF bpfVars, doc
  <2>1. KernelInv /\ watch \in Watchlist /\ Tracks(watch, now, baseline)
    BY DEF BpfInv, DocInv
  <2>2. /\ k \in Key /\ watch[k] # Absent
        /\ CanPromote(watch[k].meta, WatchedMaps)
    <3>1. PICK l \in Key : Promote(l)
      BY Zenon DEF BpfNext, Kernel, Watch, Audit, Clear, LoadProgram, UnloadProgram, Attach,
                   Detach, Pin, Hold, CreateMap, HoldMap, FreeMap, Reboot, Happens, doc
    <3>2. k = l
      BY <3>1 DEF Promote
    <3> QED
      BY <3>1, <3>2 DEF Promote
  <2> DEFINE i == Max(IdsWith(now, k))
  <2>3. i \in Id /\ now.progs[i] # Absent /\ ProgKey(now.progs[i]) = k /\ LastProg(now, i, MaxId)
    BY LastProgIs
  <2> HIDE DEF i
  <2>4. now.progs[i] = progs[i]
    BY <2>1, <2>3, ListedAll
  <2>5. watch[k].meta = progs[i]
    BY <2>1, <2>2, <2>3, <2>4 DEF Tracks, ProgStands, Stands
  <2>6. progs[i].type \notin NonPromotableTypes
    BY <2>2, <2>5 DEF CanPromote
  <2>7. ASSUME NEW j \in progs[i].maps, maps[j].type = "prog_array",
               MapKey(maps[j]) \notin baseline, j = Max(MapIdsWith(now, MapKey(maps[j])))
        PROVE  FALSE
    <3> DEFINE l == MapKey(maps[j])
    <3>1. j \in MapId /\ maps[j] # Absent /\ maps[j] \in Created /\ maps[j].id = j
      <4>1. progs[i] \in Program
        BY <2>1, <2>3, <2>4 DEF KernelInv, Loaded
      <4>2. j \in MapId /\ maps[j] # Absent
        BY <2>1, <2>3, <2>4, <4>1 DEF KernelInv, Program
      <4> QED
        BY <2>1, <4>2 DEF KernelInv
    <3>2. now.maps[j] = maps[j]
      BY <2>1, <3>1, ListedAll
    <3>3. l \in Key /\ l[1] = "map"
      BY <3>1, MapKeyIs
    <3>4. MapIdsWith(now, l) # {}
      BY <3>1, <3>2 DEF MapIdsWith
    <3>5. LastMap(now, j, MaxMapId)
      BY <2>7, <3>4, LastMapIs
    <3>6. Stands(watch[l], j, maps[j], ClassifyMap(maps[j].type, l \in baseline))
      BY <2>1, <3>1, <3>2, <3>5 DEF Tracks, MapStands
    <3>7. ClassifyMap(maps[j].type, l \in baseline) \notin Unwatched
      BY <2>7, MapClassIs DEF Unwatched
    <3>8. watch[l] # Absent /\ watch[l].meta = maps[j]
      BY <3>6, <3>7 DEF Stands
    <3>9. maps[j] \in WatchedMaps
      BY <3>3, <3>8 DEF WatchedMaps
    <3> QED
      BY <2>2, <2>5, <2>7, <3>1, <3>9 DEF CanPromote
  <2> QED
    BY <2>6, <2>7 DEF i
<1> QED
  BY <1>1, BpfAlways, PTL DEF BpfSpec, PromotionGuarded

-----------------------------------------------------------------------------
(* Anomaly: the three mechanisms that silence *)

USE DEF StaleAfter, Quiet, Forgotten, Direction

Count == {NoCount} \cup [count : 1..StaleAfter, value : Value]
Flag  == {Expired} \cup [age : 0..(Cooldown - 1), value : Value]

(* The types of what detection reads and writes.                           *)
DetectTypes ==
  /\ stale \in Count
  /\ flagged \in [Direction -> Flag]
  /\ sent \in [Direction -> 0..Forgotten]

(* The clocks are tied: a direction in cooldown since age slots was        *)
(* alerted less than an hour before that.                                  *)
FlagInv ==
  \A d \in Direction : flagged[d].age < Cooldown => sent[d] < Hour + flagged[d].age

(* No count of equal values begins with an anomaly nobody was told of.     *)
AnnouncedInv == announced = TRUE

(* The metric and the cached measurement are values.                       *)
MetricTypes == metric \in Value /\ cache \in [age : 0..Fresh, value : Value]

SilenceInv == MetricTypes /\ DetectTypes /\ FlagInv /\ AnnouncedInv

(* The windows are numbers other than zero.                                *)
LEMMA Times == /\ Fresh \in Nat \ {0} /\ Cooldown \in Nat \ {0} /\ Hour \in Nat \ {0}
               /\ Fresh \in Nat /\ Cooldown \in Nat /\ Hour \in Nat
BY TimeAssumption

(* The invariant holds initially.                                          *)
LEMMA SilenceFirst == Init => SilenceInv
BY Times DEF Init, SilenceInv, MetricTypes, DetectTypes, FlagInv, AnnouncedInv,
             NoCount, Expired, Count, Flag

(* A measurement is a value.                                               *)
LEMMA MeasureStep ==
  ASSUME MetricTypes, Measure
  PROVE  Measured \in Value /\ cache' \in [age : 0..Fresh, value : Value]
BY Times DEF MetricTypes, Measure, Measured

(* The count of equal values is one, or one more than a count before.      *)
LEMMA CountedStep ==
  ASSUME NEW v \in Value, stale \in Count
  PROVE  Counted(v) \in Count
<1>1. CASE stale # NoCount /\ SameValue(v)
  <2>1. Counted(v) = [stale EXCEPT !.count = IF stale.count < StaleAfter
                                             THEN stale.count + 1 ELSE stale.count]
    BY <1>1 DEF Counted
  <2>2. stale \in [count : 1..StaleAfter, value : Value]
    BY <1>1 DEF Count
  <2> QED
    BY <2>1, <2>2 DEF Count
<1>2. CASE ~(stale # NoCount /\ SameValue(v))
  BY <1>2 DEF Counted, Count
<1> QED
  BY <1>1, <1>2

(* One anomaly, whichever of the three ways it goes.                       *)
LEMMA AnomalousStep ==
  ASSUME NEW d \in Direction, NEW v \in Value, DetectTypes, FlagInv, AnnouncedInv,
         Anomalous(d, v)
  PROVE  DetectTypes' /\ FlagInv' /\ AnnouncedInv'
<1>1. stale' \in Count
  BY CountedStep DEF Anomalous, DetectTypes
<1>2. sent[d] \in 0..Forgotten /\ flagged[d] \in Flag
  BY DEF DetectTypes
<1>7. announced' = (sent'[d] <= Quiet \/ (announced /\ stale'.count > 1))
  BY Zenon DEF Anomalous
<1>3. CASE stale'.count >= StaleAfter /\ UNCHANGED <<flagged, sent>>
  <2>2. stale'.count > 1
    BY <1>1, <1>3 DEF Count, NoCount
  <2>1. announced' = TRUE
    BY <1>7, <2>2, Zenon DEF AnnouncedInv
  <2> QED
    BY <1>1, <1>3, <2>1 DEF DetectTypes, FlagInv, AnnouncedInv
<1>4. CASE stale'.count < StaleAfter /\ InCooldown(d, v) /\ UNCHANGED <<flagged, sent>>
  <2>1. sent'[d] <= Quiet
    BY <1>2, <1>4, Times DEF InCooldown, FlagInv, Flag, Expired
  <2> QED
    BY <1>1, <1>4, <2>1 DEF DetectTypes, FlagInv, AnnouncedInv, Anomalous
<1>5. CASE /\ flagged' = [flagged EXCEPT ![d] = [age |-> 0, value |-> v]]
           /\ IsDuplicate(d) /\ UNCHANGED sent
  <2>1. sent'[d] < Hour
    BY <1>5 DEF IsDuplicate
  <2>5. sent'[d] <= Quiet
    BY <1>2, <1>5, <2>1, Times
  <2>2. announced' = TRUE
    BY <1>7, <2>5, Zenon
  <2>3. flagged' \in [Direction -> Flag]
    BY <1>5, Times DEF DetectTypes, Flag
  <2>4. FlagInv'
    BY <1>5, <2>1, Times DEF FlagInv, DetectTypes
  <2> QED
    BY <1>1, <1>5, <2>2, <2>3, <2>4 DEF DetectTypes, AnnouncedInv
<1>6. CASE /\ flagged' = [flagged EXCEPT ![d] = [age |-> 0, value |-> v]]
           /\ sent' = [sent EXCEPT ![d] = 0]
  <2>1. sent'[d] = 0 /\ sent' \in [Direction -> 0..Forgotten]
    BY <1>6, Times DEF DetectTypes
  <2>5. sent'[d] <= Quiet
    BY <2>1, Times
  <2>2. announced' = TRUE
    BY <1>7, <2>5, Zenon
  <2>3. flagged' \in [Direction -> Flag]
    BY <1>6, Times DEF DetectTypes, Flag
  <2>4. FlagInv'
    BY <1>6, Times DEF FlagInv, DetectTypes
  <2> QED
    BY <1>1, <2>1, <2>2, <2>3, <2>4 DEF DetectTypes, AnnouncedInv
<1> QED
  BY <1>3, <1>4, <1>5, <1>6 DEF Anomalous

(* Detection, of any value against any baseline.                           *)
LEMMA DetectStep ==
  ASSUME NEW b, NEW v \in Value, DetectTypes, FlagInv, AnnouncedInv, Detect(b, v)
  PROVE  DetectTypes' /\ FlagInv' /\ AnnouncedInv'
<1>1. CASE Unremarkable
  BY <1>1 DEF Unremarkable, DetectTypes, FlagInv, AnnouncedInv
<1>2. CASE AtMean
  BY <1>2 DEF AtMean, DetectTypes, FlagInv, AnnouncedInv, NoCount, Count
<1>3. CASE Anomalous(DirectionOf(b, v), v)
  <2>1. DirectionOf(b, v) \in Direction
    BY DEF DirectionOf
  <2> QED
    BY <1>3, <2>1, AnomalousStep
<1> QED
  BY <1>1, <1>2, <1>3 DEF Detect

(* One slot later, the two clocks of a direction are still tied.           *)
LEMMA TimeStep ==
  ASSUME SilenceInv, PassTime
  PROVE  SilenceInv'
<1>1. \A d \in Direction :
        /\ flagged[d].age \in 0..Cooldown /\ flagged[d] \in Flag
        /\ sent[d] \in 0..Forgotten
  BY Times DEF SilenceInv, DetectTypes, Flag, Expired
<1>2. \A d \in Direction :
        /\ sent'[d] = Later(sent[d], Forgotten)
        /\ flagged'[d] = IF flagged[d].age + 1 < Cooldown
                         THEN [flagged[d] EXCEPT !.age = @ + 1] ELSE Expired
  BY DEF PassTime
<1>3. flagged' \in [Direction -> Flag] /\ sent' \in [Direction -> 0..Forgotten]
  <2>1. ASSUME NEW d \in Direction PROVE flagged'[d] \in Flag
    BY <1>1, <1>2, Times DEF Flag, Expired
  <2>2. ASSUME NEW d \in Direction PROVE sent'[d] \in 0..Forgotten
    BY <1>1, <1>2, Times DEF Later
  <2> QED
    BY <2>1, <2>2 DEF PassTime
<1>4. FlagInv'
  <2> SUFFICES ASSUME NEW d \in Direction, flagged'[d].age < Cooldown
               PROVE  sent'[d] < Hour + flagged'[d].age
    BY DEF FlagInv
  <2>1. flagged[d].age + 1 < Cooldown /\ flagged'[d].age = flagged[d].age + 1
    BY <1>1, <1>2, Times DEF Expired, Flag
  <2>2. sent'[d] <= sent[d] + 1
    BY <1>1, <1>2, Times DEF Later
  <2> QED
    BY <1>1, <1>3, <2>1, <2>2, Times DEF SilenceInv, FlagInv
<1>5. cache' \in [age : 0..Fresh, value : Value]
  BY Times DEF SilenceInv, MetricTypes, PassTime, Later
<1> QED
  BY <1>3, <1>4, <1>5 DEF SilenceInv, MetricTypes, DetectTypes, AnnouncedInv, PassTime

(* Every step keeps the invariant.                                         *)
LEMMA SilenceStep == SilenceInv /\ [Next]_vars => SilenceInv'
<1> SUFFICES ASSUME SilenceInv, [Next]_vars PROVE SilenceInv'
  OBVIOUS
<1> USE DEF SilenceInv
<1>1. CASE \E v \in Value : MetricChange(v)
  BY <1>1 DEF MetricChange, MetricTypes, DetectTypes, FlagInv, AnnouncedInv
<1>2. CASE PassTime
  BY <1>2, TimeStep
<1>3. CASE Tick
  <2>1. PICK b : Detect(b, Measured)
    BY <1>3 DEF Tick
  <2> QED
    BY <1>3, <2>1, MeasureStep, DetectStep DEF Tick, MetricTypes
<1>4. CASE Check
  BY <1>4, MeasureStep, DetectStep DEF Check, MetricTypes
<1>5. CASE Record
  BY <1>5, Times DEF Record, MetricTypes, DetectTypes, FlagInv, AnnouncedInv
<1>6. CASE UNCHANGED vars
  BY <1>6 DEF vars, MetricTypes, DetectTypes, FlagInv, AnnouncedInv
<1> QED
  BY <1>1, <1>2, <1>3, <1>4, <1>5, <1>6 DEF Next

-----------------------------------------------------------------------------
(* Anomaly: the samples and their baseline *)

(* A slot, an outage and the time kept follow each other.                  *)
LEMMA SampleTimes ==
  /\ Slot \in Nat /\ Outage \in Nat /\ Keep \in Nat /\ Old \in Nat
  /\ 0 < Slot /\ Slot < Outage /\ Outage < Keep /\ Old = Keep + 1
BY TimeAssumption DEF Old

(* Any two samples are at least a slot apart, as far as the ages tell.     *)
Spaced(s) == \A i, j \in 1..Len(s) : i < j /\ s[i].age < Old => s[i].age - s[j].age >= Slot

(* A sample just taken ends a list of samples that are not too old.        *)
Recent(s) == s # <<>> /\ Last(s).age = 0 => s[1].age <= Keep

(* The last record is no older than the last sample.                       *)
Paced(s, r) == s # <<>> => r <= Last(s).age

Suffix(t, s, d) ==
  /\ t \in Seq(Sample) /\ Len(t) = Len(s) - d
  /\ \A i \in 1..(Len(s) - d) : t[i] = s[i + d] /\ t[i].age <= Keep
  /\ \A i \in 1..d : s[i].age > Keep

(* One sample more.                                                        *)
Take(x, n, s) == IF s[n].age <= Keep THEN Append(x, s[n]) ELSE x

(* As the samples only get younger, what is not too old is a suffix.       *)
LEMMA TrimmedIs ==
  ASSUME NEW s \in Seq(Sample), Spaced(s)
  PROVE  \E d \in 0..Len(s) : Suffix(Trimmed(s), s, d)
<1> DEFINE N == Len(s)
           F == [i \in 1..N |-> [x \in Seq(Sample) |-> Take(x, i, s)]]
<1>1. N \in Nat /\ \A i \in 1..N : s[i] \in Sample /\ s[i].age \in 0..Old
  <2> HIDE DEF F
  <2>1. N \in Nat /\ \A i \in 1..N : s[i] \in Sample
    OBVIOUS
  <2> QED
    BY <2>1 DEF Sample
<1>2. F \in [1..N -> [Seq(Sample) -> Seq(Sample)]]
  BY <1>1 DEF Take
<1>3. <<>> \in Seq(Sample)
  OBVIOUS
<1>4. PICK f : Iterates(f, N, Seq(Sample), <<>>, F)
  <2> HIDE DEF F, N
  <2> QED
    BY <1>1, <1>2, <1>3, Recursion
<1>5. f = [n \in 0..N |-> IF n = 0 THEN <<>> ELSE Take(f[n - 1], n, s)]
  <2>1. ASSUME NEW n \in 1..N PROVE f[n] = Take(f[n - 1], n, s)
    <3>1. f[n - 1] \in Seq(Sample) /\ f[n] = F[n][f[n - 1]]
      <4> HIDE DEF F, N
      <4>1. n - 1 \in 0..N
        BY <1>1
      <4> QED
        BY <1>4, <4>1 DEF Iterates
    <3> QED
      BY <3>1
  <2> HIDE DEF F
  <2>2. f \in [0..N -> Seq(Sample)] /\ f[0] = <<>>
    BY <1>4 DEF Iterates
  <2> HIDE DEF N
  <2> QED
    BY <1>1, <2>1, <2>2
<1> DEFINE g == CHOOSE h : h = [n \in 0..N |->
                  IF n = 0 THEN <<>>
                  ELSE IF s[n].age <= Keep THEN Append(h[n - 1], s[n]) ELSE h[n - 1]]
<1>6. g = [n \in 0..N |-> IF n = 0 THEN <<>>
                          ELSE IF s[n].age <= Keep THEN Append(g[n - 1], s[n]) ELSE g[n - 1]]
  BY <1>5, Zenon DEF Take
<1>7. Trimmed(s) = g[N]
  BY DEF Trimmed
<1> HIDE DEF g, F
<1> DEFINE Q(n, d) ==
             /\ g[n] \in Seq(Sample) /\ Len(g[n]) = n - d
             /\ \A i \in 1..(n - d) : g[n][i] = s[i + d] /\ s[i + d].age <= Keep
             /\ \A i \in 1..d : s[i].age > Keep
           P == {n \in 0..N : \E d \in 0..n : Q(n, d)}
<1>8. 0 \in P
  <2>1. g[0] = <<>>
    BY <1>1, <1>6
  <2>2. Q(0, 0)
    BY <2>1
  <2>3. 0 \in 0..N /\ 0 \in 0..0
    BY <1>1
  <2> HIDE DEF Q, N
  <2> QED
    BY <2>2, <2>3
<1>9. ASSUME NEW n \in 0..N, n \in P, n < N PROVE n + 1 \in P
  <2>1. PICK d \in 0..n : Q(n, d)
    BY <1>9
  <2>2. n \in Nat /\ n + 1 \in 1..N /\ (n + 1) - 1 = n /\ d \in Nat /\ d <= n
    BY <1>1, <1>9
  <2>3. g[n + 1] = Take(g[n], n + 1, s)
    <3>1. n + 1 \in 0..N /\ n + 1 # 0
      BY <2>2
    <3> HIDE DEF N
    <3> QED
      BY <1>6, <2>2, <3>1 DEF Take
  <2>4. CASE s[n + 1].age <= Keep
    <3>1. g[n + 1] = Append(g[n], s[n + 1]) /\ s[n + 1] \in Sample
      BY <1>1, <2>2, <2>3, <2>4 DEF Take
    <3>2. g[n + 1] \in Seq(Sample) /\ Len(g[n + 1]) = (n + 1) - d
      BY <2>1, <2>2, <3>1
    <3>3. ASSUME NEW i \in 1..((n + 1) - d)
          PROVE  g[n + 1][i] = s[i + d] /\ s[i + d].age <= Keep
      <4>1. CASE i = (n + 1) - d
        <5>1. i = Len(g[n]) + 1 /\ i + d = n + 1
          BY <2>1, <2>2, <4>1
        <5>2. Append(g[n], s[n + 1])[Len(g[n]) + 1] = s[n + 1]
          BY <2>1
        <5> QED
          BY <2>4, <3>1, <5>1, <5>2
      <4>2. CASE i # (n + 1) - d
        <5>1. i \in 1..(n - d) /\ i \in 1..Len(g[n])
          BY <2>1, <2>2, <4>2
        <5>2. g[n][i] = s[i + d] /\ s[i + d].age <= Keep
          BY <2>1, <5>1
        <5>3. Append(g[n], s[n + 1])[i] = g[n][i]
          BY <2>1, <5>1
        <5> QED
          BY <3>1, <5>2, <5>3
      <4> QED
        BY <4>1, <4>2
    <3>4. Q(n + 1, d)
      BY <2>1, <3>2, <3>3
    <3> HIDE DEF Q
    <3> QED
      BY <2>2, <3>4, <1>1
  <2>5. CASE ~(s[n + 1].age <= Keep)
    <3>1. g[n + 1] = g[n] /\ s[n + 1].age = Old
      <4>1. g[n + 1] = g[n]
        BY <2>3, <2>5 DEF Take
      <4>2. s[n + 1].age \in 0..Old
        BY <1>1, <2>2
      <4> QED
        BY <2>5, <4>1, <4>2, SampleTimes
    <3>2. ASSUME NEW i \in 1..n PROVE s[i].age > Keep
      <4>1. i < n + 1 /\ i \in 1..N /\ n + 1 \in 1..N
        BY <1>1, <2>2
      <4>2. s[i].age < Old => s[i].age - s[n + 1].age >= Slot
        BY <4>1 DEF Spaced
      <4> QED
        BY <1>1, <3>1, <4>1, <4>2, SampleTimes
    <3>3. d = n
      <4> SUFFICES ASSUME d # n PROVE FALSE
        OBVIOUS
      <4>1. s[1 + d].age <= Keep /\ 1 + d \in 1..n
        BY <2>1, <2>2
      <4> QED
        BY <1>1, <2>2, <3>2, <4>1, SampleTimes
    <3>4. Q(n + 1, n + 1)
      BY <2>1, <2>2, <3>1, <3>2, <3>3, SampleTimes
    <3> HIDE DEF Q
    <3> QED
      BY <2>2, <3>4, <1>1
  <2> QED
    BY <2>4, <2>5
<1>10. N \in P
  <2> HIDE DEF P, N
  <2>1. \A n \in 0..N : n \in P
    BY <1>1, <1>8, <1>9, CountUp
  <2> QED
    BY <1>1, <2>1
<1>11. PICK d \in 0..N : Q(N, d)
  BY <1>10
<1>12. Suffix(Trimmed(s), s, d)
  BY <1>7, <1>11 DEF Suffix
<1> QED
  BY <1>12

(* A new sample, a slot or more after the last one.                        *)
LEMMA AppendedIs ==
  ASSUME NEW s \in Seq(Sample), Spaced(s), s # <<>> => Last(s).age >= Slot, NEW v \in Value
  PROVE  LET u == Append(s, [age |-> 0, value |-> v]) IN
         /\ u \in Seq(Sample) /\ u # <<>> /\ Last(u).age = 0 /\ Spaced(u)
         /\ Gap(u) => Gap(s) \/ OutOfDate(s)
<1> DEFINE e == [age |-> 0, value |-> v]
           u == Append(s, e)
           N == Len(s)
<1>1. N \in Nat /\ \A i \in 1..N : s[i] \in Sample
  OBVIOUS
<1>2. \A i \in 1..N : s[i].age \in 0..Old
  BY <1>1 DEF Sample
<1>3. e \in Sample /\ e.age = 0
  BY SampleTimes DEF Sample
<1> HIDE DEF e
<1>4. /\ u \in Seq(Sample) /\ Len(u) = N + 1 /\ u[N + 1] = e
      /\ \A i \in 1..N : u[i] = s[i]
  BY <1>1, <1>3
<1> HIDE DEF u
<1>5. u # <<>> /\ Last(u).age = 0
  BY <1>1, <1>3, <1>4 DEF Last
<1>6. N # 0 => s # <<>> /\ Last(s) = s[N]
  BY DEF Last
<1> HIDE DEF N
<1>7. ASSUME NEW i \in 1..N PROVE s[i].age >= Slot
  <2>1. s[N].age >= Slot /\ N \in 1..N
    BY <1>1, <1>6
  <2>2. i < N /\ s[i].age < Old => s[i].age - s[N].age >= Slot
    BY <2>1 DEF Spaced, N
  <2>3. i < N \/ i = N
    BY <1>1
  <2> QED
    BY <1>2, <2>1, <2>2, <2>3, SampleTimes
<1>8. Spaced(u)
  <2> SUFFICES ASSUME NEW i \in 1..Len(u), NEW j \in 1..Len(u), i < j, u[i].age < Old
               PROVE  u[i].age - u[j].age >= Slot
    BY DEF Spaced
  <2>1. i \in 1..N /\ (j \in 1..N \/ j = N + 1)
    BY <1>1, <1>4
  <2>2. CASE j \in 1..N
    BY <1>4, <2>1, <2>2 DEF Spaced, N
  <2>3. CASE j = N + 1
    BY <1>2, <1>3, <1>4, <1>7, <2>1, <2>3, SampleTimes
  <2> QED
    BY <2>1, <2>2, <2>3
<1>9. ASSUME Gap(u) PROVE Gap(s) \/ OutOfDate(s)
  <2>1. PICK i \in 1..N : u[i].age - u[i + 1].age > Outage
    BY <1>1, <1>4, <1>9 DEF Gap
  <2>2. CASE i = N
    <3>1. s[N].age - 0 > Outage
      BY <1>1, <1>3, <1>4, <2>1, <2>2
    <3>2. s[N].age > Outage
      BY <1>2, <2>2, <3>1, SampleTimes
    <3>3. N # 0
      BY <1>1, <2>2
    <3> QED
      BY <1>6, <3>2, <3>3 DEF OutOfDate
  <2>3. CASE i # N
    <3>1. i \in 1..(N - 1) /\ i + 1 \in 1..N
      BY <1>1, <2>3
    <3> QED
      BY <1>4, <2>1, <3>1 DEF Gap, N
  <2> QED
    BY <2>2, <2>3
<1> QED
  BY <1>4, <1>5, <1>8, <1>9 DEF u, e

(* A suffix of the samples has what the samples have.                      *)
LEMMA SuffixIs ==
  ASSUME NEW s \in Seq(Sample), Spaced(s), s # <<>>, Last(s).age = 0,
         NEW d \in 0..Len(s), NEW t, Suffix(t, s, d)
  PROVE  /\ t \in Seq(Sample) /\ t # <<>> /\ Last(t).age = 0 /\ Spaced(t) /\ Recent(t)
         /\ Gap(t) => Gap(s)
<1> DEFINE N == Len(s)
           n == Len(t)
<1>1. N \in Nat \ {0} /\ d \in Nat /\ d <= N /\ s[N].age = 0
  BY DEF Last
<1>2. /\ t \in Seq(Sample) /\ n = N - d
      /\ \A i \in 1..n : t[i] = s[i + d] /\ t[i].age <= Keep
      /\ \A i \in 1..d : s[i].age > Keep
  BY DEF Suffix
<1>3. d # N
  <2> SUFFICES ASSUME d = N PROVE FALSE
    OBVIOUS
  <2>1. s[N].age > Keep
    BY <1>1, <1>2
  <2> QED
    BY <1>1, <2>1, SampleTimes
<1>4. n \in Nat \ {0} /\ n + d = N
  BY <1>1, <1>2, <1>3
<1>5. t # <<>> /\ Last(t).age = 0
  BY <1>1, <1>2, <1>4 DEF Last
<1>6. t[1].age <= Keep
  <2> HIDE DEF n, N
  <2>1. 1 \in 1..n
    BY <1>4
  <2> QED
    BY <1>2, <2>1
<1>7. Spaced(t)
  <2> SUFFICES ASSUME NEW i \in 1..n, NEW j \in 1..n, i < j, t[i].age < Old
               PROVE  t[i].age - t[j].age >= Slot
    BY DEF Spaced
  <2> HIDE DEF n, N
  <2>1. i + d \in 1..N /\ j + d \in 1..N /\ i + d < j + d
    BY <1>1, <1>4
  <2>2. t[i] = s[i + d] /\ t[j] = s[j + d]
    BY <1>2
  <2> QED
    BY <2>1, <2>2 DEF Spaced, N
<1>8. ASSUME Gap(t) PROVE Gap(s)
  <2>1. PICK i \in 1..(n - 1) : t[i].age - t[i + 1].age > Outage
    BY <1>8 DEF Gap
  <2> HIDE DEF n, N
  <2>2. i \in 1..n /\ i + 1 \in 1..n /\ i + d \in 1..(N - 1) /\ (i + 1) + d = (i + d) + 1
    BY <1>1, <1>4
  <2>3. t[i] = s[i + d] /\ t[i + 1] = s[(i + d) + 1]
    BY <1>2, <2>2
  <2> QED
    BY <2>1, <2>2, <2>3 DEF Gap, N
<1> QED
  BY <1>2, <1>5, <1>6, <1>7, <1>8 DEF Recent

(* The samples as a run may find or leave them, with their baseline.       *)
SamplesOK(s, b) ==
  s \in Seq(Sample) /\ Spaced(s) /\ Recent(s) /\ b = ComputeBaselines(s)

(* No samples have no baseline and no gap.                                 *)
LEMMA EmptyOK == SamplesOK(<<>>, None) /\ ~Gap(<<>>)
<1>1. <<>> \in Seq(Sample) /\ Len(<<>>) = 0
  OBVIOUS
<1>2. Spaced(<<>>) /\ Recent(<<>>) /\ ~Gap(<<>>)
  BY <1>1 DEF Spaced, Recent, Gap
<1>3. Len(<<>>) < MinSamples
  BY <1>1, GateAssumption
<1>4. ComputeBaselines(<<>>) = None
  BY <1>3, Zenon DEF ComputeBaselines
<1> QED
  BY <1>1, <1>2, <1>4 DEF SamplesOK

(* record_sample: the baseline stays that of the samples, and they span no *)
(* outage that they did not span or that was not over.                     *)
LEMMA RecordStep ==
  ASSUME NEW s, NEW b, SamplesOK(s, b), recorded \in 0..Slot, Paced(s, recorded),
         NEW v \in Value, RecordSample(s, b, v)
  PROVE  /\ SamplesOK(samples', base') /\ recorded' \in 0..Slot /\ Paced(samples', recorded')
         /\ Gap(samples') => Gap(s) \/ OutOfDate(s)
<1>1. CASE recorded < Slot
  BY <1>1 DEF RecordSample
<1>2. CASE ~(recorded < Slot)
  <2> DEFINE u == Append(s, [age |-> 0, value |-> v])
  <2>1. samples' = Trimmed(u) /\ base' = ComputeBaselines(samples') /\ recorded' = 0
    BY <1>2 DEF RecordSample
  <2>2. s # <<>> => Last(s).age >= Slot
    BY <1>2, SampleTimes DEF Paced
  <2>3. /\ u \in Seq(Sample) /\ u # <<>> /\ Last(u).age = 0 /\ Spaced(u)
        /\ Gap(u) => Gap(s) \/ OutOfDate(s)
    BY <2>2, AppendedIs DEF SamplesOK
  <2> HIDE DEF u
  <2>4. PICK d \in 0..Len(u) : Suffix(samples', u, d)
    BY <2>1, <2>3, TrimmedIs
  <2>5. /\ samples' \in Seq(Sample) /\ samples' # <<>> /\ Last(samples').age = 0
        /\ Spaced(samples') /\ Recent(samples')
        /\ Gap(samples') => Gap(u)
    BY <2>3, <2>4, SuffixIs
  <2>6. Paced(samples', recorded')
    BY <2>1, <2>5 DEF Paced
  <2> QED
    BY <2>1, <2>3, <2>5, <2>6, SampleTimes DEF SamplesOK
<1> QED
  BY <1>1, <1>2

BaselineInv ==
  /\ SamplesOK(samples, base) /\ recorded \in 0..Slot /\ Paced(samples, recorded)
  /\ outcome \in Outcome /\ announced \in BOOLEAN /\ bridged \in BOOLEAN
  /\ Gap(samples) => bridged

(* One slot later: the ages grow together, up to Old.                      *)
LEMMA AgedStep ==
  ASSUME BaselineInv, PassTime
  PROVE  /\ SamplesOK(samples', base') /\ recorded' \in 0..Slot /\ Paced(samples', recorded')
         /\ Gap(samples') => Gap(samples)
<1> DEFINE N == Len(samples)
<1>1. /\ N \in Nat /\ \A i \in 1..N : samples[i] \in Sample
      /\ samples' = [i \in 1..N |-> [samples[i] EXCEPT !.age = Later(@, Old)]]
  BY DEF BaselineInv, SamplesOK, PassTime
<1>2. \A i \in 1..N : /\ samples[i].age \in 0..Old /\ samples'[i] \in Sample
                      /\ samples'[i].value = samples[i].value
                      /\ samples'[i].age = Later(samples[i].age, Old)
  BY <1>1, SampleTimes DEF Sample, Later
<1> HIDE DEF N
<1>3. samples' \in Seq(Sample) /\ Len(samples') = N
  BY <1>1, <1>2
<1>4. Spaced(samples)
  BY DEF BaselineInv, SamplesOK
<1>5. Spaced(samples')
  <2> SUFFICES ASSUME NEW i \in 1..N, NEW j \in 1..N, i < j, samples'[i].age < Old
               PROVE  samples'[i].age - samples'[j].age >= Slot
    BY <1>3 DEF Spaced
  <2>1. samples[i].age < Old /\ samples'[i].age = samples[i].age + 1
    BY <1>2, SampleTimes DEF Later
  <2>2. samples[i].age - samples[j].age >= Slot
    BY <1>4, <2>1 DEF Spaced, N
  <2>3. samples'[j].age = samples[j].age + 1
    BY <1>2, <2>1, <2>2, SampleTimes DEF Later
  <2> QED
    BY <1>2, <2>1, <2>2, <2>3, SampleTimes
<1>6. samples' # <<>> => N \in 1..N /\ samples # <<>> /\ Last(samples) = samples[N] /\ Last(samples') = samples'[N]
  BY <1>1, <1>3 DEF Last, N
<1>7. Recent(samples')
  <2> SUFFICES ASSUME samples' # <<>> PROVE Last(samples').age # 0
    BY DEF Recent
  <2> QED
    BY <1>2, <1>6, SampleTimes DEF Later
<1>8. recorded' \in 0..Slot /\ Paced(samples', recorded')
  <2>1. recorded \in 0..Slot /\ recorded' = Later(recorded, Slot)
    BY DEF BaselineInv, PassTime
  <2>2. samples' # <<>> => recorded <= samples[N].age
    BY <1>6 DEF BaselineInv, Paced
  <2>3. samples' # <<>> => recorded' <= samples'[N].age
    BY <1>2, <1>6, <2>1, <2>2, SampleTimes DEF Later
  <2> QED
    BY <1>6, <2>1, <2>3, SampleTimes DEF Paced, Later
<1>9. base' = ComputeBaselines(samples')
  <2>1. Values(samples') = Values(samples) /\ Len(samples') = Len(samples)
    BY <1>1, <1>2, <1>3 DEF Values, N
  <2> QED
    BY <2>1 DEF BaselineInv, SamplesOK, PassTime, ComputeBaselines
<1>10. ASSUME Gap(samples') PROVE Gap(samples)
  <2>1. PICK i \in 1..(N - 1) : samples'[i].age - samples'[i + 1].age > Outage
    BY <1>3, <1>10 DEF Gap
  <2>2. i \in 1..N /\ i + 1 \in 1..N /\ i < i + 1
    BY <1>1
  <2>3. samples[i].age < Old => samples[i].age - samples[i + 1].age >= Slot
    BY <1>4, <2>2 DEF Spaced, N
  <2>4. samples[i].age - samples[i + 1].age > Outage
    BY <1>2, <2>1, <2>2, <2>3, SampleTimes DEF Later
  <2> QED
    BY <2>4 DEF Gap, N
<1> QED
  BY <1>3, <1>5, <1>7, <1>8, <1>9, <1>10 DEF SamplesOK

(* What a detection came to.                                               *)
LEMMA DetectHistory ==
  ASSUME NEW b, NEW v, Detect(b, v), announced \in BOOLEAN, outcome \in Outcome
  PROVE  outcome' \in Outcome /\ announced' \in BOOLEAN
<1>1. CASE Unremarkable
  BY <1>1 DEF Unremarkable, Outcome
<1>2. CASE AtMean
  BY <1>2 DEF AtMean, Outcome
<1>3. ASSUME NEW d, Anomalous(d, v) PROVE outcome' \in Outcome /\ announced' \in BOOLEAN
  <2>1. outcome' \in Outcome
    BY <1>3 DEF Anomalous, Outcome
  <2>2. announced' \in BOOLEAN
    BY <1>3, Zenon DEF Anomalous
  <2> QED
    BY <2>1, <2>2
<1> QED
  BY <1>1, <1>2, <1>3 DEF Detect

(* The invariant holds initially.                                          *)
LEMMA BaselineFirst == Init => BaselineInv
<1> SUFFICES ASSUME Init PROVE BaselineInv
  OBVIOUS
<1>1. SamplesOK(samples, base) /\ ~Gap(samples) /\ samples = <<>>
  BY EmptyOK DEF Init
<1>2. recorded \in 0..Slot
  BY SampleTimes DEF Init
<1> QED
  BY <1>1, <1>2 DEF Init, BaselineInv, Paced, Outcome

(* Every step preserves it.                                                *)
LEMMA BaselineStep == SilenceInv /\ BaselineInv /\ [Next]_vars => BaselineInv'
<1> SUFFICES ASSUME SilenceInv, BaselineInv, [Next]_vars PROVE BaselineInv'
  OBVIOUS
<1>1. /\ SamplesOK(samples, base) /\ recorded \in 0..Slot /\ Paced(samples, recorded)
      /\ outcome \in Outcome /\ announced \in BOOLEAN /\ bridged \in BOOLEAN
      /\ Gap(samples) => bridged
  BY DEF BaselineInv
<1>2. MetricTypes
  BY DEF SilenceInv
<1>3. ASSUME UNCHANGED <<samples, base, recorded, bridged>>,
             outcome' \in Outcome /\ announced' \in BOOLEAN
      PROVE  BaselineInv'
  <2>1. SamplesOK(samples', base') /\ Paced(samples', recorded') /\ (Gap(samples') => bridged')
    BY <1>1, <1>3
  <2> QED
    BY <1>1, <1>3, <2>1 DEF BaselineInv
<1>4. CASE \E v \in Value : MetricChange(v)
  BY <1>1, <1>3, <1>4 DEF MetricChange
<1>5. CASE PassTime
  <2>1. UNCHANGED <<outcome, announced, bridged>>
    BY <1>5 DEF PassTime
  <2> QED
    BY <1>1, <1>5, <2>1, AgedStep DEF BaselineInv
<1>6. CASE Tick
  <2> DEFINE s == Cleared(samples, base)[1]
             b == Cleared(samples, base)[2]
  <2>1. /\ Measure /\ Detect(b, Measured) /\ RecordSample(s, b, Measured)
        /\ bridged' = (bridged /\ Gap(samples'))
    BY <1>6 DEF Tick
  <2>2. SamplesOK(s, b) /\ Paced(s, recorded) /\ ~OutOfDate(s) /\ (Gap(s) => Gap(samples))
    <3>1. CASE OutOfDate(samples)
      <4>1. s = <<>> /\ b = None
        BY <3>1 DEF Cleared
      <4> QED
        BY <4>1, EmptyOK DEF Paced, OutOfDate
    <3>2. CASE ~OutOfDate(samples)
      BY <1>1, <3>2 DEF Cleared
    <3> QED
      BY <3>1, <3>2
  <2> HIDE DEF s, b
  <2>3. Measured \in Value
    BY <1>2, <2>1, MeasureStep
  <2>4. /\ SamplesOK(samples', base') /\ recorded' \in 0..Slot /\ Paced(samples', recorded')
        /\ Gap(samples') => Gap(s) \/ OutOfDate(s)
    BY <1>1, <2>1, <2>2, <2>3, RecordStep
  <2>5. outcome' \in Outcome /\ announced' \in BOOLEAN
    BY <1>1, <2>1, DetectHistory
  <2>6. Gap(samples') \in BOOLEAN
    BY DEF Gap
  <2>7. bridged' \in BOOLEAN /\ (Gap(samples') => bridged')
    BY <1>1, <2>1, <2>2, <2>4, <2>6, Zenon
  <2> QED
    BY <2>4, <2>5, <2>7, Zenon DEF BaselineInv
<1>7. CASE Check
  <2>1. outcome' \in Outcome /\ announced' \in BOOLEAN
    BY <1>1, <1>7, DetectHistory DEF Check
  <2> QED
    BY <1>3, <1>7, <2>1 DEF Check
<1>8. CASE Record
  <2>1. /\ RecordSample(samples, base, metric)
        /\ bridged' = (Gap(samples') /\ (bridged \/ OutOfDate(samples)))
        /\ UNCHANGED <<outcome, announced>>
    BY <1>8 DEF Record
  <2>2. /\ SamplesOK(samples', base') /\ recorded' \in 0..Slot /\ Paced(samples', recorded')
        /\ Gap(samples') => Gap(samples) \/ OutOfDate(samples)
    BY <1>1, <1>2, <2>1, RecordStep DEF MetricTypes
  <2>3. Gap(samples') \in BOOLEAN /\ OutOfDate(samples) \in BOOLEAN
    BY DEF Gap, OutOfDate
  <2>4. bridged' \in BOOLEAN /\ (Gap(samples') => bridged')
    BY <1>1, <2>1, <2>2, <2>3, Zenon
  <2>5. outcome' \in Outcome /\ announced' \in BOOLEAN
    BY <1>1, <2>1
  <2> QED
    BY <2>2, <2>4, <2>5, Zenon DEF BaselineInv
<1>9. CASE UNCHANGED vars
  BY <1>1, <1>3, <1>9 DEF vars
<1> QED
  BY <1>4, <1>5, <1>6, <1>7, <1>8, <1>9 DEF Next

(* Both invariants hold in every reachable state.                          *)
LEMMA AnomalyAlways == Spec => [](SilenceInv /\ BaselineInv)
<1>1. SilenceInv /\ BaselineInv /\ [Next]_vars => (SilenceInv /\ BaselineInv)'
  BY SilenceStep, BaselineStep
<1> QED
  BY <1>1, SilenceFirst, BaselineFirst, PTL DEF Spec

-----------------------------------------------------------------------------
(* What it shows of the anomalies *)

(* baseline.py, anomaly.py: samples, counts, flags and clocks keep their   *)
(* types, and the baseline was computed from as many samples as are kept.  *)
THEOREM AnomalyTypes == Spec => []TypeOK
<1>1. SilenceInv /\ BaselineInv => TypeOK
  <2> SUFFICES ASSUME SilenceInv, BaselineInv PROVE TypeOK
    OBVIOUS
  <2>1. base # None => base.n = Len(samples)
    BY DEF BaselineInv, SamplesOK, ComputeBaselines
  <2>2. stale = NoCount \/ stale \in [count : 1..StaleAfter, value : Value]
    BY DEF SilenceInv, DetectTypes, Count
  <2>3. \A d \in Direction : \/ flagged[d] = Expired
                             \/ flagged[d] \in [age : 0..(Cooldown - 1), value : Value]
    BY DEF SilenceInv, DetectTypes, Flag
  <2>4. metric \in Value /\ cache \in [age : 0..Fresh, value : Value]
        /\ sent \in [Direction -> 0..Forgotten]
    BY DEF SilenceInv, DetectTypes, MetricTypes
  <2>5. samples \in Seq(Sample) /\ recorded \in 0..Slot
    BY DEF BaselineInv, SamplesOK
  <2>6. outcome \in Outcome /\ announced \in BOOLEAN /\ bridged \in BOOLEAN
    BY DEF BaselineInv
  <2> QED
    BY <2>1, <2>2, <2>3, <2>4, <2>5, <2>6, Zenon DEF TypeOK
<1> QED
  BY <1>1, AnomalyAlways, PTL

(* record_sample, trim_daily_stats, check_baseline_staleness: for any slot *)
(* and retention, the baseline is that of the kept samples, which are a    *)
(* slot apart and span an outage only when a --record came before the tick *)
(* that would have cleared them.                                           *)
THEOREM BaselineIsOfSamples == Spec => []BaselineOfSamples
<1>1. BaselineInv => BaselineOfSamples
  <2> SUFFICES ASSUME BaselineInv PROVE BaselineOfSamples
    OBVIOUS
  <2>1. /\ samples \in Seq(Sample) /\ Spaced(samples) /\ Recent(samples)
        /\ base = ComputeBaselines(samples) /\ (Gap(samples) => bridged)
    BY DEF BaselineInv, SamplesOK
  <2>2. \A i \in 1..(Len(samples) - 1) :
          samples[i].age < Old => samples[i].age - samples[i + 1].age >= Slot
    BY <2>1 DEF Spaced
  <2> QED
    BY <2>1, <2>2, Zenon DEF BaselineOfSamples, Recent
<1> QED
  BY <1>1, AnomalyAlways, PTL

(* anomaly.py with alerts.py: an anomaly without an alert is one whose     *)
(* direction was alerted within a cooldown and an hour, or had been when   *)
(* the count that silences it began.                                       *)
THEOREM SilenceIsAnnounced == Spec => []SilenceAnnounced
<1>1. SilenceInv => SilenceAnnounced
  BY Zenon DEF SilenceInv, AnnouncedInv, SilenceAnnounced
<1> QED
  BY <1>1, AnomalyAlways, PTL
=============================================================================
