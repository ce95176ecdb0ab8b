-------------------------- MODULE TeeiDaemonProofs --------------------------
(***************************************************************************)
(* Two parts of teei_daemon: the list of properties (TeeiProperty), which  *)
(* is proved to be whole and to be a queue for every number of entries,    *)
(* whatever the interleaving; and the start (TeeiBoot), whose safety       *)
(* invariants are proved for every command line and table size.            *)
(***************************************************************************)
EXTENDS TeeiBoot, TeeiProperty, FiniteSetTheorems, WellFoundedInduction,
        SequenceTheorems, TLAPS

-----------------------------------------------------------------------------
(***************************************************************************)
(* The property list.                                                      *)
(***************************************************************************)
\* Induction over a set of numbers.
LEMMA SetInduction ==
  ASSUME NEW S \in SUBSET Nat, 0 \in S, \A n \in S : n + 1 \in S
  PROVE  S = Nat
  <1> SUFFICES ASSUME S # Nat PROVE FALSE OBVIOUS
  <1> DEFINE R == OpToRel(<, Nat)
             T == Nat \ S
  <1>1. T \subseteq Nat /\ T # {} OBVIOUS
  <1>2. \A x, y \in Nat : x < y => <<x, y>> \in R BY DEF OpToRel
  <1>3. IsWellFoundedOn(R, Nat) BY NatLessThanWellFounded
  <1> HIDE DEF R, T
  <1>4. PICK x \in T : \A y \in T : <<y, x>> \notin R BY <1>1, <1>3, WFMin
  <1>5. x \in Nat /\ x \notin S BY <1>4 DEF T
  <1>6. x # 0 BY <1>5
  <1>7. x - 1 \in Nat /\ x - 1 < x /\ (x - 1) + 1 = x BY <1>5, <1>6
  <1>8. x - 1 \notin T BY <1>2, <1>4, <1>5, <1>7
  <1>9. x - 1 \in S BY <1>7, <1>8 DEF T
  <1> QED BY <1>5, <1>7, <1>9

\* The nodes of a ring through the head, and its forward links.
At(q, i) == IF i \in 1 .. Len(q) THEN q[i] ELSE Head0
Forward(q, links) == \A i \in 0 .. Len(q) : links[At(q, i)] = At(q, i + 1)
Distinct(q) == \A i, j \in 1 .. Len(q) : q[i] = q[j] => i = j

\* A list that is not empty has a first entry.
LEMMA HasFirst == \A l \in Nat \ {0} : 1 \in 1 .. l
  OBVIOUS

\* The settings of the entries of a list.
Settings(q, c) == [i \in 1 .. Len(q) |-> c[q[i]]]

\* They are as many as the entries.
LEMMA SettingsAre ==
  ASSUME NEW S, NEW q \in Seq(Entry), NEW c \in [Entry -> S]
  PROVE  /\ Settings(q, c) \in Seq(S) /\ Len(Settings(q, c)) = Len(q)
         /\ \A i \in 1 .. Len(q) : Settings(q, c)[i] = c[q[i]]
  <1>1. Len(q) \in Nat OBVIOUS
  <1>2. \A i \in 1 .. Len(q) : q[i] \in Entry BY ElementOfSeq
  <1> QED BY <1>1, <1>2 DEF Settings

\* There is no room for more entries than there are.
LEMMA Fits ==
  ASSUME TeeiPropertyAssumption, NEW q \in Seq(Entry), Distinct(q)
  PROVE  Cardinality(Entry) \in Nat /\ Len(q) <= Cardinality(Entry)
  <1>1. IsFiniteSet(Entry) BY DEF TeeiPropertyAssumption
  <1>2. q \in [1 .. Len(q) -> Entry] /\ Len(q) \in Nat BY LenProperties
  <1>3. q \in Injection(1 .. Len(q), Entry) BY <1>2 DEF Injection, Distinct, IsInjective
  <1>4. Cardinality(1 .. Len(q)) <= Cardinality(Entry) BY <1>1, <1>3, FS_Injection
  <1>5. Cardinality(1 .. Len(q)) = Len(q)
    <2>1. \A l \in Nat : 1 \in Int /\ l \in Int /\ (IF 1 > l THEN 0 ELSE l - 1 + 1) = l OBVIOUS
    <2>2. Cardinality(1 .. Len(q)) = IF 1 > Len(q) THEN 0 ELSE Len(q) - 1 + 1
      BY <1>2, <2>1, FS_Interval, Zenon
    <2> QED BY <1>2, <2>1, <2>2, Zenon
  <1>6. Cardinality(Entry) \in Nat BY <1>1, FS_CardinalityType
  <1> QED BY <1>4, <1>5, <1>6

\* The forward links lead through the ring.
LEMMA WalkIs ==
  ASSUME TeeiPropertyAssumption, NEW q \in Seq(Entry), Distinct(q),
         NEW links, Forward(q, links)
  PROVE  WalkOf(links) = q
  <1> DEFINE N == Cardinality(Entry)
             val(f, n) == IF n = 0 THEN links[Head0]
                          ELSE IF f[n - 1] \in Entry THEN links[f[n - 1]] ELSE f[n - 1]
             step(f) == [n \in 0 .. N |-> val(f, n)]
             w == [n \in 0 .. N |-> At(q, n + 1)]
             c == CHOOSE f : f = step(f)
             len == Cardinality({n \in 0 .. N : c[n] \in Entry})
             l == Len(q)
  <1>1. N \in Nat /\ l \in Nat /\ l <= N BY Fits
  <1>2. Head0 \notin Entry /\ \A i \in 1 .. l : q[i] \in Entry
    BY DEF TeeiPropertyAssumption
  <1>3. WalkOf(links) = [n \in 1 .. len |-> c[n - 1]] BY DEF WalkOf
  <1>4. ASSUME NEW n \in Nat
        PROVE  At(q, n + 1) \in Entry <=> n < l
    BY <1>1, <1>2 DEF At
  <1>5. At(q, 0) = Head0 /\ \A n \in Nat : n > l => At(q, n) = Head0 BY <1>1 DEF At
  <1>6. \A i \in 0 .. l : links[At(q, i)] = At(q, i + 1) BY DEF Forward
  <1> HIDE DEF N, l
  <1>7. ASSUME NEW n \in 0 .. N
        PROVE  At(q, n + 1) =
                 IF n = 0 THEN links[Head0]
                 ELSE IF At(q, n) \in Entry THEN links[At(q, n)] ELSE At(q, n)
    <2>1. n \in Nat BY <1>1
    <2>2. CASE n = 0
      <3>1. links[At(q, 0)] = At(q, 0 + 1) BY <1>1, <1>6
      <3> QED BY <1>5, <2>2, <3>1
    <2>3. CASE n # 0
      <3>1. n - 1 \in Nat /\ (n - 1) + 1 = n /\ (n - 1 < l <=> n <= l) BY <1>1, <2>1, <2>3
      <3>2. At(q, n) \in Entry <=> n <= l BY <1>4, <3>1
      <3>3. CASE n <= l
        <4>1. links[At(q, n)] = At(q, n + 1) BY <1>1, <1>6, <2>1, <3>3
        <4> QED BY <2>3, <3>2, <3>3, <4>1
      <3>4. CASE ~(n <= l)
        <4>1. At(q, n) = Head0 /\ At(q, n + 1) = Head0 BY <1>1, <1>5, <2>1, <3>4
        <4> QED BY <2>3, <3>2, <3>4, <4>1
      <3> QED BY <3>3, <3>4
    <2> QED BY <2>2, <2>3
  <1>8. w = step(w)
    <2>1. ASSUME NEW n \in 0 .. N PROVE At(q, n + 1) = val(w, n)
      <3>2. CASE n = 0 BY <1>7, <3>2
      <3>3. CASE n # 0
        <4>1. n - 1 \in 0 .. N /\ (n - 1) + 1 = n BY <1>1, <3>3
        <4>2. w[n - 1] = At(q, n) BY <4>1
        <4> QED BY <1>7, <3>3, <4>2
      <3> QED BY <3>2, <3>3
    <2> HIDE DEF val
    <2> QED BY <2>1, Zenon
  <1>9. c = step(c) BY <1>8
  <1> HIDE DEF c
  <1>10. \A n \in 0 .. N : c[n] = IF n = 0 THEN links[Head0]
                                  ELSE IF c[n - 1] \in Entry THEN links[c[n - 1]] ELSE c[n - 1]
    BY <1>9, Zenon
  <1>11. \A n \in 0 .. N : c[n] = At(q, n + 1)
    <2> DEFINE G == {n \in Nat : n \in 0 .. N => c[n] = At(q, n + 1)}
    <2>1. 0 \in G
      <3>1. 0 \in 0 .. N BY <1>1
      <3>2. c[0] = links[Head0] BY <1>10, <3>1
      <3> QED BY <1>7, <3>1, <3>2
    <2>2. ASSUME NEW n \in G PROVE n + 1 \in G
      <3>1. CASE n + 1 \in 0 .. N
        <4>1. n \in 0 .. N /\ n + 1 # 0 /\ (n + 1) - 1 = n BY <1>1, <3>1
        <4>2. c[n] = At(q, n + 1) BY <4>1
        <4>3. c[n + 1] = IF c[n] \in Entry THEN links[c[n]] ELSE c[n] BY <1>10, <3>1, <4>1
        <4>4. At(q, (n + 1) + 1) =
                IF At(q, n + 1) \in Entry THEN links[At(q, n + 1)] ELSE At(q, n + 1)
          BY <1>7, <3>1, <4>1
        <4> QED BY <4>2, <4>3, <4>4
      <3>2. CASE n + 1 \notin 0 .. N BY <3>2
      <3> QED BY <3>1, <3>2
    <2> HIDE DEF G
    <2>3. G = Nat
      <3>1. G \in SUBSET Nat BY DEF G
      <3> QED BY <2>1, <2>2, <3>1, SetInduction
    <2> QED BY <1>1, <2>3 DEF G
  <1>12. len = l
    <2>1. {n \in 0 .. N : c[n] \in Entry} = 0 .. l - 1
      <3>1. ASSUME NEW n \in 0 .. N PROVE c[n] \in Entry <=> n \in 0 .. l - 1
        BY <1>1, <1>4, <1>11
      <3>2. 0 .. l - 1 \subseteq 0 .. N BY <1>1
      <3> QED BY <3>1, <3>2
    <2>2. Cardinality(0 .. l - 1) = l BY <1>1, FS_Interval
    <2> QED BY <2>1, <2>2
  <1>13. ASSUME NEW n \in 1 .. l PROVE c[n - 1] = q[n]
    <2>1. n - 1 \in 0 .. N /\ (n - 1) + 1 = n BY <1>1
    <2>2. c[n - 1] = At(q, n) BY <1>11, <2>1
    <2> QED BY <2>2 DEF At, l
  <1>14. q = [n \in 1 .. l |-> q[n]] BY DEF l
  <1> HIDE DEF len
  <1> QED BY <1>3, <1>12, <1>13, <1>14

\* The inductive invariant, for the entries q that are in the list: the links,
\* the entry that is being added and the one that is being taken out, who has
\* the lock, and what the semaphore counts.
LinkType == next \in [Node -> Node \cup {Poison}] /\ prev \in [Node -> Node \cup {Poison}]
Adding == {"add1", "add2", "add3", "add4", "unlock"}
Threads ==
  /\ sem \in Nat
  /\ vfs \in [pc : Adding \cup {"idle", "lock", "post"},
              e : Entry \cup {None}, last : Node \cup {None}]
  /\ settingPc \in {"wait", "first", "lock", "del", "set"}
  /\ mutex = IF vfs.pc \in Adding THEN "vfs" ELSE IF settingPc = "del" THEN "setting" ELSE None
  /\ ~(vfs.pc \in Adding /\ settingPc = "del")
Linked(q) ==
  /\ Forward(q, next)
  /\ \A i \in 0 .. Len(q) : (i < Len(q) \/ vfs.pc # "add4") => prev[At(q, i + 1)] = At(q, i)
  /\ Distinct(q)
Live(q) ==
  /\ content \in [Entry -> Setting \cup {Nothing}]
  /\ \A i \in 1 .. Len(q) : content[q[i]] # Nothing
Added(q) ==
  /\ vfs.pc \in {"lock", "add1", "add2", "add3"} =>
       /\ vfs.e \in Entry /\ content[vfs.e] # Nothing /\ (settingPc = "set" => entry # vfs.e)
       /\ \A i \in 1 .. Len(q) : q[i] # vfs.e
  /\ vfs.pc \in {"add2", "add3"} => vfs.last = At(q, Len(q)) /\ prev[vfs.e] = vfs.last
  /\ vfs.pc = "add3" => next[vfs.e] = Head0
  /\ vfs.pc = "add4" => q # <<>> /\ vfs.e = q[Len(q)]
Taken(q) ==
  /\ settingPc \in {"lock", "del"} => entry = next[Head0]
  /\ settingPc = "set" =>
       entry \in Entry /\ content[entry] # Nothing /\ \A i \in 1 .. Len(q) : q[i] # entry
Counted(q) ==
  Len(q) = sem + (IF vfs.pc \in {"add4", "unlock", "post"} THEN 1 ELSE 0)
               + (IF settingPc \in {"first", "lock", "del"} THEN 1 ELSE 0)
ListInv(q) ==
  LinkType /\ Threads /\ Linked(q) /\ Live(q) /\ Added(q) /\ Taken(q) /\ Counted(q)
PropertyInv == \E q \in Seq(Entry) : ListInv(q)

\* The list starts empty.
LEMMA PropertyStarts ==
  ASSUME TeeiPropertyAssumption, PropertyInit PROVE ListInv(<<>>)
  <1> USE DEF PropertyInit, INIT_LIST_HEAD
  <1>1. Len(<<>>) = 0 /\ At(<<>>, 0) = Head0 /\ At(<<>>, 0 + 1) = Head0 BY DEF At
  <1>2. next[Head0] = Head0 /\ prev[Head0] = Head0 BY DEF Node
  <1>3. LinkType BY DEF LinkType, Node
  <1>4. vfs.pc = "idle" /\ settingPc = "wait" OBVIOUS
  <1>5. Threads BY DEF Threads, Adding
  <1>6. Linked(<<>>)
    <2>1. \A i \in 0 .. Len(<<>>) : i = 0 BY <1>1
    <2>2. Forward(<<>>, next) BY <1>1, <1>2, <2>1, Zenon DEF Forward
    <2>3. \A i \in 0 .. Len(<<>>) :
            (i < Len(<<>>) \/ vfs.pc # "add4") => prev[At(<<>>, i + 1)] = At(<<>>, i)
      BY <1>1, <1>2, <2>1, Zenon
    <2>4. Distinct(<<>>) BY <1>1 DEF Distinct
    <2> QED BY <2>2, <2>3, <2>4, Zenon DEF Linked
  <1>7. Live(<<>>) BY <1>1 DEF Live
  <1>8. Added(<<>>) /\ Taken(<<>>) BY <1>4 DEF Added, Taken
  <1>9. Counted(<<>>) BY <1>1, <1>4 DEF Counted
  <1> QED BY <1>3, <1>5, <1>6, <1>7, <1>8, <1>9 DEF ListInv

\* What a step does that leaves the links and the contents alone.
LEMMA LinksStay ==
  ASSUME NEW q, Linked(q), UNCHANGED <<next, prev>>, vfs.pc = "add4" <=> vfs'.pc = "add4"
  PROVE  Linked(q)'
  BY Zenon DEF Linked, Forward, Distinct, At

\* A request gets an entry that is free.
LEMMA VfsRequestKeeps ==
  ASSUME TeeiPropertyAssumption, NEW q \in Seq(Entry), ListInv(q), NEW s \in Setting, VfsRequest(s)
  PROVE  ListInv(q)'
  <1>1. PICK e \in Entry : /\ content[e] = Nothing /\ content' = [content EXCEPT ![e] = s]
                           /\ vfs' = [pc |-> "lock", e |-> e, last |-> None]
    BY DEF VfsRequest
  <1>2. vfs.pc = "idle" /\ UNCHANGED <<next, prev, sem, mutex, settingPc, entry, property>>
    BY DEF VfsRequest
  <1>3. vfs'.pc = "lock" /\ vfs'.e = e BY <1>1
  <1>4. s # Nothing BY DEF TeeiPropertyAssumption
  <1>5. content \in [Entry -> Setting \cup {Nothing}] BY DEF ListInv, Live
  <1>6. /\ content' \in [Entry -> Setting \cup {Nothing}] /\ content'[e] = s
        /\ \A x \in Entry : x # e => content'[x] = content[x]
    BY <1>1, <1>5
  <1>7. \A i \in 1 .. Len(q) : q[i] \in Entry /\ q[i] # e /\ content'[q[i]] # Nothing
    <2>1. \A i \in 1 .. Len(q) : q[i] \in Entry BY ElementOfSeq
    <2>2. \A i \in 1 .. Len(q) : content[q[i]] # Nothing BY Zenon DEF ListInv, Live
    <2> QED BY <1>1, <1>6, <2>1, <2>2, Zenon
  <1>8. LinkType' BY <1>2 DEF ListInv, LinkType
  <1>9. Threads' BY <1>1, <1>2, <1>3 DEF ListInv, Threads, Adding
  <1>10. Linked(q)' BY <1>2, <1>3, LinksStay DEF ListInv
  <1>11. Live(q)' BY <1>6, <1>7 DEF Live
  <1>12. settingPc = "set" => entry \in Entry /\ content[entry] # Nothing /\ entry # e
    BY <1>1 DEF ListInv, Taken
  <1>13. Added(q)' BY <1>2, <1>3, <1>4, <1>6, <1>7, <1>12 DEF Added
  <1>14. Taken(q)' BY <1>2, <1>6, <1>12 DEF ListInv, Taken
  <1>15. Counted(q)' BY <1>2, <1>3 DEF ListInv, Counted
  <1> QED BY <1>8, <1>9, <1>10, <1>11, <1>13, <1>14, <1>15 DEF ListInv

\* The main thread takes the lock.
LEMMA VfsLockKeeps ==
  ASSUME NEW q \in Seq(Entry), TeeiPropertyAssumption, ListInv(q), VfsLock PROVE ListInv(q)'
  <1>1. /\ vfs.pc = "lock" /\ mutex = None /\ mutex' = "vfs" /\ vfs' = [vfs EXCEPT !.pc = "add1"]
        /\ UNCHANGED <<next, prev, content, sem, settingPc, entry>>
    BY DEF VfsLock, Vfs, list
  <1>2. Threads BY DEF ListInv
  <1>3. vfs'.pc = "add1" /\ vfs'.e = vfs.e /\ vfs'.last = vfs.last BY <1>1, <1>2 DEF Threads
  <1>4. settingPc # "del" BY <1>1, <1>2 DEF Threads, Adding, TeeiPropertyAssumption
  <1>5. Threads' BY <1>1, <1>2, <1>3, <1>4 DEF Threads, Adding
  <1>6. LinkType' BY <1>1 DEF ListInv, LinkType
  <1>7. Linked(q)' BY <1>1, <1>3, LinksStay DEF ListInv
  <1>8. Live(q)' BY <1>1 DEF ListInv, Live
  <1>9. Added(q)' BY <1>1, <1>3 DEF ListInv, Added
  <1>10. Taken(q)' BY <1>1 DEF ListInv, Taken
  <1>11. Counted(q)' BY <1>1, <1>3 DEF ListInv, Counted
  <1> QED BY <1>5, <1>6, <1>7, <1>8, <1>9, <1>10, <1>11 DEF ListInv

\* The main thread gives the lock back, and posts the semaphore.
LEMMA VfsUnlockKeeps ==
  ASSUME NEW q \in Seq(Entry), TeeiPropertyAssumption, ListInv(q), VfsUnlock \/ VfsPost
  PROVE  ListInv(q)'
  <1>1. /\ UNCHANGED <<next, prev, content, settingPc, entry>>
        /\ \/ vfs.pc = "unlock" /\ mutex' = None /\ vfs' = [vfs EXCEPT !.pc = "post"] /\ sem' = sem
           \/ /\ vfs.pc = "post" /\ vfs' = [pc |-> "idle", e |-> None, last |-> None]
              /\ sem' = sem + 1 /\ mutex' = mutex
    BY DEF VfsUnlock, VfsPost, Vfs, list
  <1>2. Threads BY DEF ListInv
  <1>3. vfs.pc \in {"unlock", "post"} /\ vfs'.pc \in {"post", "idle"}
    BY <1>1, <1>2 DEF Threads
  <1>4. Threads' BY <1>1, <1>2 DEF Threads, Adding
  <1>5. LinkType' BY <1>1 DEF ListInv, LinkType
  <1>6. Linked(q)'
    <2>1. vfs.pc # "add4" /\ vfs'.pc # "add4" BY <1>3
    <2> QED BY <1>1, <2>1, LinksStay DEF ListInv
  <1>7. Live(q)' BY <1>1 DEF ListInv, Live
  <1>8. Added(q)' BY <1>3 DEF Added
  <1>9. Taken(q)' BY <1>1 DEF ListInv, Taken
  <1>10. Counted(q)' BY <1>1, <1>2 DEF ListInv, Counted, Threads
  <1> QED BY <1>4, <1>5, <1>6, <1>7, <1>8, <1>9, <1>10 DEF ListInv

\* The nodes of the ring.
LEMMA AtIs ==
  ASSUME TeeiPropertyAssumption, NEW q \in Seq(Entry), Distinct(q)
  PROVE  /\ Len(q) \in Nat
         /\ \A i \in Int : At(q, i) \in Node /\ (At(q, i) \in Entry <=> i \in 1 .. Len(q))
         /\ \A i \in Int : i \notin 1 .. Len(q) => At(q, i) = Head0
         /\ \A i \in 1 .. Len(q) : At(q, i) = q[i]
         /\ \A i \in 1 .. Len(q), j \in Int : At(q, i) = At(q, j) => i = j
  <1>1. Len(q) \in Nat OBVIOUS
  <1>2. \A i \in 1 .. Len(q) : q[i] \in Entry BY ElementOfSeq
  <1>3. Head0 \notin Entry BY DEF TeeiPropertyAssumption
  <1>4. \A i \in Int : At(q, i) \in Node /\ (At(q, i) \in Entry <=> i \in 1 .. Len(q))
    BY <1>2, <1>3, Zenon DEF At, Node
  <1>5. \A i \in 1 .. Len(q), j \in Int : At(q, i) = At(q, j) => i = j
    BY <1>2, <1>3, Zenon DEF At, Distinct
  <1> QED BY <1>1, <1>4, <1>5, Zenon DEF At

\* An entry that is not in the list is no node of the ring.
LEMMA OffRing ==
  ASSUME TeeiPropertyAssumption, NEW q \in Seq(Entry), NEW e \in Entry,
         \A i \in 1 .. Len(q) : q[i] # e
  PROVE  \A i : At(q, i) # e
  <1>1. Head0 # e BY DEF TeeiPropertyAssumption
  <1> QED BY <1>1, Zenon DEF At

\* The first step of teei_list_add_tail.
LEMMA Add1Keeps ==
  ASSUME NEW q \in Seq(Entry), TeeiPropertyAssumption, ListInv(q), vfs.pc = "add1",
         prev' = [prev EXCEPT ![vfs.e] = prev[Head0]],
         vfs' = [vfs EXCEPT !.pc = "add2", !.last = prev[Head0]],
         UNCHANGED <<next, content, sem, mutex, settingPc, entry>>
  PROVE  ListInv(q)'
  <1> DEFINE e == vfs.e
  <1>1. LinkType /\ Threads /\ Linked(q) /\ Distinct(q) BY DEF ListInv, Linked
  <1>2. e \in Entry /\ \A i \in 1 .. Len(q) : q[i] # e BY DEF ListInv, Added
  <1>3. \A i : At(q, i) # e BY <1>2, OffRing
  <1>4. \A i \in Int : At(q, i) \in Node BY <1>1, AtIs
  <1>5. Len(q) \in Nat /\ At(q, Len(q) + 1) = Head0 /\ At(q, Len(q)) \in Node
    BY <1>1, AtIs
  <1>6. prev[Head0] = At(q, Len(q))
    <2>1. Len(q) \in 0 .. Len(q) BY <1>5
    <2>2. prev[At(q, Len(q) + 1)] = At(q, Len(q)) BY <1>1, <2>1 DEF Linked
    <2> QED BY <1>5, <2>2
  <1>7. vfs'.pc = "add2" /\ vfs'.e = e /\ vfs'.last = At(q, Len(q))
    BY <1>1, <1>6 DEF Threads
  <1>8. prev'[e] = At(q, Len(q)) /\ \A n \in Node : n # e => prev'[n] = prev[n]
    BY <1>1, <1>2, <1>6 DEF LinkType, Node
  <1>9. LinkType' BY <1>1, <1>2, <1>5, <1>6 DEF LinkType
  <1> HIDE DEF e
  <1>10. Threads'
    <2>1. vfs' \in [pc : Adding \cup {"idle", "lock", "post"},
                    e : Entry \cup {None}, last : Node \cup {None}]
      BY <1>1, <1>5, <1>6 DEF Threads, Adding
    <2> QED BY <1>1, <1>7, <2>1 DEF Threads, Adding
  <1>11. Linked(q)'
    <2>1. \A i \in 0 .. Len(q) : prev[At(q, i + 1)] = At(q, i) BY <1>1 DEF Linked
    <2>2. \A i \in 0 .. Len(q) : i + 1 \in Int BY <1>5
    <2>3. \A i \in 0 .. Len(q) : prev'[At(q, i + 1)] = At(q, i)
      BY <1>3, <1>4, <1>8, <2>1, <2>2, Zenon
    <2>4. Forward(q, next') BY <1>1 DEF Linked
    <2> QED BY <1>1, <2>3, <2>4, Zenon DEF Linked, Distinct, At, Forward
  <1>12. Live(q)' BY DEF ListInv, Live
  <1>13. Added(q)' BY <1>7, <1>8 DEF ListInv, Added, e, At
  <1>14. Taken(q)' BY DEF ListInv, Taken
  <1>15. Counted(q)' BY <1>7 DEF ListInv, Counted
  <1> QED BY <1>9, <1>10, <1>11, <1>12, <1>13, <1>14, <1>15 DEF ListInv

\* The second one.
LEMMA Add2Keeps ==
  ASSUME NEW q \in Seq(Entry), TeeiPropertyAssumption, ListInv(q), vfs.pc = "add2",
         next' = [next EXCEPT ![vfs.e] = Head0], vfs' = [vfs EXCEPT !.pc = "add3"],
         UNCHANGED <<prev, content, sem, mutex, settingPc, entry>>
  PROVE  ListInv(q)'
  <1> DEFINE e == vfs.e
  <1>1. LinkType /\ Threads /\ Linked(q) /\ Distinct(q) BY DEF ListInv, Linked
  <1>2. e \in Entry /\ \A i \in 1 .. Len(q) : q[i] # e BY DEF ListInv, Added
  <1>3. \A i : At(q, i) # e BY <1>2, OffRing
  <1>4. \A i \in Int : At(q, i) \in Node BY <1>1, AtIs
  <1>5. vfs'.pc = "add3" /\ vfs'.e = e /\ vfs'.last = vfs.last BY <1>1 DEF Threads
  <1>6. next'[e] = Head0 /\ \A n \in Node : n # e => next'[n] = next[n]
    BY <1>1, <1>2 DEF LinkType, Node
  <1>7. LinkType' BY <1>1, <1>2 DEF LinkType, Node
  <1> HIDE DEF e
  <1>8. Threads' BY <1>1, <1>5 DEF Threads, Adding
  <1>9. Linked(q)'
    <2>1. \A i \in 0 .. Len(q) : next[At(q, i)] = At(q, i + 1) BY <1>1 DEF Linked, Forward
    <2>2. \A i \in 0 .. Len(q) : i \in Int BY DEF Linked
    <2>3. Forward(q, next') BY <1>3, <1>4, <1>6, <2>1, <2>2, Zenon DEF Forward
    <2>4. \A i \in 0 .. Len(q) : prev[At(q, i + 1)] = At(q, i) BY <1>1 DEF Linked
    <2> QED BY <1>1, <2>3, <2>4, Zenon DEF Linked, Distinct, At, Forward
  <1>10. Live(q)' BY DEF ListInv, Live
  <1>11. Added(q)' BY <1>5, <1>6 DEF ListInv, Added, e, At
  <1>12. Taken(q)'
    <2>1. Head0 # e /\ Head0 \in Node BY <1>2 DEF TeeiPropertyAssumption, Node
    <2>2. next'[Head0] = next[Head0] BY <1>6, <2>1
    <2> QED BY <2>2 DEF ListInv, Taken
  <1>13. Counted(q)' BY <1>5 DEF ListInv, Counted
  <1> QED BY <1>7, <1>8, <1>9, <1>10, <1>11, <1>12, <1>13 DEF ListInv

\* The last one.
LEMMA Add4Keeps ==
  ASSUME NEW q \in Seq(Entry), TeeiPropertyAssumption, ListInv(q), vfs.pc = "add4",
         prev' = [prev EXCEPT ![Head0] = vfs.e], vfs' = [vfs EXCEPT !.pc = "unlock"],
         UNCHANGED <<next, content, sem, mutex, settingPc, entry>>
  PROVE  ListInv(q)'
  <1> DEFINE e == vfs.e
             l == Len(q)
  <1>1. LinkType /\ Threads /\ Linked(q) /\ Distinct(q) BY DEF ListInv, Linked
  <1>2. q # <<>> /\ e = q[l] BY DEF ListInv, Added
  <1>3. l \in Nat \ {0} BY <1>2
  <1>4. \A i \in Int : At(q, i) \in Node /\ (At(q, i) \in Entry <=> i \in 1 .. l)
    BY <1>1, AtIs
  <1>5. e = At(q, l) /\ e \in Entry /\ At(q, l + 1) = Head0
    BY <1>1, <1>2, <1>3, <1>4 DEF At
  <1>6. vfs'.pc = "unlock" BY <1>1 DEF Threads
  <1>7. prev'[Head0] = e /\ \A n \in Node : n # Head0 => prev'[n] = prev[n]
    BY <1>1 DEF LinkType, Node
  <1>8. LinkType' BY <1>1, <1>5 DEF LinkType, Node
  <1>9. Threads' BY <1>1, <1>6 DEF Threads, Adding
  <1> HIDE DEF e, l
  <1>10. Linked(q)'
    <2>1. ASSUME NEW i \in 0 .. l PROVE prev'[At(q, i + 1)] = At(q, i)
      <3>1. CASE i = l BY <1>5, <1>7, <3>1
      <3>2. CASE i # l
        <4>1. i < l /\ i + 1 \in Int /\ i + 1 \in 1 .. l BY <1>3, <3>2
        <4>2. prev[At(q, i + 1)] = At(q, i) BY <1>1, <4>1 DEF Linked, l
        <4>3. At(q, i + 1) # Head0 BY <1>4, <4>1 DEF TeeiPropertyAssumption
        <4> QED BY <1>4, <1>7, <4>1, <4>2, <4>3
      <3> QED BY <3>1, <3>2
    <2>2. Forward(q, next') BY <1>1 DEF Linked
    <2> QED BY <1>1, <2>1, <2>2, Zenon DEF Linked, Distinct, At, Forward, l
  <1>11. Live(q)' BY DEF ListInv, Live
  <1>12. Added(q)' BY <1>6 DEF Added
  <1>13. Taken(q)' BY DEF ListInv, Taken
  <1>14. Counted(q)' BY <1>6 DEF ListInv, Counted
  <1> QED BY <1>8, <1>9, <1>10, <1>11, <1>12, <1>13, <1>14 DEF ListInv

\* The ring with one entry more.
LEMMA AtAppend ==
  ASSUME NEW q \in Seq(Entry), NEW e \in Entry
  PROVE  /\ Append(q, e) \in Seq(Entry) /\ Len(Append(q, e)) = Len(q) + 1
         /\ \A i \in 0 .. Len(q) : At(Append(q, e), i) = At(q, i)
         /\ At(Append(q, e), Len(q) + 1) = e
         /\ At(Append(q, e), (Len(q) + 1) + 1) = Head0
         /\ \A i \in 1 .. Len(q) : Append(q, e)[i] = q[i]
         /\ Append(q, e)[Len(q) + 1] = e
  <1> DEFINE t == Append(q, e)
             l == Len(q)
  <1>1. /\ t \in Seq(Entry) /\ Len(t) = l + 1 /\ l \in Nat
        /\ \A i \in 1 .. l : t[i] = q[i]
        /\ t[l + 1] = e
    BY AppendProperties
  <1> HIDE DEF t, l
  <1>2. \A i \in 0 .. l : i \in 1 .. l + 1 <=> i \in 1 .. l BY <1>1
  <1>3. \A i \in 0 .. l : At(t, i) = At(q, i)
    BY <1>1, <1>2, Zenon DEF At, l
  <1>4. l + 1 \in 1 .. l + 1 /\ (l + 1) + 1 \notin 1 .. l + 1 BY <1>1
  <1>5. At(t, l + 1) = e /\ At(t, (l + 1) + 1) = Head0 BY <1>1, <1>4, Zenon DEF At
  <1> QED BY <1>1, <1>3, <1>5 DEF t, l

\* The third step of teei_list_add_tail puts the entry into the ring.
LEMMA Add3Keeps ==
  ASSUME NEW q \in Seq(Entry), TeeiPropertyAssumption, ListInv(q), vfs.pc = "add3",
         next' = [next EXCEPT ![vfs.last] = vfs.e], vfs' = [vfs EXCEPT !.pc = "add4"],
         UNCHANGED <<prev, content, sem, mutex, settingPc, entry>>,
         NEW e, e = vfs.e, NEW t, t = Append(q, e)
  PROVE  t \in Seq(Entry) /\ ListInv(t)'
  <1> DEFINE l == Len(q)
  <1>1. LinkType /\ Threads /\ Linked(q) /\ Distinct(q) BY DEF ListInv, Linked
  <1>2. e \in Entry /\ \A i \in 1 .. l : q[i] # e BY DEF ListInv, Added
  <1>3. vfs.last = At(q, l) /\ prev[e] = At(q, l) /\ next[e] = Head0 BY DEF ListInv, Added
  <1>4. \A i : At(q, i) # e BY <1>2, OffRing
  <1>5. /\ l \in Nat
        /\ \A i \in Int : At(q, i) \in Node /\ (At(q, i) \in Entry <=> i \in 1 .. l)
        /\ \A i \in Int : i \notin 1 .. l => At(q, i) = Head0
        /\ \A i \in 1 .. l, j \in Int : At(q, i) = At(q, j) => i = j
    BY <1>1, AtIs
  <1>6. /\ t \in Seq(Entry) /\ Len(t) = l + 1
        /\ \A i \in 0 .. l : At(t, i) = At(q, i)
        /\ At(t, l + 1) = e
        /\ At(t, (l + 1) + 1) = Head0
        /\ \A i \in 1 .. l : t[i] = q[i]
        /\ t[l + 1] = e
    BY <1>2, AtAppend
  <1>7. vfs'.pc = "add4" /\ vfs'.e = e /\ vfs'.last = vfs.last BY <1>1 DEF Threads
  <1>8. next'[At(q, l)] = e /\ \A n \in Node : n # At(q, l) => next'[n] = next[n]
    <2>1. At(q, l) \in Node BY <1>5
    <2> QED BY <1>1, <1>3, <2>1 DEF LinkType
  <1>9. LinkType' BY <1>1, <1>2, <1>3 DEF LinkType, Node
  <1>10. Threads' BY <1>1, <1>7 DEF Threads, Adding
  <1>11. Len(q) = l OBVIOUS
  <1> HIDE DEF l
  <1>12. \A i \in 1 .. Len(t) : i \in 1 .. l \/ i = l + 1 BY <1>5, <1>6
  <1>13. Forward(t, next')
    <2> SUFFICES ASSUME NEW i \in 0 .. Len(t) PROVE next'[At(t, i)] = At(t, i + 1)
      BY DEF Forward
    <2>1. CASE i = l + 1
      <3>1. e \in Node /\ e # At(q, l) BY <1>2, <1>4 DEF Node
      <3>2. next'[e] = Head0 BY <1>3, <1>8, <3>1
      <3> QED BY <1>6, <2>1, <3>2
    <2>2. CASE i = l
      <3>1. l \in 0 .. l BY <1>5
      <3> QED BY <1>6, <1>8, <2>2, <3>1
    <2>3. CASE i # l /\ i # l + 1
      <3>1. i \in 0 .. l /\ i + 1 \in 0 .. l /\ i \in Int /\ l \in Int BY <1>5, <1>6, <2>3
      <3>2. At(q, i) # At(q, l)
        <4>1. i < l /\ l \in 1 .. l BY <1>5, <2>3, <3>1
        <4> QED BY <1>5, <2>3, <3>1, <4>1
      <3>3. next[At(q, i)] = At(q, i + 1) BY <1>1, <1>11, <3>1 DEF Linked, Forward
      <3>4. next'[At(q, i)] = next[At(q, i)] BY <1>5, <1>8, <3>1, <3>2
      <3> QED BY <1>6, <3>1, <3>3, <3>4
    <2> QED BY <2>1, <2>2, <2>3
  <1>14. \A i \in 0 .. Len(t) : i < Len(t) => prev[At(t, i + 1)] = At(t, i)
    <2> SUFFICES ASSUME NEW i \in 0 .. Len(t), i < Len(t) PROVE prev[At(t, i + 1)] = At(t, i)
      OBVIOUS
    <2>1. CASE i = l
      <3>1. l \in 0 .. l BY <1>5
      <3> QED BY <1>3, <1>6, <2>1, <3>1
    <2>2. CASE i # l
      <3>1. i \in 0 .. l /\ i + 1 \in 0 .. l BY <1>5, <1>6, <2>2
      <3>2. prev[At(q, i + 1)] = At(q, i) BY <1>1, <1>11, <3>1 DEF Linked
      <3> QED BY <1>6, <3>1, <3>2
    <2> QED BY <2>1, <2>2
  <1>15. Distinct(t)
    <2> SUFFICES ASSUME NEW i \in 1 .. Len(t), NEW j \in 1 .. Len(t), t[i] = t[j] PROVE i = j
      BY DEF Distinct
    <2>1. \A k, m \in 1 .. l : q[k] = q[m] => k = m BY <1>1, <1>11 DEF Distinct
    <2>2. CASE i \in 1 .. l /\ j \in 1 .. l BY <1>6, <2>1, <2>2
    <2>3. CASE i = l + 1 /\ j \in 1 .. l
      <3>1. t[i] = e /\ t[j] = q[j] BY <1>6, <2>3
      <3> QED BY <1>2, <2>3, <3>1
    <2>4. CASE i \in 1 .. l /\ j = l + 1
      <3>1. t[i] = q[i] /\ t[j] = e BY <1>6, <2>4
      <3> QED BY <1>2, <2>4, <3>1
    <2> QED BY <1>12, <2>2, <2>3, <2>4
  <1>16. Linked(t)'
    <2> QED BY <1>7, <1>13, <1>14, <1>15, Zenon DEF Linked, Forward, Distinct, At
  <1>17. Live(t)'
    <2>1. \A i \in 1 .. l : content[q[i]] # Nothing BY <1>11 DEF ListInv, Live
    <2>2. content[e] # Nothing BY <1>11 DEF ListInv, Added
    <2>3. \A i \in 1 .. Len(t) : content[t[i]] # Nothing BY <1>6, <1>12, <2>1, <2>2, Zenon
    <2> QED BY <2>3 DEF ListInv, Live
  <1>18. Added(t)'
    <2>1. t # <<>>
      <3>1. Len(t) # 0 /\ Len(<<>>) = 0 BY <1>5, <1>6
      <3> QED BY <3>1, Zenon
    <2> QED BY <1>6, <1>7, <2>1 DEF Added
  <1>19. Counted(t)'
    <2> DEFINE taking == IF settingPc \in {"first", "lock", "del"} THEN 1 ELSE 0
    <2>1. sem \in Nat /\ taking \in Nat /\ l = sem + 0 + taking
      BY <1>1, <1>11 DEF ListInv, Counted, Threads
    <2> HIDE DEF taking
    <2>2. Len(t) = sem + 1 + taking BY <1>6, <2>1
    <2> QED BY <1>7, <2>2 DEF Counted, taking
  <1>20. Taken(t)'
    <2>1. settingPc = "set" => entry \in Entry /\ content[entry] # Nothing /\ entry # e
                               /\ \A i \in 1 .. l : q[i] # entry
      BY <1>11 DEF ListInv, Taken, Added
    <2>2. settingPc = "set" => \A i \in 1 .. Len(t) : t[i] # entry
      BY <1>6, <1>12, <2>1, Zenon
    <2>3. settingPc \in {"lock", "del"} => next'[Head0] = next[Head0]
      <3> SUFFICES ASSUME settingPc \in {"lock", "del"} PROVE next'[Head0] = next[Head0]
        OBVIOUS
      <3>1. l = sem + 0 + 1 /\ sem \in Nat BY <1>1, <1>11 DEF ListInv, Counted, Threads
      <3>2. l \in 1 .. l /\ l \in Int BY <3>1
      <3>3. At(q, l) \in Entry BY <1>5, <3>2
      <3>4. Head0 # At(q, l) /\ Head0 \in Node BY <3>3 DEF TeeiPropertyAssumption, Node
      <3> QED BY <1>8, <3>4
    <2> QED BY <2>1, <2>2, <2>3 DEF ListInv, Taken
  <1>21. ListInv(t)'
    BY <1>9, <1>10, <1>16, <1>17, <1>18, <1>19, <1>20 DEF ListInv
  <1> QED BY <1>6, <1>21

\* What property_setting_fn does before it has the lock.
LEMMA WaitKeeps ==
  ASSUME NEW q \in Seq(Entry), TeeiPropertyAssumption, ListInv(q), Wait \/ FirstEntry \/ Lock
  PROVE  ListInv(q)'
  <1>1. /\ UNCHANGED <<next, prev, content, vfs>>
        /\ \/ /\ settingPc = "wait" /\ sem > 0 /\ sem' = sem - 1 /\ settingPc' = "first"
              /\ UNCHANGED <<mutex, entry>>
           \/ /\ settingPc = "first" /\ entry' = next[Head0] /\ settingPc' = "lock"
              /\ UNCHANGED <<mutex, sem>>
           \/ /\ settingPc = "lock" /\ mutex = None /\ mutex' = "setting" /\ settingPc' = "del"
              /\ UNCHANGED <<sem, entry>>
    BY DEF Wait, FirstEntry, Lock, list
  <1>2. Threads BY DEF ListInv
  <1>3. settingPc # "set" /\ settingPc' # "set" BY <1>1
  <1>4. Threads'
    <2>1. CASE settingPc' = "del"
      <3>1. settingPc = "lock" /\ mutex = None /\ mutex' = "setting" /\ UNCHANGED <<sem, vfs>>
        BY <1>1, <2>1
      <3>2. vfs.pc \notin Adding BY <1>2, <3>1 DEF Threads, TeeiPropertyAssumption
      <3> QED BY <1>2, <2>1, <3>1, <3>2 DEF Threads
    <2>2. CASE settingPc' # "del"
      <3>1. /\ settingPc # "del" /\ mutex' = mutex /\ sem' \in Nat
            /\ settingPc' \in {"first", "lock"}
        BY <1>1, <1>2, <2>2 DEF Threads
      <3> QED BY <1>1, <1>2, <3>1 DEF Threads
    <2> QED BY <2>1, <2>2
  <1>5. LinkType' BY <1>1 DEF ListInv, LinkType
  <1>6. Linked(q)' BY <1>1, LinksStay DEF ListInv
  <1>7. Live(q)' BY <1>1 DEF ListInv, Live
  <1>8. Added(q)' BY <1>1, <1>3, Zenon DEF ListInv, Added, At
  <1>9. Taken(q)' BY <1>1, <1>3 DEF ListInv, Taken
  <1>10. Counted(q)'
    <2> DEFINE adding == IF vfs.pc \in {"add4", "unlock", "post"} THEN 1 ELSE 0
    <2>1. adding \in Nat /\ adding' = adding /\ sem \in Nat BY <1>1, <1>2 DEF Threads
    <2>2. Len(q) = sem + adding + (IF settingPc \in {"first", "lock", "del"} THEN 1 ELSE 0)
      BY DEF ListInv, Counted
    <2> HIDE DEF adding
    <2>3. Len(q) = sem' + adding + (IF settingPc' \in {"first", "lock", "del"} THEN 1 ELSE 0)
      BY <1>1, <2>1, <2>2
    <2> QED BY <1>1, <2>1, <2>3 DEF Counted, adding
  <1> QED BY <1>4, <1>5, <1>6, <1>7, <1>8, <1>9, <1>10 DEF ListInv

\* property_set and the frees.
LEMMA SetPropertyKeeps ==
  ASSUME NEW q \in Seq(Entry), TeeiPropertyAssumption, ListInv(q), SetProperty
  PROVE  ListInv(q)'
  <1>1. /\ settingPc = "set" /\ entry \in Entry /\ content' = [content EXCEPT ![entry] = Nothing]
        /\ settingPc' = "wait" /\ UNCHANGED <<next, prev, sem, mutex, vfs>>
    BY DEF SetProperty
  <1>2. \A i \in 1 .. Len(q) : q[i] # entry BY <1>1 DEF ListInv, Taken
  <1>3. content \in [Entry -> Setting \cup {Nothing}] BY DEF ListInv, Live
  <1>4. /\ content' \in [Entry -> Setting \cup {Nothing}]
        /\ \A x \in Entry : x # entry => content'[x] = content[x]
    BY <1>1, <1>3
  <1>5. Threads' BY <1>1 DEF ListInv, Threads
  <1>6. LinkType' BY <1>1 DEF ListInv, LinkType
  <1>7. Linked(q)' BY <1>1, LinksStay DEF ListInv
  <1>8. Live(q)'
    <2>1. \A i \in 1 .. Len(q) : q[i] \in Entry BY ElementOfSeq
    <2>2. \A i \in 1 .. Len(q) : content[q[i]] # Nothing BY DEF ListInv, Live
    <2>3. \A i \in 1 .. Len(q) : content'[q[i]] # Nothing BY <1>2, <1>4, <2>1, <2>2, Zenon
    <2> QED BY <1>4, <2>3 DEF Live
  <1>9. Added(q)'
    <2>1. vfs.pc \in {"lock", "add1", "add2", "add3"} => content'[vfs.e] # Nothing
      BY <1>1, <1>4 DEF ListInv, Added
    <2> QED BY <1>1, <2>1 DEF ListInv, Added, At
  <1>10. Taken(q)' BY <1>1 DEF Taken
  <1>11. Counted(q)' BY <1>1 DEF ListInv, Counted
  <1> QED BY <1>5, <1>6, <1>7, <1>8, <1>9, <1>10, <1>11 DEF ListInv

\* The ring without its first entry.
LEMMA AtTail ==
  ASSUME NEW q \in Seq(Entry), q # <<>>
  PROVE  /\ Tail(q) \in Seq(Entry) /\ Len(q) \in Nat \ {0} /\ Len(Tail(q)) = Len(q) - 1
         /\ \A i \in 1 .. Len(q) - 1 : Tail(q)[i] = q[i + 1]
         /\ \A i \in 1 .. Len(q) : At(Tail(q), i) = At(q, i + 1)
         /\ At(Tail(q), 0) = Head0
  <1> DEFINE t == Tail(q)
             l == Len(q)
  <1>1. l \in Nat \ {0} BY EmptySeq
  <1>2. t \in Seq(Entry) /\ Len(t) = l - 1 /\ \A i \in 1 .. Len(t) : t[i] = q[i + 1]
    BY HeadTailProperties
  <1> HIDE DEF t, l
  <1>3. \A i \in 1 .. l : (i \in 1 .. l - 1 <=> i + 1 \in 1 .. l) BY <1>1
  <1>4. \A i \in 1 .. l : At(t, i) = At(q, i + 1) BY <1>2, <1>3, Zenon DEF At, l
  <1>5. 0 \notin 1 .. l - 1 BY <1>1
  <1>6. At(t, 0) = Head0 BY <1>2, <1>5, Zenon DEF At
  <1> QED BY <1>1, <1>2, <1>4, <1>6 DEF t, l

\* What property_setting_fn removes is the first entry.
LEMMA FirstIs ==
  ASSUME NEW q \in Seq(Entry), TeeiPropertyAssumption, ListInv(q),
         settingPc \in {"first", "lock", "del"}
  PROVE  q # <<>> /\ q[1] \in Entry /\ next[Head0] = q[1]
  <1>1. Threads /\ Counted(q) /\ Distinct(q) /\ Forward(q, next) BY DEF ListInv, Linked
  <1>2. Len(q) \in Nat /\ Len(q) # 0
    <2> DEFINE adding == IF vfs.pc \in {"add4", "unlock", "post"} THEN 1 ELSE 0
    <2>1. adding \in Nat /\ sem \in Nat BY <1>1 DEF Threads
    <2>2. Len(q) = sem + adding + 1 BY <1>1 DEF Counted
    <2> HIDE DEF adding
    <2> QED BY <2>1, <2>2
  <1>3. q # <<>>
    <2>1. Len(<<>>) = 0 OBVIOUS
    <2> QED BY <1>2, <2>1, Zenon
  <1>4. 1 \in 1 .. Len(q) /\ 0 \in 0 .. Len(q) /\ 0 \notin 1 .. Len(q) /\ 0 + 1 = 1 BY <1>2
  <1>5. At(q, 0) = Head0 /\ At(q, 1) = q[1] BY <1>4 DEF At
  <1>6. next[At(q, 0)] = At(q, 0 + 1) BY <1>1, <1>4 DEF Forward
  <1> QED BY <1>3, <1>4, <1>5, <1>6

\* The removal.
LEMMA RemoveEntryKeeps ==
  ASSUME NEW q \in Seq(Entry), TeeiPropertyAssumption, ListInv(q), RemoveEntry,
         NEW t, t = Tail(q)
  PROVE  t \in Seq(Entry) /\ ListInv(t)'
  <1> DEFINE l == Len(q)
  <1>1. /\ settingPc = "del" /\ mutex' = None /\ settingPc' = "set"
        /\ next' = [[next EXCEPT ![prev[entry]] = next[entry]] EXCEPT ![entry] = Poison]
        /\ prev' = [[prev EXCEPT ![next[entry]] = prev[entry]] EXCEPT ![entry] = Poison]
        /\ UNCHANGED <<content, sem, vfs, entry>>
    BY DEF RemoveEntry, teei_list_del
  <1>2. LinkType /\ Threads /\ Linked(q) /\ Distinct(q) BY DEF ListInv, Linked
  <1>3. q # <<>> /\ q[1] \in Entry /\ next[Head0] = q[1] BY <1>1, FirstIs
  <1>4. entry = q[1] /\ entry \in Entry BY <1>1, <1>3 DEF ListInv, Taken
  <1>5. vfs.pc \in {"idle", "lock", "post"} BY <1>1, <1>2 DEF Threads
  <1>6. /\ t \in Seq(Entry) /\ l \in Nat \ {0} /\ Len(t) = l - 1
        /\ \A i \in 1 .. l - 1 : t[i] = q[i + 1]
        /\ \A i \in 1 .. l : At(t, i) = At(q, i + 1)
        /\ At(t, 0) = Head0
    BY <1>3, AtTail
  <1>7. /\ \A i \in Int : At(q, i) \in Node /\ (At(q, i) \in Entry <=> i \in 1 .. l)
        /\ \A i \in Int : i \notin 1 .. l => At(q, i) = Head0
        /\ \A i \in 1 .. l : At(q, i) = q[i]
        /\ \A i \in 1 .. l, j \in Int : At(q, i) = At(q, j) => i = j
    BY <1>2, AtIs
  <1>8. \A i \in 0 .. l : next[At(q, i)] = At(q, i + 1) BY <1>2 DEF Linked, Forward
  <1>9. \A i \in 0 .. l : prev[At(q, i + 1)] = At(q, i) BY <1>2, <1>5 DEF Linked
  <1>10. Len(q) = l OBVIOUS
  <1> HIDE DEF l
  <1> DEFINE after == At(q, 2)
  <1>11. /\ 0 \in 0 .. l /\ 1 \in 0 .. l /\ 1 \in 1 .. l /\ 0 \notin 1 .. l
         /\ 0 + 1 = 1 /\ 1 + 1 = 2 /\ 0 \in Int /\ 1 \in Int /\ 2 \in Int
    BY <1>6
  <1>12. /\ At(q, 1) = entry /\ At(q, 0) = Head0
         /\ prev[entry] = Head0 /\ next[entry] = after
         /\ after \in Node /\ after # entry /\ Head0 # entry /\ Head0 \in Node
    <2>1. At(q, 1) = entry /\ At(q, 0) = Head0 BY <1>4, <1>7, <1>11
    <2>2. prev[At(q, 0 + 1)] = At(q, 0) /\ next[At(q, 1)] = At(q, 1 + 1)
      BY <1>8, <1>9, <1>11
    <2>3. after \in Node BY <1>7, <1>11
    <2>4. after # entry
      <3>1. 1 # 2 OBVIOUS
      <3>2. At(q, 1) = At(q, 2) => 1 = 2 BY <1>7, <1>11, Zenon
      <3> QED BY <2>1, <3>1, <3>2
    <2>5. Head0 # entry /\ Head0 \in Node BY <1>4 DEF TeeiPropertyAssumption, Node
    <2> QED BY <1>11, <2>1, <2>2, <2>3, <2>4, <2>5
  <1> HIDE DEF after
  <1>13. /\ next'[Head0] = after
         /\ \A n \in Node : n # Head0 /\ n # entry => next'[n] = next[n]
         /\ prev'[after] = Head0
         /\ \A n \in Node : n # after /\ n # entry => prev'[n] = prev[n]
    BY <1>1, <1>2, <1>12 DEF LinkType
  <1>14. LinkType' BY <1>1, <1>2, <1>4, <1>12 DEF LinkType
  <1>15. Threads' BY <1>1, <1>2, <1>5 DEF Threads, Adding
  <1>16. Forward(t, next')
    <2> SUFFICES ASSUME NEW i \in 0 .. Len(t) PROVE next'[At(t, i)] = At(t, i + 1)
      BY DEF Forward
    <2>1. CASE i = 0
      <3>1. At(t, 0 + 1) = after BY <1>6, <1>11 DEF after
      <3> QED BY <1>6, <1>13, <2>1, <3>1
    <2>2. CASE i # 0
      <3>1. /\ i \in 1 .. l /\ i + 1 \in 1 .. l /\ i + 1 \in 0 .. l /\ i + 1 \in Int
            /\ 1 # i + 1
        BY <1>6, <2>2
      <3>2. At(t, i) = At(q, i + 1) /\ At(t, i + 1) = At(q, (i + 1) + 1) BY <1>6, <3>1
      <3>3. next[At(q, i + 1)] = At(q, (i + 1) + 1) BY <1>8, <3>1
      <3>4. At(q, i + 1) \in Node /\ At(q, i + 1) # Head0 /\ At(q, i + 1) # entry
        <4>1. At(q, i + 1) \in Node /\ At(q, i + 1) \in Entry BY <1>7, <3>1
        <4>2. Head0 \notin Entry BY DEF TeeiPropertyAssumption
        <4>3. At(q, 1) = At(q, i + 1) => 1 = i + 1 BY <1>7, <1>11, <3>1, Zenon
        <4> QED BY <1>12, <3>1, <4>1, <4>2, <4>3
      <3> QED BY <1>13, <3>2, <3>3, <3>4
    <2> QED BY <2>1, <2>2
  <1>17. \A i \in 0 .. Len(t) : prev'[At(t, i + 1)] = At(t, i)
    <2> SUFFICES ASSUME NEW i \in 0 .. Len(t) PROVE prev'[At(t, i + 1)] = At(t, i)
      OBVIOUS
    <2>1. CASE i = 0
      <3>1. At(t, 0 + 1) = after BY <1>6, <1>11 DEF after
      <3> QED BY <1>6, <1>13, <2>1, <3>1
    <2>2. CASE i # 0
      <3>1. /\ i \in 1 .. l /\ i + 1 \in 1 .. l /\ i + 1 \in 0 .. l /\ (i + 1) + 1 \in Int
            /\ 1 # (i + 1) + 1 /\ 2 # (i + 1) + 1 /\ 2 \in 1 .. l
        BY <1>6, <2>2
      <3>2. At(t, i) = At(q, i + 1) /\ At(t, i + 1) = At(q, (i + 1) + 1) BY <1>6, <3>1
      <3>3. prev[At(q, (i + 1) + 1)] = At(q, i + 1) BY <1>9, <3>1
      <3>4. /\ At(q, (i + 1) + 1) \in Node /\ At(q, (i + 1) + 1) # after
            /\ At(q, (i + 1) + 1) # entry
        <4>1. At(q, (i + 1) + 1) \in Node BY <1>7, <3>1
        <4>2. /\ At(q, 1) = At(q, (i + 1) + 1) => 1 = (i + 1) + 1
              /\ At(q, 2) = At(q, (i + 1) + 1) => 2 = (i + 1) + 1
          BY <1>7, <1>11, <3>1, Zenon
        <4> QED BY <1>12, <3>1, <4>1, <4>2 DEF after
      <3> QED BY <1>13, <3>2, <3>3, <3>4
    <2> QED BY <2>1, <2>2
  <1>18. \A i \in 1 .. Len(t) : i + 1 \in 1 .. l /\ i \in 1 .. l - 1 /\ i + 1 # 1 BY <1>6
  <1>19. Distinct(t)
    <2> SUFFICES ASSUME NEW i \in 1 .. Len(t), NEW j \in 1 .. Len(t), t[i] = t[j] PROVE i = j
      BY DEF Distinct
    <2>1. q[i + 1] = q[j + 1] BY <1>6, <1>18
    <2>2. i + 1 = j + 1 BY <1>2, <1>10, <1>18, <2>1 DEF Distinct
    <2> QED BY <1>6, <2>2
  <1>20. Linked(t)' BY <1>16, <1>17, <1>19, Zenon DEF Linked, Forward, Distinct, At
  <1>21. \A i \in 1 .. Len(t) : content[t[i]] # Nothing /\ t[i] # entry
    <2> TAKE i \in 1 .. Len(t)
    <2>1. t[i] = q[i + 1] /\ i + 1 \in 1 .. l BY <1>6, <1>18
    <2>2. content[q[i + 1]] # Nothing BY <1>10, <2>1 DEF ListInv, Live
    <2>3. q[i + 1] # q[1] BY <1>2, <1>10, <1>11, <1>18, <2>1 DEF Distinct
    <2> QED BY <1>4, <2>1, <2>2, <2>3
  <1>22. Live(t)' BY <1>1, <1>21 DEF ListInv, Live
  <1>23. content[entry] # Nothing BY <1>4, <1>10, <1>11 DEF ListInv, Live
  <1>24. Taken(t)' BY <1>1, <1>4, <1>21, <1>23 DEF Taken
  <1>25. Added(t)'
    <2>1. vfs.pc = "lock" =>
            /\ vfs.e \in Entry /\ content[vfs.e] # Nothing /\ \A i \in 1 .. l : q[i] # vfs.e
      BY <1>10 DEF ListInv, Added
    <2>2. vfs.pc = "lock" => entry # vfs.e BY <1>4, <1>11, <2>1
    <2>3. vfs.pc = "lock" => \A i \in 1 .. Len(t) : t[i] # vfs.e
      BY <1>6, <1>18, <2>1, Zenon
    <2> QED BY <1>1, <1>5, <2>1, <2>2, <2>3 DEF Added
  <1>26. Counted(t)'
    <2> DEFINE adding == IF vfs.pc \in {"add4", "unlock", "post"} THEN 1 ELSE 0
    <2>1. adding \in Nat /\ adding' = adding /\ sem \in Nat BY <1>1, <1>2 DEF Threads
    <2>2. l = sem + adding + 1 BY <1>1, <1>10 DEF ListInv, Counted
    <2> HIDE DEF adding
    <2>3. Len(t) = sem + adding + 0 BY <1>6, <2>1, <2>2
    <2> QED BY <1>1, <2>1, <2>3 DEF Counted, adding
  <1> QED BY <1>6, <1>14, <1>15, <1>20, <1>22, <1>24, <1>25, <1>26 DEF ListInv

-----------------------------------------------------------------------------
\* The queue the list stands for: the settings of the entries, the one that is
\* being set, and the last one that was.
Current == IF settingPc = "set" THEN content[entry] ELSE Nothing

\* What a step does to the queue.
Stays(q, t)     == Settings(t, content') = Settings(q, content)
                   /\ Current' = Current /\ property' = property
Requested(q, t) == /\ \E s \in Setting : Settings(t, content') = Append(Settings(q, content), s)
                   /\ Current' = Current /\ property' = property
TakenOff(q, t)  == /\ Current = Nothing /\ Settings(q, content) # <<>>
                   /\ Current' = Head(Settings(q, content))
                   /\ Settings(t, content') = Tail(Settings(q, content)) /\ property' = property
Applied(q, t)   == /\ Current # Nothing /\ property' = Current /\ Current' = Nothing
                   /\ Settings(t, content') = Settings(q, content)
QueueStep(q, t) == Stays(q, t) \/ Requested(q, t) \/ TakenOff(q, t) \/ Applied(q, t)

\* The settings of a list whose entries keep theirs.
LEMMA SettingsKept ==
  ASSUME NEW q \in Seq(Entry), NEW c, NEW d, \A i \in 1 .. Len(q) : d[q[i]] = c[q[i]]
  PROVE  Settings(q, d) = Settings(q, c)
  BY DEF Settings

\* A step that touches neither the entries nor what is taken off.
LEMMA OthersStay ==
  ASSUME NEW q \in Seq(Entry), UNCHANGED <<content, entry, property>>,
         settingPc = "set" <=> settingPc' = "set"
  PROVE  Stays(q, q)
  BY DEF Stays, Settings, Current

\* A request that is not in the list yet is not in the queue.
LEMMA VfsRequestStays ==
  ASSUME TeeiPropertyAssumption, NEW q \in Seq(Entry), ListInv(q), NEW s \in Setting, VfsRequest(s)
  PROVE  Stays(q, q)
  <1>1. PICK e \in Entry : content[e] = Nothing /\ content' = [content EXCEPT ![e] = s]
    BY DEF VfsRequest
  <1>2. UNCHANGED <<settingPc, entry, property>> BY DEF VfsRequest
  <1>3. /\ content \in [Entry -> Setting \cup {Nothing}]
        /\ \A i \in 1 .. Len(q) : content[q[i]] # Nothing
    BY DEF ListInv, Live
  <1>4. \A x \in Entry : x # e => content'[x] = content[x] BY <1>1, <1>3
  <1>5. \A i \in 1 .. Len(q) : q[i] \in Entry BY ElementOfSeq
  <1>6. \A i \in 1 .. Len(q) : content'[q[i]] = content[q[i]] BY <1>1, <1>3, <1>4, <1>5, Zenon
  <1>7. Settings(q, content') = Settings(q, content) BY <1>6, SettingsKept
  <1>8. settingPc = "set" => content'[entry] = content[entry]
    BY <1>1, <1>4 DEF ListInv, Taken
  <1> QED BY <1>2, <1>7, <1>8 DEF Stays, Current

\* The forward link to the new entry is what puts its setting into the queue.
LEMMA Add3Requests ==
  ASSUME NEW q \in Seq(Entry), TeeiPropertyAssumption, ListInv(q), vfs.pc = "add3",
         UNCHANGED <<content, settingPc, entry, property>>,
         NEW e, e = vfs.e, NEW t, t = Append(q, e)
  PROVE  Requested(q, t)
  <1>1. e \in Entry /\ content[e] # Nothing BY DEF ListInv, Added
  <1>2. content \in [Entry -> Setting \cup {Nothing}] BY DEF ListInv, Live
  <1>3. content[e] \in Setting BY <1>1, <1>2
  <1> DEFINE l == Len(q)
             p == Settings(q, content)
  <1>4. /\ t \in Seq(Entry) /\ Len(t) = l + 1 /\ l \in Nat
        /\ \A i \in 1 .. l : t[i] = q[i]
        /\ t[l + 1] = e
    <2>1. l \in Nat BY LenProperties
    <2> QED BY <1>1, <2>1, AtAppend, Zenon
  <1>6. p \in Seq(Setting \cup {Nothing}) /\ Len(p) = l /\ \A i \in 1 .. l : p[i] = content[q[i]]
    BY <1>2, SettingsAre, Zenon
  <1>7. Settings(t, content) = [i \in 1 .. l + 1 |-> content[t[i]]] BY <1>4 DEF Settings
  <1> HIDE DEF l, p
  <1>8. /\ Append(p, content[e]) = [i \in 1 .. l + 1 |-> Append(p, content[e])[i]]
        /\ \A i \in 1 .. l : Append(p, content[e])[i] = p[i]
        /\ Append(p, content[e])[l + 1] = content[e]
    BY <1>3, <1>6
  <1>9. \A i \in 1 .. l + 1 : i \in 1 .. l \/ i = l + 1 BY <1>4
  <1>10. ASSUME NEW i \in 1 .. l + 1 PROVE content[t[i]] = Append(p, content[e])[i]
    <2>1. CASE i \in 1 .. l
      <3>1. t[i] = q[i] /\ Append(p, content[e])[i] = p[i] /\ p[i] = content[q[i]]
        BY <1>4, <1>6, <1>8, <2>1, Zenon
      <3> QED BY <3>1, Zenon
    <2>2. CASE i = l + 1 BY <1>4, <1>8, <2>2, Zenon
    <2> QED BY <1>9, <2>1, <2>2, Zenon
  <1>11. Settings(t, content) = Append(p, content[e]) BY <1>7, <1>8, <1>10
  <1> QED BY <1>3, <1>11 DEF Requested, Current, p

\* The removal takes the first setting off the queue.
LEMMA RemoveTakes ==
  ASSUME NEW q \in Seq(Entry), TeeiPropertyAssumption, ListInv(q), RemoveEntry,
         NEW t, t = Tail(q)
  PROVE  TakenOff(q, t)
  <1>1. settingPc = "del" /\ settingPc' = "set" /\ UNCHANGED <<content, entry, property>>
    BY DEF RemoveEntry
  <1>2. q # <<>> /\ q[1] \in Entry /\ entry = q[1] BY <1>1, FirstIs DEF ListInv, Taken
  <1> DEFINE l == Len(q)
             p == Settings(q, content)
  <1>3. /\ t \in Seq(Entry) /\ l \in Nat \ {0} /\ Len(t) = l - 1
        /\ \A i \in 1 .. l - 1 : t[i] = q[i + 1]
    BY <1>2, AtTail
  <1>4. content \in [Entry -> Setting \cup {Nothing}] BY DEF ListInv, Live
  <1>6. p \in Seq(Setting \cup {Nothing}) /\ Len(p) = l /\ \A i \in 1 .. l : p[i] = content[q[i]]
    BY <1>4, SettingsAre, Zenon
  <1>7. Settings(t, content) = [i \in 1 .. l - 1 |-> content[t[i]]] BY <1>3 DEF Settings
  <1> HIDE DEF l, p
  <1>8. p # <<>>
    <2>1. Len(p) # 0 /\ Len(<<>>) = 0 BY <1>3, <1>6
    <2> QED BY <2>1, Zenon
  <1>9. /\ Tail(p) \in Seq(Setting \cup {Nothing}) /\ Len(Tail(p)) = l - 1
        /\ \A i \in 1 .. l - 1 : Tail(p)[i] = p[i + 1]
    BY <1>6, <1>8, HeadTailProperties
  <1>10. Tail(p) = [i \in 1 .. l - 1 |-> Tail(p)[i]]
    <2> DEFINE r == Tail(p)
    <2>1. r \in Seq(Setting \cup {Nothing}) /\ Len(r) = l - 1 BY <1>9
    <2> HIDE DEF r
    <2>2. r \in [1 .. l - 1 -> Setting \cup {Nothing}] BY <2>1, LenProperties
    <2>3. r = [i \in 1 .. l - 1 |-> r[i]] BY <2>2
    <2> QED BY <2>3 DEF r
  <1>11. \A i \in 1 .. l - 1 : i + 1 \in 1 .. l BY <1>3
  <1>12. ASSUME NEW i \in 1 .. l - 1 PROVE content[t[i]] = Tail(p)[i]
    <2>1. t[i] = q[i + 1] /\ i + 1 \in 1 .. l BY <1>3, <1>11
    <2>2. Tail(p)[i] = p[i + 1] BY <1>9
    <2>3. p[i + 1] = content[q[i + 1]] BY <1>6, <2>1
    <2> QED BY <2>1, <2>2, <2>3
  <1>13. Settings(t, content) = Tail(p) BY <1>7, <1>10, <1>12
  <1>14. Head(p) = content[entry]
    <2>1. 1 \in 1 .. l BY <1>3, HasFirst, Zenon
    <2>2. Head(p) = p[1] BY <1>6, <1>8
    <2> QED BY <1>2, <1>6, <2>1, <2>2
  <1> QED BY <1>1, <1>8, <1>13, <1>14 DEF TakenOff, Current, p

\* property_set applies it.
LEMMA SetPropertyApplies ==
  ASSUME NEW q \in Seq(Entry), TeeiPropertyAssumption, ListInv(q), SetProperty
  PROVE  Applied(q, q)
  <1>1. /\ settingPc = "set" /\ entry \in Entry /\ content' = [content EXCEPT ![entry] = Nothing]
        /\ settingPc' = "wait" /\ property' = content[entry]
    BY DEF SetProperty
  <1>2. content[entry] # Nothing /\ \A i \in 1 .. Len(q) : q[i] # entry
    BY <1>1 DEF ListInv, Taken
  <1>3. content \in [Entry -> Setting \cup {Nothing}] BY DEF ListInv, Live
  <1>4. \A x \in Entry : x # entry => content'[x] = content[x] BY <1>1, <1>3
  <1>5. \A i \in 1 .. Len(q) : q[i] \in Entry BY ElementOfSeq
  <1>6. \A i \in 1 .. Len(q) : content'[q[i]] = content[q[i]] BY <1>2, <1>4, <1>5, Zenon
  <1>7. Settings(q, content') = Settings(q, content) BY <1>6, SettingsKept
  <1> QED BY <1>1, <1>2, <1>7 DEF Applied, Current

\* Every step keeps the invariant, for the entries then in the list, and is a
\* step of the queue or changes nothing of it.
LEMMA PropertyStep ==
  ASSUME TeeiPropertyAssumption, NEW q \in Seq(Entry), ListInv(q), [PropertyNext]_propertyVars
  PROVE  \E t \in Seq(Entry) : ListInv(t)' /\ QueueStep(q, t)
  <1>1. CASE \E s \in Setting : VfsRequest(s)
    <2>1. PICK s \in Setting : VfsRequest(s) BY <1>1
    <2>2. ListInv(q)' BY <2>1, VfsRequestKeeps
    <2>3. Stays(q, q) BY <2>1, VfsRequestStays
    <2> QED BY <2>2, <2>3 DEF QueueStep
  <1>2. CASE VfsLock
    <2>1. ListInv(q)' BY <1>2, VfsLockKeeps
    <2>2. Stays(q, q) BY <1>2, OthersStay DEF VfsLock, list
    <2> QED BY <2>1, <2>2 DEF QueueStep
  <1>3. CASE VfsUnlock \/ VfsPost
    <2>1. ListInv(q)' BY <1>3, VfsUnlockKeeps
    <2>2. Stays(q, q) BY <1>3, OthersStay DEF VfsUnlock, VfsPost, list
    <2> QED BY <2>1, <2>2 DEF QueueStep
  <1>4. CASE VfsAdd
    <2>1. /\ UNCHANGED <<content, sem, mutex, settingPc, entry, property>>
          /\ teei_list_add_tail
      BY <1>4 DEF VfsAdd
    <2>2. CASE vfs.pc = "add3"
      <3>1. /\ next' = [next EXCEPT ![vfs.last] = vfs.e] /\ vfs' = [vfs EXCEPT !.pc = "add4"]
            /\ UNCHANGED prev
        BY <2>1, <2>2 DEF teei_list_add_tail, Vfs
      <3>2. PICK e : e = vfs.e OBVIOUS
      <3>3. PICK t : t = Append(q, e) OBVIOUS
      <3>4. t \in Seq(Entry) /\ ListInv(t)' BY <2>1, <2>2, <3>1, <3>2, <3>3, Add3Keeps
      <3>5. Requested(q, t) BY <2>1, <2>2, <3>2, <3>3, Add3Requests
      <3> QED BY <3>4, <3>5 DEF QueueStep
    <2>3. CASE vfs.pc # "add3"
      <3>1. ListInv(q)'
        <4>1. CASE vfs.pc = "add1"
          <5>1. /\ prev' = [prev EXCEPT ![vfs.e] = prev[Head0]] /\ UNCHANGED next
                /\ vfs' = [vfs EXCEPT !.pc = "add2", !.last = prev[Head0]]
            BY <2>1, <4>1 DEF teei_list_add_tail
          <5> QED BY <2>1, <4>1, <5>1, Add1Keeps
        <4>2. CASE vfs.pc = "add2"
          <5>1. /\ next' = [next EXCEPT ![vfs.e] = Head0] /\ UNCHANGED prev
                /\ vfs' = [vfs EXCEPT !.pc = "add3"]
            BY <2>1, <4>2 DEF teei_list_add_tail, Vfs
          <5> QED BY <2>1, <4>2, <5>1, Add2Keeps
        <4>3. CASE vfs.pc = "add4"
          <5>1. /\ prev' = [prev EXCEPT ![Head0] = vfs.e] /\ UNCHANGED next
                /\ vfs' = [vfs EXCEPT !.pc = "unlock"]
            BY <2>1, <4>3 DEF teei_list_add_tail, Vfs
          <5> QED BY <2>1, <4>3, <5>1, Add4Keeps
        <4> QED BY <2>1, <2>3, <4>1, <4>2, <4>3 DEF teei_list_add_tail
      <3>2. Stays(q, q) BY <2>1, OthersStay
      <3> QED BY <3>1, <3>2 DEF QueueStep
    <2> QED BY <2>2, <2>3
  <1>5. CASE Wait \/ FirstEntry \/ Lock
    <2>1. ListInv(q)' BY <1>5, WaitKeeps
    <2>2. /\ settingPc # "set" /\ settingPc' # "set" /\ UNCHANGED <<content, property>>
      BY <1>5 DEF Wait, FirstEntry, Lock, list
    <2>3. Stays(q, q) BY <2>2 DEF Stays, Settings, Current
    <2> QED BY <2>1, <2>3 DEF QueueStep
  <1>6. CASE RemoveEntry
    <2>1. PICK t : t = Tail(q) OBVIOUS
    <2>2. t \in Seq(Entry) /\ ListInv(t)' BY <1>6, <2>1, RemoveEntryKeeps
    <2>3. TakenOff(q, t) BY <1>6, <2>1, RemoveTakes
    <2> QED BY <2>2, <2>3 DEF QueueStep
  <1>7. CASE SetProperty
    <2>1. ListInv(q)' BY <1>7, SetPropertyKeeps
    <2>2. Applied(q, q) BY <1>7, SetPropertyApplies
    <2> QED BY <2>1, <2>2 DEF QueueStep
  <1>8. CASE UNCHANGED propertyVars
    <2>1. UNCHANGED <<next, prev, content, sem, mutex, vfs, settingPc, entry, property>>
      BY <1>8 DEF propertyVars, list
    <2>2. ListInv(q)'
      <3>1. LinkType' /\ Live(q)' BY <2>1, Zenon DEF ListInv, LinkType, Live
      <3>2. Threads' BY <2>1, Zenon DEF ListInv, Threads
      <3>3. Linked(q)' BY <2>1, LinksStay DEF ListInv
      <3>4. Added(q)' BY <2>1, Zenon DEF ListInv, Added, At
      <3>5. Taken(q)' /\ Counted(q)' BY <2>1, Zenon DEF ListInv, Taken, Counted
      <3> QED BY <3>1, <3>2, <3>3, <3>4, <3>5 DEF ListInv
    <2>3. Stays(q, q) BY <2>1, OthersStay
    <2> QED BY <2>2, <2>3 DEF QueueStep
  <1> QED BY <1>1, <1>2, <1>3, <1>4, <1>5, <1>6, <1>7, <1>8
          DEF PropertyNext, VfsStep, SettingStep

\* The invariant says that the list is whole.
LEMMA ListWhole ==
  ASSUME TeeiPropertyAssumption, PropertyInv PROVE ListIsWhole
  <1>1. PICK q \in Seq(Entry) : ListInv(q) BY DEF PropertyInv
  <1>2. Threads /\ Linked(q) /\ Distinct(q) /\ Live(q) /\ Counted(q) BY <1>1 DEF ListInv, Linked
  <1>3. Walk = q BY <1>2, WalkIs DEF Walk, Linked
  <1>4. settingPc \in {"lock", "del"} => entry \in Entry /\ entry = next[Head0]
    BY <1>1, FirstIs DEF ListInv, Taken
  <1>5. ASSUME mutex = None
        PROVE  /\ \A i \in 1 .. Len(q) - 1 : prev[q[i + 1]] = q[i]
               /\ prev[Head0] = (IF q = <<>> THEN Head0 ELSE q[Len(q)])
               /\ q # <<>> => prev[q[1]] = Head0 /\ next[q[Len(q)]] = Head0
               /\ \A i \in 1 .. Len(q) : content[q[i]] # Nothing
               /\ Len(q) = sem + (IF vfs.pc = "post" THEN 1 ELSE 0)
                               + (IF settingPc \in {"first", "lock"} THEN 1 ELSE 0)
    <2> DEFINE l == Len(q)
    <2>1. vfs.pc \in {"idle", "lock", "post"} /\ settingPc # "del"
      BY <1>2, <1>5 DEF Threads, Adding, TeeiPropertyAssumption
    <2>2. /\ \A i \in 0 .. l : prev[At(q, i + 1)] = At(q, i)
          /\ \A i \in 0 .. l : next[At(q, i)] = At(q, i + 1)
      BY <1>2, <2>1 DEF Linked, Forward
    <2>3. /\ l \in Nat
          /\ \A i \in Int : i \notin 1 .. l => At(q, i) = Head0
          /\ \A i \in 1 .. l : At(q, i) = q[i]
      BY <1>2, AtIs
    <2>4. Len(q) = sem + (IF vfs.pc = "post" THEN 1 ELSE 0)
                       + (IF settingPc \in {"first", "lock"} THEN 1 ELSE 0)
      BY <1>2, <2>1 DEF Counted
    <2>5. q = <<>> <=> l = 0 OBVIOUS
    <2> HIDE DEF l
    <2>6. ASSUME NEW i \in 1 .. l - 1 PROVE prev[q[i + 1]] = q[i]
      <3>1. i \in 0 .. l /\ i \in 1 .. l /\ i + 1 \in 1 .. l BY <2>3
      <3> QED BY <2>2, <2>3, <3>1
    <2>7. l \in 0 .. l /\ l + 1 \in Int /\ l + 1 \notin 1 .. l BY <2>3
    <2>8. prev[Head0] = At(q, l) /\ next[At(q, l)] = Head0 BY <2>2, <2>3, <2>7
    <2>9. CASE l = 0
      <3>1. 0 \in Int /\ 0 \notin 1 .. l BY <2>9
      <3>2. At(q, l) = Head0 BY <2>3, <2>9, <3>1
      <3> QED BY <1>2, <2>4, <2>5, <2>6, <2>8, <2>9, <3>2 DEF Live, l
    <2>10. CASE l # 0
      <3>1. /\ l \in 1 .. l /\ 1 \in 1 .. l /\ 0 \in 0 .. l /\ 0 \notin 1 .. l /\ 0 \in Int
            /\ 0 + 1 = 1
        BY <2>3, <2>10
      <3>2. At(q, l) = q[l] /\ At(q, 1) = q[1] /\ At(q, 0) = Head0 BY <2>3, <3>1
      <3>3. prev[At(q, 0 + 1)] = At(q, 0) BY <2>2, <3>1
      <3>4. prev[q[1]] = Head0 BY <3>1, <3>2, <3>3
      <3> QED BY <1>2, <2>4, <2>5, <2>6, <2>8, <2>10, <3>2, <3>4 DEF Live, l
    <2> QED BY <2>9, <2>10
  <1> QED BY <1>3, <1>4, <1>5, Zenon DEF ListIsWhole

\* teei_list_add_tail, teei_list_del and the semaphore, for any number of
\* entries: whenever the lock is free the links of the list mirror each other and
\* it holds as many live entries as the semaphore counts; and the entry that is
\* read outside the lock is still the first one under it.
THEOREM ListSafe == TeeiPropertyAssumption => (PropertySpec => []ListIsWhole)
  <1> SUFFICES ASSUME TeeiPropertyAssumption PROVE PropertySpec => []ListIsWhole
    OBVIOUS
  <1>1. PropertyInit => PropertyInv
    <2>1. <<>> \in Seq(Entry) OBVIOUS
    <2> QED BY <2>1, PropertyStarts DEF PropertyInv
  <1>2. PropertyInv /\ [PropertyNext]_propertyVars => PropertyInv'
    BY PropertyStep DEF PropertyInv
  <1>3. PropertyInv => ListIsWhole BY ListWhole
  <1> QED BY <1>1, <1>2, <1>3, PTL DEF PropertySpec

\* A step of the list is a step of the queue.
LEMMA QueueSteps ==
  ASSUME TeeiPropertyAssumption, PropertyInv, [PropertyNext]_propertyVars
  PROVE  PropertyInv' /\ [Q!Next]_(Q!vars)
  <1>1. PICK q \in Seq(Entry) : ListInv(q) BY DEF PropertyInv
  <1>2. PICK t \in Seq(Entry) : ListInv(t)' /\ QueueStep(q, t) BY <1>1, PropertyStep
  <1>3. Forward(q, next) /\ Distinct(q) BY <1>1 DEF ListInv, Linked
  <1>4. Forward(t, next') /\ Distinct(t) BY <1>2 DEF ListInv, Linked, Forward, Distinct, At
  <1>5. Walk = q /\ Walk' = t BY <1>3, <1>4, WalkIs DEF Walk
  <1> DEFINE p == [i \in 1 .. Len(Walk) |-> content[Walk[i]]]
             c == IF settingPc = "set" THEN content[entry] ELSE Nothing
  <1>6. p = Settings(q, content) /\ p' = Settings(t, content') BY <1>5 DEF Settings
  <1>7. c = Current /\ c' = Current' BY DEF Current
  <1>8. PropertyInv' BY <1>2 DEF PropertyInv
  <1>9. [Q!Next]_(Q!vars)
    <2>1. CASE Stays(q, t) BY <1>6, <1>7, <2>1 DEF Stays, Q!vars
    <2>2. CASE Requested(q, t) BY <1>6, <1>7, <2>2 DEF Requested, Q!Next, Q!Request
    <2>3. CASE TakenOff(q, t) BY <1>6, <1>7, <2>3 DEF TakenOff, Q!Next, Q!Take
    <2>4. CASE Applied(q, t) BY <1>6, <1>7, <2>4 DEF Applied, Q!Next, Q!Apply
    <2> QED BY <1>2, <2>1, <2>2, <2>3, <2>4 DEF QueueStep
  <1> QED BY <1>8, <1>9

\* The list implements the queue, step by step: the settings are taken in the
\* order of the requests, each of them once.
THEOREM QueueRefined ==
  TeeiPropertyAssumption => (PropertySpec => Q!Init /\ [][Q!Next]_(Q!vars))
  <1> SUFFICES ASSUME TeeiPropertyAssumption
               PROVE  PropertySpec => Q!Init /\ [][Q!Next]_(Q!vars)
    OBVIOUS
  <1>1. PropertyInit => PropertyInv /\ Q!Init
    <2> SUFFICES ASSUME PropertyInit PROVE PropertyInv /\ Q!Init OBVIOUS
    <2>1. <<>> \in Seq(Entry) /\ ListInv(<<>>) BY PropertyStarts
    <2>2. Forward(<<>>, next) /\ Distinct(<<>>) BY <2>1 DEF ListInv, Linked
    <2>3. Walk = <<>> BY <2>1, <2>2, WalkIs DEF Walk
    <2>4. Q!Init BY <2>3 DEF Q!Init, PropertyInit
    <2> QED BY <2>1, <2>4 DEF PropertyInv
  <1>2. PropertyInv /\ [PropertyNext]_propertyVars => PropertyInv' /\ [Q!Next]_(Q!vars)
    BY QueueSteps
  <1> QED BY <1>1, <1>2, PTL DEF PropertySpec

-----------------------------------------------------------------------------
\* Where main is, and what the threads have of it.
MainInv ==
  /\ setup.argv \in Seq(Option) /\ setup.drivers \in BOOLEAN /\ setup.minmem \in BOOLEAN
  /\ mainPc \in {"start", "options", "exited", "vfs", "serving"}
  /\ optind \in 1 .. Len(setup.argv) + 1
  /\ mainPc # "serving" => soterPc = "none"
  /\ mainPc \in {"vfs", "serving"} => optind > Len(setup.argv)

\* The table with its count and its flag, before the built-in driver may have
\* run over them.
TableInv ==
  /\ uuids \in Seq({"r", "t", "built_in"}) /\ Len(uuids) <= MaxDrvUuids
  /\ \/ /\ uuid_count = Len(uuids)
        /\ \A k \in 1 .. Len(uuids) : uuids[k] = "t" <=> (k - 1) \in flag
        /\ \A b \in flag : b \in Nat /\ b < Len(uuids)
        /\ mainPc \in {"vfs", "serving"} /\ ~setup.minmem =>
             uuids # <<>> /\ uuids[Len(uuids)] = "built_in"
     \/ /\ uuid_count = CountOverwritten + 1
        /\ Len(uuids) = MaxDrvUuids /\ ~setup.minmem
        /\ mainPc \in {"vfs", "serving", "exited"}

\* How many of the entries come from the command line, and which: those of the
\* options read so far that name a driver, as far as the table reaches.
FromOptions == IF mainPc \in {"vfs", "serving"} /\ ~setup.minmem
               THEN Len(uuids) - 1 ELSE Len(uuids)
Entered ==
  \A k \in Wanted : k < optind /\ Place(k) <= MaxDrvUuids => uuids[Place(k)] = setup.argv[k]
EntriesInv ==
  uuid_count = Len(uuids) =>
    /\ FromOptions = IF Place(optind - 1) < MaxDrvUuids THEN Place(optind - 1) ELSE MaxDrvUuids
    /\ Entered

\* What vold and init set.
CryptoType ==
  [state   : {Unset, "encrypted", "unencrypted", "unsupported"},
   type    : {Unset, "file", "block"},
   decrypt : {Unset, "trigger_reset_main", "trigger_restart_framework"},
   vendor  : {Unset, "unencrypted"}]

\* What the threads have found is still so when they act on it.
ThreadInv ==
  /\ crypto \in CryptoType
  /\ soterPc = "announce" => soter.on
  /\ loadPc = "unlock" => Ready(crypto)
  /\ AnnouncedIsSo

\* The inductive invariant of the start.
BootInv == MainInv /\ TableInv /\ EntriesInv /\ TableIsExact /\ ThreadInv

-----------------------------------------------------------------------------
(***************************************************************************)
(* The start.                                                              *)
(***************************************************************************)
\* What overwrites the count of the drivers is more than the table can hold.
LEMMA Overwritten ==
  ASSUME TeeiBootAssumption
  PROVE  /\ MaxDrvUuids \in Nat /\ 0 < MaxDrvUuids /\ CountOverwritten \in Nat
         /\ MaxDrvUuids < CountOverwritten + 1
<1>1. CountOverwritten \in Nat
  BY SMT DEF CountOverwritten
<1> QED
  BY <1>1 DEF TeeiBootAssumption

\* A property that is not set says nothing about the data.
LEMMA UnsetSilent ==
  Unset \notin {"unencrypted", "unsupported", "file", "trigger_restart_framework"}
  BY Zenon DEF Unset

\* The places of the drivers: each option that names one takes the next place.
LEMMA Places ==
  ASSUME setup.argv \in Seq(Option)
  PROVE  /\ IsFiniteSet(Wanted) /\ Wanted \subseteq 1 .. Len(setup.argv)
         /\ \A k \in Nat : Place(k) \in Nat /\ Place(k) <= Cardinality(Wanted)
         /\ \A k \in Nat : \A j \in 0 .. k : Place(j) <= Place(k)
         /\ \A k \in Nat \ {0} : Place(k) = IF k \in Wanted THEN Place(k - 1) + 1 ELSE Place(k - 1)
         /\ Place(0) = 0 /\ Place(Len(setup.argv)) = Cardinality(Wanted)
<1> DEFINE W(k) == {j \in Wanted : j <= k}
<1>1. Len(setup.argv) \in Nat /\ Wanted \subseteq 1 .. Len(setup.argv)
  BY DEF Wanted
<1> HIDE DEF W
<1>a. \A k, j : j \in W(k) <=> j \in Wanted /\ j <= k
  BY DEF W
<1>b. \A j \in Wanted : j \in Nat /\ j # 0 /\ j <= Len(setup.argv)
  BY <1>1
<1>2. IsFiniteSet(Wanted)
  <2>1. IsFiniteSet(1 .. Len(setup.argv))
    BY <1>1, FS_Interval
  <2> QED
    BY <1>1, <2>1, FS_Subset
<1>3. \A k : Place(k) = Cardinality(W(k))
  BY DEF Place, W
<1>4. \A k : W(k) \subseteq Wanted /\ IsFiniteSet(W(k)) /\ Cardinality(W(k)) \in Nat
             /\ Cardinality(W(k)) <= Cardinality(Wanted)
  <2> TAKE k
  <2>1. W(k) \subseteq Wanted
    BY <1>a
  <2> QED
    BY <1>2, <2>1, FS_Subset, FS_CardinalityType
<1>5. ASSUME NEW k \in Nat, NEW j \in 0 .. k PROVE Cardinality(W(j)) <= Cardinality(W(k))
  <2>1. W(j) \subseteq W(k)
    BY <1>b, <1>a
  <2> QED
    BY <1>4, <2>1, FS_Subset
<1>6. ASSUME NEW k \in Nat \ {0}
      PROVE  Cardinality(W(k)) = IF k \in Wanted THEN Cardinality(W(k - 1)) + 1 ELSE Cardinality(W(k - 1))
  <2>1. CASE k \in Wanted
    <3>1. W(k) = W(k - 1) \cup {k} /\ k \notin W(k - 1)
      <4>1. \A j \in Wanted : j <= k <=> (j <= k - 1 \/ j = k)
        BY <1>b
      <4>2. ~(k <= k - 1)
        OBVIOUS
      <4> QED
        BY <1>a, <2>1, <4>1, <4>2, Zenon
    <3>2. Cardinality(W(k - 1) \cup {k}) = Cardinality(W(k - 1)) + 1
      BY <1>4, <3>1, FS_AddElement
    <3> QED
      BY <2>1, <3>1, <3>2
  <2>2. CASE k \notin Wanted
    <3>1. W(k) = W(k - 1)
      <4>1. \A j \in Wanted : j <= k <=> (j <= k - 1 \/ j = k)
        BY <1>b
      <4> QED
        BY <1>a, <2>2, <4>1, Zenon
    <3> QED
      BY <2>2, <3>1
  <2> QED
    BY <2>1, <2>2
<1>7. W(0) = {} /\ W(Len(setup.argv)) = Wanted
  BY <1>b, <1>a
<1>8. Cardinality(W(0)) = 0 /\ Cardinality(W(Len(setup.argv))) = Cardinality(Wanted)
  BY <1>7, FS_EmptySet
<1>9. \A k \in Nat : Place(k) \in Nat /\ Place(k) <= Cardinality(Wanted)
  BY <1>3, <1>4
<1>10. \A k \in Nat : \A j \in 0 .. k : Place(j) <= Place(k)
  BY <1>3, <1>5
<1>11. \A k \in Nat \ {0} : Place(k) = IF k \in Wanted THEN Place(k - 1) + 1 ELSE Place(k - 1)
  BY <1>3, <1>6
<1>12. Place(0) = 0 /\ Place(Len(setup.argv)) = Cardinality(Wanted)
  BY <1>3, <1>8
<1> QED
  BY <1>1, <1>2, <1>9, <1>10, <1>11, <1>12

\* The command line stays what it is.
LEMMA WantedStays ==
  ASSUME UNCHANGED setup
  PROVE  Wanted' = Wanted /\ \A k : Place(k)' = Place(k)
  BY DEF Wanted, Place

\* The TEE keeps what it was given.
LEMMA GivenStays == ASSUME TableIsExact, UNCHANGED <<setup, soter>> PROVE TableIsExact'
  BY WantedStays DEF TableIsExact

\* The entries stay as they are where the table does.
LEMMA EntriesStay ==
  ASSUME EntriesInv, UNCHANGED <<setup, optind, uuids, uuid_count>>, FromOptions' = FromOptions
  PROVE  EntriesInv'
  BY WantedStays DEF EntriesInv, Entered

\* The daemon starts in the invariant.
LEMMA InitBoot == ASSUME TeeiBootAssumption, BootInit PROVE BootInv
<1>1. MainInv
  BY DEF BootInit, MainInv, TeeiBootAssumption
<1>2. TableInv
  BY Overwritten DEF BootInit, TableInv
<1>3. EntriesInv
  <2>1. optind = 1 /\ uuids = <<>> /\ FromOptions = 0
    BY DEF BootInit, FromOptions
  <2>2. Place(0) = 0 /\ \A k \in Wanted : ~(k < 1)
    BY <1>1, Places DEF MainInv
  <2> QED
    BY <2>1, <2>2, Overwritten DEF EntriesInv, Entered
<1>4. TableIsExact
  BY DEF BootInit, TableIsExact
<1>5. ThreadInv
  BY UnsetSilent DEF BootInit, ThreadInv, CryptoType, CryptoInit, AnnouncedIsSo
<1> QED
  BY <1>1, <1>2, <1>3, <1>4, <1>5 DEF BootInv

\* A step that leaves the table and main alone keeps what is known of them.
LEMMA TableStays ==
  ASSUME BootInv, UNCHANGED <<setup, mainPc, optind, uuids, uuid_count, flag>>,
         mainPc # "serving" => soterPc' = "none"
  PROVE  MainInv' /\ TableInv' /\ EntriesInv'
<1>1. MainInv'
  BY DEF BootInv, MainInv
<1>2. TableInv'
  BY DEF BootInv, TableInv
<1>3. EntriesInv'
  BY EntriesStay DEF BootInv, FromOptions
<1> QED
  BY <1>1, <1>2, <1>3

\* The options read so far have the places so far.
LEMMA PlacesBefore ==
  ASSUME setup.argv \in Seq(Option), optind \in 1 .. Len(setup.argv) + 1,
         NEW k \in Wanted, k < optind
  PROVE  Place(k) \in 1 .. Place(optind - 1)
<1>1. /\ Len(setup.argv) \in Nat /\ k \in 1 .. Len(setup.argv) /\ optind - 1 \in Nat
      /\ k \in 0 .. (optind - 1) /\ k - 1 \in Nat /\ k \in Nat \ {0}
  BY DEF Wanted
<1>2. Place(k) <= Place(optind - 1) /\ Place(k) = Place(k - 1) + 1
  BY <1>1, Places
<1>3. Place(k) \in Nat /\ Place(k - 1) \in Nat /\ Place(optind - 1) \in Nat
  BY <1>1, Places
<1> QED
  BY <1>2, <1>3

\* A step of main leaves the threads as they are.
LEMMA ThreadStays ==
  ASSUME BootInv, UNCHANGED <<soter, crypto, soterPc, loadPc, unlocked>>,
         unlock_state' \in {unlock_state, UnlockOverwritten}, init' \in {init, "INIT_START"}
  PROVE  ThreadInv'
  BY DEF BootInv, ThreadInv, AnnouncedIsSo, UnlockOverwritten

\* Start: main announces INIT_START.
LEMMA StartKeeps == ASSUME BootInv, Start PROVE BootInv'
<1>1. MainInv'
  BY DEF BootInv, MainInv, Start
<1>2. TableInv'
  BY DEF BootInv, TableInv, Start, param
<1>3. EntriesInv'
  BY EntriesStay DEF BootInv, FromOptions, Start, param
<1>4. TableIsExact'
  BY GivenStays DEF BootInv, Start
<1>5. ThreadInv'
  BY ThreadStays DEF Start
<1> QED
  BY <1>1, <1>2, <1>3, <1>4, <1>5 DEF BootInv

\* The entry of a driver: the flag names it if it is a TA, and keeps the others.
LEMMA AppendKeeps ==
  ASSUME TeeiBootAssumption, TableInv, uuid_count = Len(uuids), uuid_count < MaxDrvUuids,
         NEW o \in {"r", "t", "built_in"},
         uuids' = Append(uuids, o),
         flag' = IF o = "t" THEN flag \cup {uuid_count} ELSE flag \ {uuid_count}
  PROVE  /\ uuids' \in Seq({"r", "t", "built_in"}) /\ Len(uuids') = Len(uuids) + 1
         /\ uuids'[Len(uuids')] = o
         /\ \A k \in 1 .. Len(uuids') : uuids'[k] = "t" <=> (k - 1) \in flag'
         /\ \A b \in flag' : b \in Nat /\ b < Len(uuids')
<1>1. uuids \in Seq({"r", "t", "built_in"}) /\ Len(uuids) \in Nat
  BY DEF TableInv
<1>2. /\ uuids' \in Seq({"r", "t", "built_in"}) /\ Len(uuids') = Len(uuids) + 1
      /\ uuids'[Len(uuids')] = o
      /\ \A k \in 1 .. Len(uuids) : uuids'[k] = uuids[k]
  BY <1>1
<1>3. /\ \A k \in 1 .. Len(uuids) : uuids[k] = "t" <=> (k - 1) \in flag
      /\ \A b \in flag : b \in Nat /\ b < Len(uuids)
  BY <1>1, Overwritten DEF TableInv
<1>4. ASSUME NEW k \in 1 .. Len(uuids')
      PROVE  uuids'[k] = "t" <=> (k - 1) \in flag'
  <2>1. CASE k = Len(uuids')
    BY <1>1, <1>2, <2>1
  <2>2. CASE k # Len(uuids')
    <3>1. k \in 1 .. Len(uuids) /\ k - 1 # uuid_count
      BY <1>1, <1>2, <2>2
    <3> QED
      BY <1>2, <1>3, <3>1
  <2> QED
    BY <2>1, <2>2
<1>5. \A b \in flag' : b \in Nat /\ b < Len(uuids')
  BY <1>1, <1>2, <1>3
<1> QED
  BY <1>2, <1>4, <1>5

\* ParseOption: one argument.
LEMMA ParseOptionKeeps == ASSUME TeeiBootAssumption, BootInv, ParseOption PROVE BootInv'
<1>1. MainInv'
  BY DEF BootInv, MainInv, ParseOption
<1>2. TableInv'
  <2>1. uuid_count = Len(uuids) /\ mainPc = "options" /\ mainPc' \in {"options", "exited"} /\ UNCHANGED setup
    BY DEF BootInv, TableInv, ParseOption
  <2>2. CASE UNCHANGED param
    BY <2>1, <2>2 DEF BootInv, TableInv, param
  <2>3. CASE ~UNCHANGED param
    <3> DEFINE o == setup.argv[optind]
    <3>1. /\ o \in {"r", "t"} /\ uuid_count < MaxDrvUuids
          /\ uuids' = Append(uuids, o)
          /\ flag' = IF o = "t" THEN flag \cup {uuid_count} ELSE flag \ {uuid_count}
          /\ uuid_count' = uuid_count + 1
      BY <2>3 DEF ParseOption, param
    <3>2. /\ uuids' \in Seq({"r", "t", "built_in"}) /\ Len(uuids') = Len(uuids) + 1
          /\ \A k \in 1 .. Len(uuids') : uuids'[k] = "t" <=> (k - 1) \in flag'
          /\ \A b \in flag' : b \in Nat /\ b < Len(uuids')
      <4> HIDE DEF o
      <4> QED BY <2>1, <3>1, AppendKeeps DEF BootInv
    <3>3. Len(uuids') <= MaxDrvUuids /\ uuid_count' = Len(uuids')
      BY <2>1, <3>1, <3>2 DEF BootInv, TableInv, TeeiBootAssumption
    <3> QED
      BY <2>1, <3>2, <3>3 DEF TableInv
  <2> QED
    BY <2>2, <2>3
<1>3. EntriesInv'
  <2> DEFINE o == setup.argv[optind]
  <2>1. /\ mainPc = "options" /\ mainPc' \in {"options", "exited"} /\ UNCHANGED setup
        /\ uuid_count = Len(uuids) /\ optind' = optind + 1 /\ optind \in 1 .. Len(setup.argv)
    BY DEF BootInv, TableInv, MainInv, ParseOption
  <2>2. FromOptions = Len(uuids) /\ FromOptions' = Len(uuids')
    BY <2>1 DEF FromOptions
  <2>3. /\ uuids \in Seq({"r", "t", "built_in"}) /\ Len(uuids) \in Nat /\ Len(uuids) <= MaxDrvUuids
        /\ MaxDrvUuids \in Nat
    BY Overwritten DEF BootInv, TableInv
  <2>4. /\ Entered
        /\ Len(uuids) = IF Place(optind - 1) < MaxDrvUuids THEN Place(optind - 1) ELSE MaxDrvUuids
    BY <2>1, <2>2 DEF BootInv, EntriesInv
  <2>5. /\ Place(optind) = IF optind \in Wanted THEN Place(optind - 1) + 1 ELSE Place(optind - 1)
        /\ Place(optind - 1) \in Nat
    <3>1. setup.argv \in Seq(Option)
      BY DEF BootInv, MainInv
    <3>2. optind \in Nat \ {0} /\ optind - 1 \in Nat
      BY <2>1
    <3> QED
      BY <3>1, <3>2, Places
  <2>6. optind \in Wanted <=> setup.drivers /\ o \in {"r", "t"}
    BY <2>1 DEF Wanted
  <2>7. Place(optind - 1)' = Place(optind)
    <3>1. optind' - 1 = optind /\ Wanted' = Wanted
      BY <2>1, WantedStays
    <3> QED
      BY <3>1 DEF Place
  <2>8. CASE optind \notin Wanted \/ uuid_count >= MaxDrvUuids
    <3>1. UNCHANGED <<uuids, uuid_count>>
      <4>1. ~(o \in {"r", "t"} /\ setup.drivers /\ uuid_count < MaxDrvUuids)
        BY <2>1, <2>3, <2>6, <2>8
      <4> QED
        BY <4>1 DEF ParseOption, param
    <3>2. Len(uuids) = IF Place(optind) < MaxDrvUuids THEN Place(optind) ELSE MaxDrvUuids
      BY <2>1, <2>3, <2>4, <2>5, <2>8
    <3>3. optind \in Wanted => ~(Place(optind) <= MaxDrvUuids)
      BY <2>1, <2>3, <2>4, <2>5, <2>8
    <3>4. ASSUME NEW k \in Wanted, k < optind + 1, Place(k) <= MaxDrvUuids
          PROVE  uuids[Place(k)] = setup.argv[k]
      <4>1. k \in Nat /\ optind \in Nat
        BY <2>1 DEF Wanted
      <4>2. k < optind
        BY <2>1, <3>3, <3>4, <4>1
      <4> QED
        BY <2>4, <3>4, <4>2 DEF Entered
    <3>5. Entered'
      BY <2>1, <3>1, <3>4, WantedStays DEF Entered
    <3> QED
      BY <2>2, <2>7, <3>1, <3>2, <3>5 DEF EntriesInv
  <2>9. CASE optind \in Wanted /\ uuid_count < MaxDrvUuids
    <3>1. uuids' = Append(uuids, o)
      <4>1. setup.drivers /\ o \in {"r", "t"} /\ ~(uuid_count >= MaxDrvUuids)
        BY <2>1, <2>3, <2>6, <2>9
      <4> QED
        BY <4>1 DEF ParseOption
    <3>2. Place(optind - 1) = Len(uuids) /\ Place(optind) = Len(uuids) + 1
      BY <2>1, <2>3, <2>4, <2>5, <2>9
    <3>3. /\ Len(uuids') = Len(uuids) + 1 /\ uuids'[Len(uuids) + 1] = o
          /\ \A k \in 1 .. Len(uuids) : uuids'[k] = uuids[k]
      <4>1. o \in {"r", "t"}
        BY <2>6, <2>9
      <4> HIDE DEF o
      <4> QED BY <2>3, <3>1, <4>1
    <3>4. Len(uuids') = IF Place(optind) < MaxDrvUuids THEN Place(optind) ELSE MaxDrvUuids
      BY <2>1, <2>3, <2>9, <3>2, <3>3
    <3>5. ASSUME NEW k \in Wanted, k < optind + 1, Place(k) <= MaxDrvUuids
          PROVE  uuids'[Place(k)] = setup.argv[k]
      <4>1. k \in Nat /\ optind \in Nat
        BY <2>1 DEF Wanted
      <4>2. CASE k = optind
        BY <3>2, <3>3, <4>2
      <4>3. CASE k # optind
        <5>1. k < optind
          BY <3>5, <4>1, <4>3
        <5>2. Place(k) \in 1 .. Len(uuids)
          BY <2>1, <2>3, <3>2, <5>1, PlacesBefore DEF BootInv, MainInv
        <5> QED
          BY <2>4, <3>3, <3>5, <5>1, <5>2 DEF Entered
      <4> QED
        BY <4>2, <4>3
    <3>6. Entered'
      BY <2>1, <3>5, WantedStays DEF Entered
    <3> QED
      BY <2>2, <2>7, <3>4, <3>6 DEF EntriesInv
  <2> QED
    BY <2>1, <2>3, <2>8, <2>9
<1>4. TableIsExact'
  BY GivenStays DEF BootInv, ParseOption, outside
<1>5. ThreadInv'
  BY ThreadStays DEF ParseOption, outside
<1> QED
  BY <1>1, <1>2, <1>3, <1>4, <1>5 DEF BootInv

\* AddBuiltIn: the driver that is built in finds its place, or runs over what
\* lies behind the table.
LEMMA AddBuiltInKeeps == ASSUME TeeiBootAssumption, BootInv, AddBuiltIn PROVE BootInv'
<1>1. MainInv'
  BY DEF BootInv, MainInv, AddBuiltIn
<1>2. TableInv'
  <2>1. uuid_count = Len(uuids) /\ mainPc' = "vfs" /\ UNCHANGED setup
    BY DEF BootInv, TableInv, AddBuiltIn
  <2>2. uuid_count < MaxDrvUuids => ~(uuid_count >= MaxDrvUuids)
    BY <2>1, Overwritten DEF BootInv, TableInv
  <2>3. CASE setup.minmem
    <3>1. UNCHANGED <<uuids, uuid_count, flag>>
      BY <2>3 DEF AddBuiltIn, param
    <3> QED
      BY <2>1, <2>3, <3>1 DEF BootInv, TableInv, AddBuiltIn
  <2>4. CASE ~setup.minmem /\ uuid_count < MaxDrvUuids
    <3>1. uuids' = Append(uuids, "built_in") /\ uuid_count' = uuid_count + 1 /\ flag' = flag
      BY <2>2, <2>4 DEF AddBuiltIn
    <3>2. \A b \in flag : b # uuid_count
      BY <2>1, <2>4, Overwritten DEF BootInv, TableInv
    <3>3. flag' = flag \ {uuid_count}
      BY <3>1, <3>2
    <3>4. /\ uuids' \in Seq({"r", "t", "built_in"}) /\ Len(uuids') = Len(uuids) + 1
          /\ uuids'[Len(uuids')] = "built_in"
          /\ \A k \in 1 .. Len(uuids') : uuids'[k] = "t" <=> (k - 1) \in flag'
          /\ \A b \in flag' : b \in Nat /\ b < Len(uuids')
      BY <2>1, <2>4, <3>1, <3>3, AppendKeeps DEF BootInv
    <3>5. Len(uuids') <= MaxDrvUuids /\ uuid_count' = Len(uuids') /\ uuids' # <<>>
      BY <2>1, <2>4, <3>1, <3>4 DEF BootInv, TableInv, TeeiBootAssumption
    <3> QED
      BY <2>1, <3>4, <3>5 DEF TableInv
  <2>5. CASE ~setup.minmem /\ ~(uuid_count < MaxDrvUuids)
    <3>1. uuid_count' = CountOverwritten + 1 /\ uuids' = uuids
      BY <2>5 DEF AddBuiltIn
    <3>2. uuids \in Seq({"r", "t", "built_in"}) /\ Len(uuids) = MaxDrvUuids
      BY <2>1, <2>5 DEF BootInv, TableInv, TeeiBootAssumption
    <3> QED
      BY <2>1, <2>5, <3>1, <3>2 DEF TableInv, TeeiBootAssumption
  <2> QED
    BY <2>3, <2>4, <2>5
<1>3. EntriesInv'
  <2>1. uuid_count = Len(uuids) /\ mainPc = "options" /\ mainPc' = "vfs" /\ UNCHANGED <<setup, optind>>
    BY DEF BootInv, TableInv, AddBuiltIn
  <2>2. uuid_count < MaxDrvUuids => ~(uuid_count >= MaxDrvUuids)
    BY <2>1, Overwritten DEF BootInv, TableInv
  <2>3. CASE setup.minmem
    <3>1. UNCHANGED <<uuids, uuid_count>> /\ FromOptions' = FromOptions
      BY <2>1, <2>3 DEF AddBuiltIn, param, FromOptions
    <3> QED
      BY <2>1, <3>1, EntriesStay DEF BootInv
  <2>4. CASE ~setup.minmem /\ uuid_count < MaxDrvUuids
    <3>1. uuids' = Append(uuids, "built_in")
      BY <2>2, <2>4 DEF AddBuiltIn
    <3>2. uuids \in Seq({"r", "t", "built_in"}) /\ Len(uuids) \in Nat
      BY DEF BootInv, TableInv
    <3>3. FromOptions' = FromOptions /\ FromOptions = Len(uuids)
      BY <2>1, <2>4, <3>1, <3>2 DEF FromOptions
    <3>4. \A k \in 1 .. Len(uuids) : uuids'[k] = uuids[k]
      BY <3>1, <3>2
    <3>5. Entered /\ Place(optind - 1) <= Len(uuids)
      BY <2>1, <2>4, <3>2, <3>3, Overwritten DEF BootInv, EntriesInv
    <3>6. \A k \in Wanted : k < optind => Place(k) \in 1 .. Len(uuids)
      <4>1. optind - 1 \in Nat /\ setup.argv \in Seq(Option)
        BY DEF BootInv, MainInv
      <4>2. Place(optind - 1) \in Nat
        BY <4>1, Places
      <4>3. \A k \in Wanted : k < optind => Place(k) \in 1 .. Place(optind - 1)
        BY PlacesBefore DEF BootInv, MainInv
      <4> QED
        BY <3>2, <3>5, <4>2, <4>3
    <3>7. Entered'
      BY <2>1, <3>4, <3>5, <3>6, WantedStays DEF Entered
    <3> QED
      BY <2>1, <3>3, <3>7, WantedStays DEF BootInv, EntriesInv
  <2>5. CASE ~setup.minmem /\ ~(uuid_count < MaxDrvUuids)
    <3>1. uuid_count' = CountOverwritten + 1 /\ uuids' = uuids
      BY <2>5 DEF AddBuiltIn
    <3>2. Len(uuids) <= MaxDrvUuids /\ Len(uuids) \in Nat
      BY DEF BootInv, TableInv
    <3>3. uuid_count' # Len(uuids')
      BY <3>1, <3>2, Overwritten
    <3> QED
      BY <3>3 DEF EntriesInv
  <2> QED
    BY <2>3, <2>4, <2>5
<1>4. TableIsExact'
  BY GivenStays DEF BootInv, AddBuiltIn, outside
<1>5. ThreadInv'
  BY ThreadStays DEF AddBuiltIn, outside
<1> QED
  BY <1>1, <1>2, <1>3, <1>4, <1>5 DEF BootInv

\* OpenVfs: the threads start.
LEMMA OpenVfsKeeps == ASSUME BootInv, OpenVfs PROVE BootInv'
<1>1. MainInv'
  BY DEF BootInv, MainInv, OpenVfs
<1>2. TableInv'
  BY DEF BootInv, TableInv, OpenVfs, param
<1>3. EntriesInv'
  BY EntriesStay DEF BootInv, FromOptions, OpenVfs, param
<1>4. TableIsExact'
  BY GivenStays DEF BootInv, OpenVfs, outside
<1>5. ThreadInv'
  BY DEF BootInv, ThreadInv, AnnouncedIsSo, OpenVfs, outside
<1> QED
  BY <1>1, <1>2, <1>3, <1>4, <1>5 DEF BootInv

\* Restart: all the process knew is gone, what it told others remains.
LEMMA RestartKeeps == ASSUME TeeiBootAssumption, BootInv, BootRestart PROVE BootInv'
<1>1. MainInv'
  BY DEF BootInv, MainInv, BootRestart
<1>2. TableInv'
  BY Overwritten DEF TableInv, BootRestart
<1>3. EntriesInv'
  <2>1. optind' = 1 /\ uuids' = <<>> /\ FromOptions' = 0 /\ UNCHANGED setup
    BY DEF BootRestart, FromOptions
  <2>2. Place(0) = 0 /\ \A k \in Wanted : ~(k < 1)
    BY Places DEF BootInv, MainInv
  <2>3. Place(0)' = 0 /\ \A k \in Wanted' : ~(k < 1)
    BY <2>1, <2>2, WantedStays
  <2> QED
    BY <2>1, <2>3, Overwritten DEF EntriesInv, Entered
<1>4. TableIsExact'
  BY GivenStays DEF BootInv, BootRestart, outside
<1>5. ThreadInv'
  BY DEF BootInv, ThreadInv, AnnouncedIsSo, BootRestart, outside
<1> QED
  BY <1>1, <1>2, <1>3, <1>4, <1>5 DEF BootInv

\* The table as init_soter_fn gives it to the TEE.
LEMMA GivenIsExact ==
  ASSUME TeeiBootAssumption, BootInv, mainPc = "serving", uuid_count <= MaxDrvUuids,
         UNCHANGED setup, soter' = [on |-> TRUE, table |-> uuids, flag |-> flag]
  PROVE  TableIsExact'
<1> DEFINE n    == Len(uuids)
           own  == IF setup.minmem THEN n ELSE n - 1
<1>1. /\ uuid_count = n /\ n \in Nat /\ n <= MaxDrvUuids /\ MaxDrvUuids \in Nat
      /\ uuids \in Seq({"r", "t", "built_in"})
  BY Overwritten DEF BootInv, TableInv
<1>2. optind - 1 = Len(setup.argv) /\ setup.argv \in Seq(Option) /\ Len(setup.argv) \in Nat
  BY DEF BootInv, MainInv
<1>3. Place(optind - 1) = Cardinality(Wanted) /\ Cardinality(Wanted) \in Nat
  BY <1>2, Places
<1>4. FromOptions = own
  BY DEF FromOptions
<1>5. own = IF Cardinality(Wanted) < MaxDrvUuids THEN Cardinality(Wanted) ELSE MaxDrvUuids
  BY <1>1, <1>3, <1>4 DEF BootInv, EntriesInv
<1>6. own <= Cardinality(Wanted)
  BY <1>1, <1>3, <1>5
<1>7. ASSUME NEW k \in Wanted, Place(k) <= MaxDrvUuids
      PROVE  Place(k) <= own /\ uuids[Place(k)] = setup.argv[k]
  <2>1. k < optind
    <3>1. k \in 1 .. Len(setup.argv)
      BY DEF Wanted
    <3>2. optind \in Int
      BY DEF BootInv, MainInv
    <3> QED
      BY <1>2, <3>1, <3>2
  <2>2. Place(k) \in 1 .. Cardinality(Wanted)
    BY <1>3, <2>1, PlacesBefore DEF BootInv, MainInv
  <2>3. Place(k) <= own
    BY <1>1, <1>3, <1>5, <1>7, <2>2
  <2> QED
    BY <1>1, <1>7, <2>1, <2>3 DEF BootInv, EntriesInv, Entered
<1>8. ~setup.minmem => n > 0 /\ uuids[n] = "built_in"
  <2>1. uuid_count # CountOverwritten + 1
    BY <1>1, Overwritten
  <2>2. ~setup.minmem => uuids # <<>> /\ uuids[n] = "built_in"
    BY <2>1 DEF BootInv, TableInv
  <2> QED
    BY <1>1, <2>2
<1>9. flag = {i - 1 : i \in {j \in 1 .. n : uuids[j] = "t"}}
  <2>1. /\ \A k \in 1 .. n : uuids[k] = "t" <=> (k - 1) \in flag
        /\ \A b \in flag : b \in Nat /\ b < n
    BY <1>1, Overwritten DEF BootInv, TableInv
  <2>2. \A b \in flag : b + 1 \in 1 .. n /\ uuids[b + 1] = "t" /\ b = (b + 1) - 1
    <3> TAKE b \in flag
    <3>1. b \in Nat /\ b < n /\ b + 1 \in 1 .. n /\ (b + 1) - 1 = b
      BY <1>1, <2>1
    <3> QED
      BY <2>1, <3>1
  <2> HIDE DEF n
  <2> QED
    BY <2>1, <2>2
<1>10. soter'.on /\ soter'.table = uuids /\ soter'.flag = flag
  OBVIOUS
<1> HIDE DEF n, own
<1>11. Len(soter'.table) = n /\ (IF setup'.minmem THEN n ELSE n - 1) = own
  BY <1>10 DEF n, own
<1>12. Wanted' = Wanted /\ \A k \in Wanted : Place(k)' = Place(k)
  BY WantedStays
<1>13. /\ n <= MaxDrvUuids /\ own <= Cardinality(Wanted')
       /\ \A k \in Wanted' : Place(k)' <= MaxDrvUuids =>
            Place(k)' <= own /\ uuids[Place(k)'] = setup.argv[k]
       /\ ~setup.minmem => n > 0 /\ uuids[n] = "built_in"
       /\ flag = {i - 1 : i \in {j \in 1 .. n : uuids[j] = "t"}}
  BY <1>1, <1>6, <1>7, <1>8, <1>9, <1>12
<1> QED
  BY <1>10, <1>11, <1>13, Zenon DEF TableIsExact

\* InitTeei: a table that was run over ends the process, another one is given
\* to the TEE as it is.
LEMMA InitTeeiKeeps == ASSUME TeeiBootAssumption, BootInv, InitTeei PROVE BootInv'
<1>1. /\ UNCHANGED <<setup, optind, uuids, uuid_count, flag, value, unlock_state, init, unlocked, crypto>>
      /\ mainPc = "serving" /\ soterPc = "open"
  BY DEF BootInv, MainInv, InitTeei, param
<1>2. ThreadInv'
  <2>1. loadPc' \in {loadPc, "none"} /\ (soter.on => soter'.on) /\ (soterPc' = "announce" => soter'.on)
    BY <1>1 DEF InitTeei
  <2> QED
    BY <1>1, <2>1 DEF BootInv, ThreadInv, AnnouncedIsSo
<1>3. CASE uuid_count > MaxDrvUuids /\ mainPc' = "exited" /\ soterPc' = "none" /\ UNCHANGED soter
  <2>1. MaxDrvUuids \in Nat /\ Len(uuids) \in Nat /\ Len(uuids) <= MaxDrvUuids
    BY Overwritten DEF BootInv, TableInv
  <2>2. uuid_count = CountOverwritten + 1 /\ uuid_count # Len(uuids)
    BY <1>3, <2>1, Overwritten DEF BootInv, TableInv
  <2>3. MainInv'
    BY <1>1, <1>3 DEF BootInv, MainInv
  <2>4. TableInv'
    BY <1>1, <1>3, <2>2 DEF BootInv, TableInv
  <2>5. EntriesInv'
    BY <1>1, <2>2 DEF EntriesInv
  <2>6. TableIsExact'
    BY <1>1, <1>3, GivenStays DEF BootInv
  <2> QED
    BY <1>2, <2>3, <2>4, <2>5, <2>6 DEF BootInv
<1>4. CASE UNCHANGED mainPc
  <2>1. MainInv' /\ TableInv' /\ EntriesInv'
    BY <1>1, <1>4, TableStays
  <2>2. CASE UNCHANGED soter
    <3>1. TableIsExact'
      BY <1>1, <2>2, GivenStays DEF BootInv
    <3> QED
      BY <1>2, <2>1, <3>1 DEF BootInv
  <2>3. CASE ~UNCHANGED soter
    <3>1. uuid_count <= MaxDrvUuids /\ soter' = [on |-> TRUE, table |-> uuids, flag |-> flag]
      BY <2>3 DEF InitTeei
    <3>2. TableIsExact'
      BY <1>1, <3>1, GivenIsExact
    <3> QED
      BY <1>2, <2>1, <3>2 DEF BootInv
  <2> QED
    BY <2>2, <2>3
<1> QED
  BY <1>3, <1>4 DEF InitTeei

\* init_soter_fn: the TEE is initialised before it is announced.
LEMMA InitSoterKeeps == ASSUME TeeiBootAssumption, BootInv, init_soter_fn PROVE BootInv'
<1>1. CASE InitTeei
  BY <1>1, InitTeeiKeeps
<1>2. CASE AnnounceInit
  <2>1. /\ UNCHANGED <<setup, mainPc, optind, uuids, uuid_count, flag, loadPc,
                       soter, crypto, unlocked, unlock_state>>
        /\ mainPc = "serving"
    BY <1>2 DEF BootInv, MainInv, AnnounceInit, param
  <2>2. ThreadInv'
    BY <1>2, <2>1 DEF BootInv, ThreadInv, AnnouncedIsSo, AnnounceInit
  <2>3. TableIsExact'
    BY <2>1, GivenStays DEF BootInv
  <2> QED
    BY <2>1, <2>2, <2>3, TableStays DEF BootInv
<1> QED
  BY <1>1, <1>2 DEF init_soter_fn

\* load_tee_fn: every value that ends the waiting says that the data is ready.
LEMMA LoadTeeKeeps == ASSUME BootInv, load_tee_fn PROVE BootInv'
<1>1. UNCHANGED <<setup, mainPc, optind, uuids, uuid_count, flag, soterPc, soter, init, crypto>>
  BY DEF load_tee_fn, param, outside
<1>2. loadPc' = "unlock" => Ready(crypto)
  BY DEF load_tee_fn, Poll, keymaster_unlock, Plain, Ready
<1>3. unlocked' \/ unlock_state' = 1 => unlocked \/ unlock_state = 1 \/ loadPc = "unlock"
  BY DEF load_tee_fn, keymaster_unlock, outside
<1>4. ThreadInv'
  BY <1>1, <1>2, <1>3 DEF BootInv, ThreadInv, AnnouncedIsSo, Ready
<1>5. MainInv' /\ TableInv' /\ EntriesInv'
  BY <1>1, TableStays DEF BootInv, MainInv
<1>6. TableIsExact'
  BY <1>1, GivenStays DEF BootInv
<1> QED
  BY <1>4, <1>5, <1>6 DEF BootInv

\* Vold: what is ready stays so.
LEMMA VoldKeeps == ASSUME BootInv, Vold PROVE BootInv'
<1>1. UNCHANGED <<setup, process, init, soter, unlocked>>
  BY DEF Vold
<1>2. crypto' \in CryptoType
  BY DEF BootInv, ThreadInv, Vold, CryptoType
<1>3. Ready(crypto) => Ready(crypto')
  BY UnsetSilent DEF BootInv, ThreadInv, CryptoType, Vold, Ready
<1>4. ThreadInv'
  BY <1>1, <1>2, <1>3 DEF BootInv, ThreadInv, AnnouncedIsSo, process
<1>5. MainInv' /\ TableInv' /\ EntriesInv'
  BY <1>1, TableStays DEF BootInv, MainInv, process, param
<1>6. TableIsExact'
  BY <1>1, GivenStays DEF BootInv
<1> QED
  BY <1>4, <1>5, <1>6 DEF BootInv

\* Every step keeps the invariant.
LEMMA NextBoot == ASSUME TeeiBootAssumption, BootInv, [BootNext]_bootVars PROVE BootInv'
<1>1. CASE UNCHANGED bootVars
  <2>1. MainInv' /\ TableInv' /\ EntriesInv'
    BY <1>1, TableStays DEF BootInv, MainInv, bootVars, process, param
  <2>2. ThreadInv'
    BY <1>1, ThreadStays DEF bootVars, process, outside
  <2>3. TableIsExact'
    BY <1>1, GivenStays DEF BootInv, bootVars, outside
  <2> QED
    BY <2>1, <2>2, <2>3 DEF BootInv
<1>2. CASE main
  BY <1>2, StartKeeps, ParseOptionKeeps, AddBuiltInKeeps, OpenVfsKeeps DEF main
<1> QED
  BY <1>1, <1>2, InitSoterKeeps, LoadTeeKeeps, VoldKeeps, RestartKeeps DEF BootNext

\* The invariant of the start holds in every reachable state.
THEOREM BootInductive == TeeiBootAssumption => (BootSpec => []BootInv)
<1> SUFFICES ASSUME TeeiBootAssumption PROVE BootSpec => []BootInv
  OBVIOUS
<1>1. BootInit => BootInv
  BY InitBoot
<1>2. BootInv /\ [BootNext]_bootVars => BootInv'
  BY NextBoot
<1> QED
  BY <1>1, <1>2, PTL DEF BootSpec

\* ParseOption, AddBuiltIn and InitTeei: whatever the command line, the TEE is
\* given the drivers it names, in their order and as far as the table reaches,
\* and the built-in one, with a flag that names exactly the TAs among them; a
\* table that was run over is not given to it.
THEOREM TableSafe == TeeiBootAssumption => (BootSpec => []TableIsExact)
<1>1. BootInv => TableIsExact
  BY DEF BootInv
<1> QED
  BY <1>1, BootInductive, PTL

\* init_soter_fn and load_tee_fn: INIT_OK stands only for a TEE that runs, and
\* the keymaster is unlocked only once a property has said that the data can
\* be read, also across restarts of the daemon.
THEOREM AnnouncedSafe == TeeiBootAssumption => (BootSpec => []AnnouncedIsSo)
<1>1. BootInv => AnnouncedIsSo
  BY DEF BootInv, ThreadInv
<1> QED
  BY <1>1, BootInductive, PTL

=============================================================================
