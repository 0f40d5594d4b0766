---------------------------- MODULE InitrdProofs ----------------------------
(***************************************************************************)
(* Proofs about Initrd: the client and the kernel put their cursors at the *)
(* same places, and what the client inserts into any archive the kernel    *)
(* can read adds the manifest and loses nothing.  The two readers are      *)
(* recursive functions: that they exist, and what they return, is shown by *)
(* going back from the end of the bytes, over sets of offsets.             *)
(***************************************************************************)
EXTENDS Initrd, SequenceTheorems, WellFoundedInduction, TLAPS

LEMMA Least ==
    ASSUME NEW S \in SUBSET Nat, S # {}
    PROVE  \E n \in S : \A k \in S : n <= k
  <1>1. IsWellFoundedOn({p \in Nat \X Nat : p[1] < p[2]}, Nat)
    BY NatLessThanWellFounded DEF OpToRel
  <1>2. PICK n \in S : \A k \in S : ~ (<<k, n>> \in {p \in Nat \X Nat : p[1] < p[2]})
    BY <1>1, WFMin
  <1>3. \A k \in S : ~ (k < n)
    BY <1>2
  <1> QED
    BY <1>3

\* What holds from some offset on, and of an offset when it holds of all
\* behind it, holds of all offsets.
LEMMA Backwards ==
    ASSUME NEW S, NEW bound \in Nat,
           \A o \in Nat : o >= bound => o \in S,
           \A o \in Nat : (\A p \in Nat : p > o => p \in S) => o \in S
    PROVE  \A o \in Nat : o \in S
  <1> SUFFICES ASSUME NEW o \in Nat, o \notin S PROVE FALSE
    OBVIOUS
  <1> DEFINE K == {k \in Nat : k <= bound /\ bound - k \notin S}
  <1>1. bound - o \in K
    OBVIOUS
  <1>2. PICK n \in K : \A k \in K : n <= k
    <2>1. K \in SUBSET Nat /\ K # {}
      BY <1>1
    <2> HIDE DEF K
    <2> QED
      BY <2>1, Least
  <1>3. ASSUME NEW p \in Nat, p > bound - n PROVE p \in S
    <2> SUFFICES ASSUME p \notin S PROVE FALSE
      OBVIOUS
    <2>1. p < bound
      OBVIOUS
    <2>2. bound - p \in K
      BY <2>1
    <2>3. n <= bound - p
      BY <1>2, <2>2
    <2> QED
      BY <1>2, <1>3, <2>1, <2>3
  <1>4. bound - n \in Nat /\ bound - n \notin S
    BY <1>2
  <1> QED
    BY <1>3, <1>4

\* A recursion that only asks for what is behind an offset, and for nothing
\* from some offset on, has a solution.
LEMMA RecursionFromTheEnd ==
    ASSUME NEW V, V # {}, NEW G \in [[Nat -> V] -> [Nat -> V]], NEW bound \in Nat,
           \A f, g \in [Nat -> V] : \A o \in Nat :
               (o >= bound \/ \A p \in Nat : p > o => f[p] = g[p]) => G[f][o] = G[g][o]
    PROVE  \E f \in [Nat -> V] : f = G[f]
  <1> DEFINE S == {k \in Nat : \E f \in [Nat -> V] : \A o \in Nat : o >= k => G[f][o] = f[o]}
  <1>1. ASSUME NEW k \in Nat, k >= bound PROVE k \in S
    <2>1. PICK v \in V : TRUE
      OBVIOUS
    <2> DEFINE f0 == [o \in Nat |-> v]
    <2>2. f0 \in [Nat -> V] /\ G[f0] \in [Nat -> V]
      BY <2>1
    <2>3. \A o \in Nat : o >= k => G[G[f0]][o] = G[f0][o]
      BY <1>1, <2>2
    <2> QED
      BY <2>2, <2>3
  <1>2. ASSUME NEW k \in Nat, \A p \in Nat : p > k => p \in S PROVE k \in S
    <2>1. PICK f \in [Nat -> V] : \A o \in Nat : o >= k + 1 => G[f][o] = f[o]
      <3>1. k + 1 \in Nat /\ k + 1 > k
        OBVIOUS
      <3> QED
        BY <1>2, <3>1
    <2> DEFINE g == [f EXCEPT ![k] = G[f][k]]
    <2>2. G[f] \in [Nat -> V] /\ g \in [Nat -> V]
      OBVIOUS
    <2>3. \A o \in Nat : o # k => g[o] = f[o]
      OBVIOUS
    <2>4. g[k] = G[f][k]
      OBVIOUS
    <2> HIDE DEF g
    <2>5. \A o \in Nat : o >= k => G[g][o] = G[f][o]
      BY <2>2, <2>3
    <2>6. \A o \in Nat : o >= k => G[g][o] = g[o]
      BY <2>1, <2>3, <2>4, <2>5
    <2> QED
      BY <2>2, <2>6
  <1>3. 0 \in S
    <2> HIDE DEF S
    <2> QED
      BY <1>1, <1>2, Backwards
  <1>4. PICK f \in [Nat -> V] : \A o \in Nat : o >= 0 => G[f][o] = f[o]
    BY <1>3
  <1>5. \A o \in Nat : G[f][o] = f[o]
    BY <1>4
  <1> QED
    BY <1>5

-----------------------------------------------------------------------------
(* Headers.                                                                *)

\* The next multiple of four, and that it moves with a multiple of four.
LEMMA AlignedUp ==
    ASSUME NEW n \in Nat
    PROVE  /\ align4(n) \in Nat /\ align4(n) >= n /\ align4(n) % 4 = 0
           /\ \A k \in Nat : n <= 4 * k => align4(n) <= 4 * k
           /\ \A k \in Nat : align4(n + 4 * k) = align4(n) + 4 * k
  BY DEF align4

\* Both cursors move on, and a header lies within its stream.
LEMMA HeadTypes ==
    ASSUME NEW s \in Stream, NEW h \in s.heads
    PROVE  /\ s.len \in Nat /\ s.heads \subseteq Header
           /\ h.at \in Nat /\ h.namesize \in Nat /\ h.size \in Nat /\ h.name \in Names
           /\ NameEnd(h) \in Nat /\ NameEnd(h) > h.at /\ h.at < s.len
           /\ KernelNext(h) \in Nat /\ KernelNext(h) > h.at
           /\ align4(align4(NameEnd(h)) + h.size) \in Nat
           /\ align4(align4(NameEnd(h)) + h.size) > h.at
  <1>1. /\ s.len \in Nat /\ s.heads \subseteq Header /\ h.at + HeaderSize <= s.len
    BY DEF Stream
  <1>2. h.at \in Nat /\ h.namesize \in Nat /\ h.size \in Nat /\ h.name \in Names
    BY <1>1 DEF Header
  <1>3. NameEnd(h) \in Nat /\ NameEnd(h) > h.at /\ h.at < s.len
    BY <1>1, <1>2 DEF HeaderSize, NameEnd
  <1>4. KernelNext(h) \in Nat /\ KernelNext(h) > h.at
    <2>1. NAlign(h.namesize) \in Nat
      BY <1>2 DEF NAlign
    <2> QED
      BY <1>2, <2>1 DEF HeaderSize, KernelNext
  <1>5. align4(NameEnd(h)) \in Nat /\ align4(NameEnd(h)) >= NameEnd(h)
    BY <1>3, AlignedUp
  <1>6. /\ align4(align4(NameEnd(h)) + h.size) \in Nat
        /\ align4(align4(NameEnd(h)) + h.size) >= align4(NameEnd(h))
    BY <1>2, <1>5, AlignedUp
  <1> QED
    BY <1>1, <1>2, <1>3, <1>4, <1>5, <1>6

\* At an offset there is one header or none.
LEMMA HeadIsUnique ==
    ASSUME NEW s \in Stream, NEW g \in s.heads, NEW h \in s.heads, g.at = h.at
    PROVE  g = h
  <1>1. h.at \in h.at .. NameEnd(h) - 1
    BY HeadTypes
  <1> QED
    BY <1>1 DEF Stream

LEMMA ChosenHead ==
    ASSUME NEW s \in Stream, NEW o \in Nat, HeadsAt(s, o) # {}
    PROVE  /\ (CHOOSE h \in HeadsAt(s, o) : TRUE) \in s.heads
           /\ (CHOOSE h \in HeadsAt(s, o) : TRUE).at = o
  BY DEF HeadsAt

-----------------------------------------------------------------------------
(* The readers exist.                                                      *)

\* What a reader of the kernel's kind returns, offset by offset.
Readings == [Phase -> [SUBSET Names -> SUBSET Names]]

KernelReader(s, read) ==
    \A o \in Nat, phase \in Phase, done \in SUBSET Names :
        read[o][phase][done] = KernelReadsFrom(o, phase, done, s, read)

LEMMA ReadsFromTypes ==
    ASSUME NEW s \in Stream, NEW read \in [Nat -> Readings],
           NEW o \in Nat, NEW phase \in Phase, NEW done \in SUBSET Names
    PROVE  KernelReadsFrom(o, phase, done, s, read) \in SUBSET Names
  <1> DEFINE h == CHOOSE h \in HeadsAt(s, o) : TRUE
             with == IF Parent(h.name) \in done \cup {"/"} THEN done \cup {h.name} ELSE done
  <1>0. ASSUME NEW p \in Nat, NEW b \in Phase, NEW d \in SUBSET Names
        PROVE  read[p][b][d] \in SUBSET Names
    <2>1. read[p] \in [Phase -> [SUBSET Names -> SUBSET Names]]
      BY DEF Readings
    <2>2. read[p][b] \in [SUBSET Names -> SUBSET Names]
      BY <2>1, Zenon
    <2> QED
      BY <2>2
  <1>1. read[o + 1]["between"][done] \in SUBSET Names
    BY <1>0 DEF Phase
  <1>2. ASSUME HeadsAt(s, o) # {}
        PROVE  /\ read[KernelNext(h)]["between"][done] \in SUBSET Names
               /\ read[KernelNext(h)]["inside"][with] \in SUBSET Names
    <2>1. h \in s.heads
      BY <1>2, ChosenHead
    <2>2. KernelNext(h) \in Nat /\ h.name \in Names
      BY <2>1, HeadTypes
    <2>3. with \in SUBSET Names
      BY <2>2
    <2> HIDE DEF h, with
    <2> QED
      BY <1>0, <2>2, <2>3 DEF Phase
  <1>3. done \cup {Unreadable} \in SUBSET Names
    <2>1. Unreadable \in Names
      BY InitrdAssumption
    <2> QED
      BY <2>1
  <1>4. KernelReadsFrom(o, phase, done, s, read)
          \in {done, done \cup {Unreadable}, read[o + 1]["between"][done]}
                \cup (IF HeadsAt(s, o) = {} THEN {}
                      ELSE {read[KernelNext(h)]["between"][done], read[KernelNext(h)]["inside"][with]})
    BY DEF KernelReadsFrom
  <1> HIDE DEF h, with
  <1> QED
    BY <1>1, <1>2, <1>3, <1>4

LEMMA ReadsFromBehind ==
    ASSUME NEW s \in Stream, NEW f \in [Nat -> Readings], NEW g \in [Nat -> Readings],
           NEW o \in Nat, NEW phase \in Phase, NEW done \in SUBSET Names,
           o >= s.len \/ \A p \in Nat : p > o => f[p] = g[p]
    PROVE  KernelReadsFrom(o, phase, done, s, f) = KernelReadsFrom(o, phase, done, s, g)
  <1>1. CASE o >= s.len
    <2>1. HeadsAt(s, o) = {}
      BY <1>1, HeadTypes DEF HeadsAt
    <2> QED
      BY <1>1, <2>1 DEF KernelReadsFrom
  <1>2. CASE \A p \in Nat : p > o => f[p] = g[p]
    <2> DEFINE h == CHOOSE h \in HeadsAt(s, o) : TRUE
    <2>1. f[o + 1] = g[o + 1]
      BY <1>2
    <2>2. HeadsAt(s, o) # {} => f[KernelNext(h)] = g[KernelNext(h)]
      BY <1>2, ChosenHead, HeadTypes
    <2> QED
      BY <2>1, <2>2 DEF KernelReadsFrom
  <1> QED
    BY <1>1, <1>2

LEMMA KernelReaderExists ==
    ASSUME NEW s \in Stream
    PROVE  \E read : read = [o \in Nat |-> [phase \in Phase |-> [done \in SUBSET Names |->
                                KernelReadsFrom(o, phase, done, s, read)]]]
  <1> DEFINE Again(read) == [o \in Nat |-> [phase \in Phase |-> [done \in SUBSET Names |->
                                KernelReadsFrom(o, phase, done, s, read)]]]
             G == [read \in [Nat -> Readings] |-> Again(read)]
  <1>1. \A read \in [Nat -> Readings] : Again(read) \in [Nat -> Readings]
    BY ReadsFromTypes DEF Readings
  <1>2. G \in [[Nat -> Readings] -> [Nat -> Readings]]
    <2> HIDE DEF Again
    <2> QED
      BY <1>1
  <1>3. ASSUME NEW f \in [Nat -> Readings], NEW g \in [Nat -> Readings], NEW o \in Nat,
               o >= s.len \/ \A p \in Nat : p > o => f[p] = g[p]
        PROVE  G[f][o] = G[g][o]
    <2>1. \A phase \in Phase : \A done \in SUBSET Names :
             KernelReadsFrom(o, phase, done, s, f) = KernelReadsFrom(o, phase, done, s, g)
      BY <1>3, ReadsFromBehind
    <2>2. G[f] = Again(f) /\ G[g] = Again(g)
      <3> HIDE DEF Again
      <3> QED
        OBVIOUS
    <2>3. Again(f)[o] = Again(g)[o]
      BY <2>1
    <2> QED
      BY <2>2, <2>3
  <1>4. s.len \in Nat /\ Readings # {}
    <2>1. [phase \in Phase |-> [done \in SUBSET Names |-> {}]] \in Readings
      BY DEF Readings
    <2> QED
      BY <2>1 DEF Stream
  <1>5. \E read \in [Nat -> Readings] : read = G[read]
    <2> HIDE DEF G
    <2> QED
      BY <1>2, <1>3, <1>4, RecursionFromTheEnd
  <1>6. PICK read \in [Nat -> Readings] : read = G[read]
    BY <1>5
  <1>7. read = Again(read)
    <2> HIDE DEF Again
    <2> QED
      BY <1>6
  <1> QED
    BY <1>7, Zenon

LEMMA KernelReadsBy ==
    ASSUME NEW s \in Stream, NEW before
    PROVE  \E read : KernelReader(s, read) /\ KernelReads(s, before) = read[0]["between"][before]
  <1> DEFINE Solves(read) ==
                read = [o \in Nat |-> [phase \in Phase |-> [done \in SUBSET Names |->
                          KernelReadsFrom(o, phase, done, s, read)]]]
             read == CHOOSE read : Solves(read)
  <1>1. \E f : Solves(f)
    BY KernelReaderExists, Zenon
  <1>2. Solves(read)
    BY <1>1, Zenon
  <1>3. KernelReads(s, before) = read[0]["between"][before]
    BY Zenon DEF KernelReads
  <1> HIDE DEF read
  <1>4. \A o \in Nat : read[o] = [phase \in Phase |-> [done \in SUBSET Names |->
                                    KernelReadsFrom(o, phase, done, s, read)]]
    BY <1>2
  <1>5. KernelReader(s, read)
    <2> SUFFICES ASSUME NEW o \in Nat, NEW phase \in Phase, NEW done \in SUBSET Names
                 PROVE  read[o][phase][done] = KernelReadsFrom(o, phase, done, s, read)
      BY DEF KernelReader
    <2>1. read[o][phase] = [d \in SUBSET Names |-> KernelReadsFrom(o, phase, d, s, read)]
      BY <1>4
    <2> QED
      BY <2>1
  <1> QED
    BY <1>3, <1>5

\* The same of the client's reader.
Offsets == SUBSET Nat

LEMMA TrailerFromTypes ==
    ASSUME NEW s \in Stream, NEW scan \in [Nat -> Offsets], NEW o \in Nat
    PROVE  TrailerFrom(o, s, scan) \in Offsets
  <1> DEFINE h == CHOOSE h \in HeadsAt(s, o) : TRUE
             next == align4(align4(NameEnd(h)) + h.size)
  <1>1. HeadsAt(s, o) # {} => next \in Nat
    BY ChosenHead, HeadTypes
  <1>2. TrailerFrom(o, s, scan)
          \in {{}, {o}, scan[o + 1]} \cup (IF HeadsAt(s, o) = {} THEN {} ELSE {scan[next]})
    BY DEF TrailerFrom
  <1> HIDE DEF next
  <1> QED
    BY <1>1, <1>2 DEF Offsets

LEMMA TrailerFromBehind ==
    ASSUME NEW s \in Stream, NEW f, NEW g, NEW o \in Nat,
           o >= s.len \/ \A p \in Nat : p > o => f[p] = g[p]
    PROVE  TrailerFrom(o, s, f) = TrailerFrom(o, s, g)
  <1>1. CASE o >= s.len
    <2>1. o + HeaderSize > s.len
      BY <1>1 DEF Stream, HeaderSize
    <2> QED
      BY <2>1 DEF TrailerFrom
  <1>2. CASE \A p \in Nat : p > o => f[p] = g[p]
    <2> DEFINE h == CHOOSE h \in HeadsAt(s, o) : TRUE
               next == align4(align4(NameEnd(h)) + h.size)
    <2>1. f[o + 1] = g[o + 1]
      BY <1>2
    <2>2. HeadsAt(s, o) # {} => f[next] = g[next]
      BY <1>2, ChosenHead, HeadTypes
    <2> QED
      BY <2>1, <2>2 DEF TrailerFrom
  <1> QED
    BY <1>1, <1>2

LEMMA ScanExists ==
    ASSUME NEW s \in Stream
    PROVE  \E scan : scan = [o \in Nat |-> TrailerFrom(o, s, scan)]
  <1> DEFINE Again(scan) == [o \in Nat |-> TrailerFrom(o, s, scan)]
             G == [scan \in [Nat -> Offsets] |-> Again(scan)]
  <1>1. \A scan \in [Nat -> Offsets] : Again(scan) \in [Nat -> Offsets]
    BY TrailerFromTypes
  <1>2. G \in [[Nat -> Offsets] -> [Nat -> Offsets]]
    <2> HIDE DEF Again
    <2> QED
      BY <1>1
  <1>3. ASSUME NEW f \in [Nat -> Offsets], NEW g \in [Nat -> Offsets], NEW o \in Nat,
               o >= s.len \/ \A p \in Nat : p > o => f[p] = g[p]
        PROVE  G[f][o] = G[g][o]
    <2>1. TrailerFrom(o, s, f) = TrailerFrom(o, s, g)
      BY <1>3, TrailerFromBehind
    <2>2. G[f] = Again(f) /\ G[g] = Again(g)
      <3> HIDE DEF Again
      <3> QED
        OBVIOUS
    <2>3. Again(f)[o] = Again(g)[o]
      BY <2>1
    <2> QED
      BY <2>2, <2>3
  <1>4. s.len \in Nat /\ Offsets # {}
    BY DEF Stream, Offsets
  <1>5. \E scan \in [Nat -> Offsets] : scan = G[scan]
    <2> HIDE DEF G
    <2> QED
      BY <1>2, <1>3, <1>4, RecursionFromTheEnd
  <1>6. PICK scan \in [Nat -> Offsets] : scan = G[scan]
    BY <1>5
  <1>7. scan = Again(scan)
    <2> HIDE DEF Again
    <2> QED
      BY <1>6
  <1> QED
    BY <1>7, Zenon

\* What the client finds is the offset of a trailer.
LEMMA TrailerFound ==
    ASSUME NEW s \in Stream, NEW t \in find_first_newc_trailer(s)
    PROVE  \E h \in s.heads : h.at = t /\ h.name = Trailer
  <1> DEFINE Solves(scan) == scan = [o \in Nat |-> TrailerFrom(o, s, scan)]
             scan == CHOOSE scan : Solves(scan)
             Trailers == {h.at : h \in {g \in s.heads : g.name = Trailer}}
             S == {o \in Nat : scan[o] \subseteq Trailers}
  <1>1. \E f : Solves(f)
    BY ScanExists, Zenon
  <1>2. Solves(scan)
    BY <1>1, Zenon
  <1>3. find_first_newc_trailer(s) = scan[0]
    BY Zenon DEF find_first_newc_trailer
  <1> HIDE DEF scan
  <1>4. \A o \in Nat : scan[o] = TrailerFrom(o, s, scan)
    BY <1>2
  <1>5. s.len \in Nat
    BY DEF Stream
  <1>6. ASSUME NEW o \in Nat, o >= s.len PROVE o \in S
    <2>1. o + HeaderSize > s.len
      BY <1>5, <1>6 DEF HeaderSize
    <2> QED
      BY <1>4, <2>1 DEF TrailerFrom
  <1>7. ASSUME NEW o \in Nat, \A p \in Nat : p > o => p \in S PROVE o \in S
    <2> DEFINE h == CHOOSE h \in HeadsAt(s, o) : TRUE
               next == align4(align4(NameEnd(h)) + h.size)
    <2>1. scan[o + 1] \subseteq Trailers
      BY <1>7
    <2>2. CASE HeadsAt(s, o) = {}
      <3>1. scan[o] \in {{}, scan[o + 1]}
        BY <1>4, <2>2 DEF TrailerFrom
      <3> QED
        BY <2>1, <3>1
    <2>3. CASE HeadsAt(s, o) # {}
      <3>1. h \in s.heads /\ h.at = o
        BY <2>3, ChosenHead
      <3>2. next \in Nat /\ next > o
        BY <3>1, HeadTypes
      <3>3. scan[next] \subseteq Trailers
        BY <1>7, <3>2
      <3>4. scan[o] \in {{}, scan[next]} \/ (h.name = Trailer /\ scan[o] = {o})
        BY <1>4, <2>3 DEF TrailerFrom
      <3> QED
        BY <3>1, <3>3, <3>4
    <2> QED
      BY <2>2, <2>3
  <1>8. 0 \in S
    <2> HIDE DEF S
    <2> QED
      BY <1>5, <1>6, <1>7, Backwards
  <1> QED
    BY <1>3, <1>8

-----------------------------------------------------------------------------
(* The two cursors.                                                        *)

\* Behind a header at a multiple of four, whatever the sizes of its name and of
\* its file, the client puts the next header where the kernel expects it
\* (append_newc_node and the kernel's N_ALIGN).
THEOREM CursorsAgree ==
    ASSUME NEW at \in Nat, NEW name, NEW namesize \in Nat, NEW size \in Nat, at % 4 = 0
    PROVE  KernelNext(NewHead(at, name, namesize, size)) = NodeEnd(NewHead(at, name, namesize, size))
  <1> DEFINE h == NewHead(at, name, namesize, size)
  <1>1. h.at = at /\ h.namesize = namesize /\ h.size = size
    BY DEF NewHead
  <1>2. PICK k \in Nat : at = 4 * k
    <2>1. at = 4 * (at \div 4) /\ at \div 4 \in Nat
      OBVIOUS
    <2> QED
      BY <2>1
  <1>3. align4(at + HeaderSize + namesize) = at + HeaderSize + NAlign(namesize)
    BY <1>2 DEF align4, HeaderSize, NAlign
  <1>4. NodeEnd(h) = align4(at + HeaderSize + NAlign(namesize) + size)
    BY <1>1, <1>3 DEF NodeEnd, NameEnd
  <1>5. KernelNext(h) = align4(at + HeaderSize + NAlign(namesize) + size)
    BY <1>1 DEF KernelNext, align4
  <1> QED
    BY <1>4, <1>5

-----------------------------------------------------------------------------
(* What is inserted.                                                       *)

\* A header moved by a multiple of four: its name, its file and the header the
\* kernel expects behind it move with it.
Shifted(h, by) == [h EXCEPT !.at = @ + by]

LEMMA ShiftedHead ==
    ASSUME NEW h \in Header, NEW k \in Nat
    PROVE  /\ Shifted(h, 4 * k) \in Header /\ Shifted(h, 4 * k).at = h.at + 4 * k
           /\ Shifted(h, 4 * k).name = h.name /\ Shifted(h, 4 * k).size = h.size
           /\ NameEnd(Shifted(h, 4 * k)) = NameEnd(h) + 4 * k
           /\ align4(NameEnd(Shifted(h, 4 * k))) = align4(NameEnd(h)) + 4 * k
           /\ KernelNext(Shifted(h, 4 * k)) = KernelNext(h) + 4 * k
  <1> DEFINE g == Shifted(h, 4 * k)
  <1>1. /\ g \in Header /\ g.at = h.at + 4 * k
        /\ g.name = h.name /\ g.namesize = h.namesize /\ g.size = h.size
    BY DEF Header, Shifted
  <1>2. h.at \in Nat /\ h.namesize \in Nat /\ h.size \in Nat
    BY DEF Header
  <1> HIDE DEF g
  <1>3. NameEnd(h) \in Nat /\ NameEnd(g) = NameEnd(h) + 4 * k
    BY <1>1, <1>2 DEF NameEnd, HeaderSize
  <1>4. align4(NameEnd(g)) = align4(NameEnd(h)) + 4 * k
    BY <1>3, AlignedUp
  <1>5. KernelNext(g) = KernelNext(h) + 4 * k
    <2> DEFINE n == h.at + HeaderSize + NAlign(h.namesize) + h.size
    <2>1. n \in Nat
      BY <1>2 DEF HeaderSize, NAlign
    <2>2. g.at + HeaderSize + NAlign(g.namesize) + g.size = n + 4 * k
      BY <1>1, <1>2 DEF HeaderSize, NAlign
    <2>3. KernelNext(h) = align4(n) /\ KernelNext(g) = align4(n + 4 * k)
      BY <2>2 DEF KernelNext, align4
    <2> HIDE DEF n
    <2> QED
      BY <2>1, <2>3, AlignedUp
  <1> QED
    BY <1>1, <1>3, <1>4, <1>5 DEF g

\* The entries: two headers, of which the kernel goes from one to the other and
\* then to the end, a multiple of four.
LEMMA ManifestEntries ==
    /\ DirectoryHead \in Header /\ DirectoryHead.at = 0 /\ DirectoryHead.name = "etc/encvol"
    /\ ManifestHead \in Header /\ ManifestHead.at = 124 /\ ManifestHead.name = "etc/encvol/manifest.json"
    /\ NameEnd(DirectoryHead) = 121 /\ align4(NameEnd(DirectoryHead)) = 124 /\ DirectoryHead.size = 0
    /\ NameEnd(ManifestHead) = 259 /\ align4(NameEnd(ManifestHead)) = 260 /\ ManifestHead.size = ManifestSize
    /\ KernelNext(DirectoryHead) = 124
    /\ KernelNext(ManifestHead) = manifest_cpio_entries.len
    /\ manifest_cpio_entries.heads = {DirectoryHead, ManifestHead}
    /\ 260 + ManifestSize <= manifest_cpio_entries.len
    /\ \E k \in Nat : manifest_cpio_entries.len = 4 * k
  <1>1. ManifestSize \in Nat /\ ManifestPaths \subseteq Names
    BY InitrdAssumption
  <1>2. /\ DirectoryHead \in Header /\ DirectoryHead.at = 0 /\ DirectoryHead.name = "etc/encvol"
        /\ DirectoryHead.namesize = 11 /\ DirectoryHead.size = 0
    BY <1>1 DEF DirectoryHead, NewHead, Header, ManifestPaths
  <1>3. NameEnd(DirectoryHead) = 121 /\ align4(121) = 124 /\ NodeEnd(DirectoryHead) = 124
    BY <1>2 DEF NameEnd, HeaderSize, align4, NodeEnd
  <1>4. /\ ManifestHead \in Header /\ ManifestHead.at = 124 /\ ManifestHead.name = "etc/encvol/manifest.json"
        /\ ManifestHead.namesize = 25 /\ ManifestHead.size = ManifestSize
    BY <1>1, <1>3 DEF ManifestHead, NewHead, Header, ManifestPaths
  <1>5. NameEnd(ManifestHead) = 259 /\ align4(259) = 260 /\ NodeEnd(ManifestHead) = align4(260 + ManifestSize)
    BY <1>4 DEF NameEnd, HeaderSize, align4, NodeEnd
  <1>6. KernelNext(DirectoryHead) = NodeEnd(DirectoryHead)
    BY CursorsAgree DEF DirectoryHead
  <1>7. KernelNext(ManifestHead) = NodeEnd(ManifestHead)
    BY <1>1, <1>3, CursorsAgree DEF ManifestHead
  <1>8. /\ manifest_cpio_entries.len = NodeEnd(ManifestHead)
        /\ manifest_cpio_entries.heads = {DirectoryHead, ManifestHead}
    BY DEF manifest_cpio_entries
  <1>9. align4(260 + ManifestSize) = 4 * ((260 + ManifestSize + 3) \div 4)
    BY DEF align4
  <1>10. (260 + ManifestSize + 3) \div 4 \in Nat /\ 260 + ManifestSize <= align4(260 + ManifestSize)
    BY <1>1 DEF align4
  <1> QED
    BY <1>2, <1>3, <1>4, <1>5, <1>6, <1>7, <1>8, <1>9, <1>10

\* What is a byte's own, with the client's way of rounding up.
LEMMA ZeroByte ==
    ASSUME NEW s, NEW o
    PROVE  IsZero(s, o) <=>
               \A h \in s.heads : /\ o \notin h.at .. NameEnd(h) - 1
                                  /\ o \notin align4(NameEnd(h)) .. align4(NameEnd(h)) + h.size - 1
  BY DEF IsZero, align4

\* The headers of the stream with the manifest.
LEMMA InsertedHeads ==
    ASSUME NEW s \in Stream, NEW k \in Nat
    PROVE  LET L == manifest_cpio_entries.len
               t == 4 * k
           IN  WithManifest(s, t).heads =
                   {h \in s.heads : h.at < t} \cup {Shifted(DirectoryHead, t), Shifted(ManifestHead, t)}
                     \cup {Shifted(h, L) : h \in {g \in s.heads : g.at >= t}}
  BY ManifestEntries DEF WithManifest, Moved, Shifted

\* In front of the insertion every header is where it was.
LEMMA HeadsInFront ==
    ASSUME NEW s \in Stream, NEW k \in Nat, NEW o \in Nat, o < 4 * k
    PROVE  HeadsAt(WithManifest(s, 4 * k), o) = HeadsAt(s, o)
  <1> DEFINE L == manifest_cpio_entries.len
  <1>1. Shifted(DirectoryHead, 4 * k).at > o /\ Shifted(ManifestHead, 4 * k).at > o
    BY ManifestEntries, ShiftedHead
  <1>2. ASSUME NEW h \in s.heads, h.at >= 4 * k PROVE Shifted(h, L).at > o /\ h.at # o
    BY <1>2, ManifestEntries, ShiftedHead, HeadTypes
  <1> QED
    BY <1>1, <1>2, InsertedHeads DEF HeadsAt

\* Behind it they are where they were, moved.
LEMMA HeadsBehind ==
    ASSUME NEW s \in Stream, NEW k \in Nat, NEW o \in Nat, o >= 4 * k
    PROVE  HeadsAt(WithManifest(s, 4 * k), o + manifest_cpio_entries.len)
             = {Shifted(h, manifest_cpio_entries.len) : h \in HeadsAt(s, o)}
  <1> DEFINE L == manifest_cpio_entries.len
  <1>1. /\ Shifted(DirectoryHead, 4 * k).at = 4 * k /\ Shifted(ManifestHead, 4 * k).at = 4 * k + 124
        /\ L \in Nat /\ 260 <= L
    BY ManifestEntries, ShiftedHead, InitrdAssumption
  <1>2. ASSUME NEW h \in s.heads PROVE Shifted(h, L).at = h.at + L /\ h.at \in Nat
    BY ManifestEntries, ShiftedHead, HeadTypes
  <1> HIDE DEF L
  <1>3. ASSUME NEW h \in s.heads, h.at < 4 * k PROVE h.at # o + L
    BY <1>1, <1>2, <1>3
  <1>4. HeadsAt(WithManifest(s, 4 * k), o + L)
          = {g \in {Shifted(h, L) : h \in {g \in s.heads : g.at >= 4 * k}} : g.at = o + L}
    BY <1>1, <1>3, InsertedHeads DEF HeadsAt, L
  <1>5. ASSUME NEW h \in s.heads PROVE h.at = o <=> Shifted(h, L).at = o + L
    BY <1>1, <1>2
  <1> QED
    BY <1>4, <1>5 DEF HeadsAt, L

\* Between them are the two headers of the entries.
LEMMA HeadsBetween ==
    ASSUME NEW s \in Stream, NEW k \in Nat
    PROVE  /\ HeadsAt(WithManifest(s, 4 * k), 4 * k) = {Shifted(DirectoryHead, 4 * k)}
           /\ HeadsAt(WithManifest(s, 4 * k), 4 * k + 124) = {Shifted(ManifestHead, 4 * k)}
  <1> DEFINE L == manifest_cpio_entries.len
  <1>1. /\ Shifted(DirectoryHead, 4 * k).at = 4 * k /\ Shifted(ManifestHead, 4 * k).at = 4 * k + 124
        /\ L \in Nat /\ 260 <= L
    BY ManifestEntries, ShiftedHead, InitrdAssumption
  <1>2. ASSUME NEW h \in s.heads, h.at >= 4 * k
        PROVE  Shifted(h, L).at # 4 * k /\ Shifted(h, L).at # 4 * k + 124
    <2>1. Shifted(h, L).at = h.at + L /\ h.at \in Nat
      BY ManifestEntries, ShiftedHead, HeadTypes
    <2> QED
      BY <1>1, <1>2, <2>1
  <1> QED
    BY <1>1, <1>2, InsertedHeads DEF HeadsAt

\* Padding in front of the insertion stays padding.
LEMMA ZeroesInFront ==
    ASSUME NEW s \in Stream, NEW k \in Nat, NEW o \in Nat, o < 4 * k, IsZero(s, o)
    PROVE  IsZero(WithManifest(s, 4 * k), o)
  <1> DEFINE L == manifest_cpio_entries.len
  <1>1. ASSUME NEW h \in Header, NEW by \in Nat, h.at + 4 * by > o
        PROVE  LET g == Shifted(h, 4 * by)
               IN  /\ o \notin g.at .. NameEnd(g) - 1
                   /\ o \notin align4(NameEnd(g)) .. align4(NameEnd(g)) + g.size - 1
    <2> DEFINE g == Shifted(h, 4 * by)
    <2>1. g.at = h.at + 4 * by /\ NameEnd(g) = NameEnd(h) + 4 * by
      BY ShiftedHead
    <2>2. h.at \in Nat /\ NameEnd(h) \in Nat /\ NameEnd(h) >= h.at
      BY DEF Header, NameEnd, HeaderSize
    <2>3. align4(NameEnd(g)) \in Nat /\ align4(NameEnd(g)) >= NameEnd(g)
      BY <2>1, <2>2, AlignedUp
    <2>4. o < g.at /\ o < align4(NameEnd(g))
      BY <1>1, <2>1, <2>2, <2>3
    <2>5. g \in Header
      BY ShiftedHead
    <2>6. g.at \in Nat /\ NameEnd(g) \in Nat /\ g.size \in Nat
      BY <2>5 DEF Header, NameEnd, HeaderSize
    <2> HIDE DEF g
    <2>7. /\ o \notin g.at .. NameEnd(g) - 1
          /\ o \notin align4(NameEnd(g)) .. align4(NameEnd(g)) + g.size - 1
      BY <2>3, <2>4, <2>6
    <2> QED
      BY <2>7 DEF g
  <1>2. PICK l \in Nat : L = 4 * l
    BY ManifestEntries
  <1>3. ASSUME NEW h \in s.heads, h.at >= 4 * k PROVE h \in Header /\ h.at + 4 * l > o
    BY <1>2, <1>3, HeadTypes
  <1>4. DirectoryHead.at + 4 * k > o /\ ManifestHead.at + 4 * k > o
    BY ManifestEntries
  <1>5. ASSUME NEW h \in s.heads, h.at >= 4 * k
        PROVE  LET g == Shifted(h, L)
               IN  /\ o \notin g.at .. NameEnd(g) - 1
                   /\ o \notin align4(NameEnd(g)) .. align4(NameEnd(g)) + g.size - 1
    BY <1>1, <1>2, <1>3, <1>5
  <1>6. ASSUME NEW h \in {DirectoryHead, ManifestHead}
        PROVE  LET g == Shifted(h, 4 * k)
               IN  /\ o \notin g.at .. NameEnd(g) - 1
                   /\ o \notin align4(NameEnd(g)) .. align4(NameEnd(g)) + g.size - 1
    BY <1>1, <1>4, ManifestEntries
  <1> QED
    BY <1>5, <1>6, InsertedHeads, ZeroByte

\* Padding behind an insertion in front of a header stays padding.
LEMMA ZeroesBehind ==
    ASSUME NEW s \in Stream, NEW k \in Nat, NEW trailer \in s.heads, trailer.at = 4 * k,
           NEW o \in Nat, o > 4 * k, IsZero(s, o)
    PROVE  IsZero(WithManifest(s, 4 * k), o + manifest_cpio_entries.len)
  <1> DEFINE L == manifest_cpio_entries.len
  <1>1. PICK l \in Nat : L = 4 * l
    BY ManifestEntries
  <1>2. ManifestSize \in Nat /\ 260 + ManifestSize <= L
    BY ManifestEntries, InitrdAssumption
  <1>3. ASSUME NEW h \in s.heads, h.at < 4 * k
        PROVE  /\ o + L \notin h.at .. NameEnd(h) - 1
               /\ o + L \notin align4(NameEnd(h)) .. align4(NameEnd(h)) + h.size - 1
    <2>1. /\ h.at \in Nat /\ h.size \in Nat /\ NameEnd(h) \in Nat
          /\ o \notin align4(NameEnd(h)) .. align4(NameEnd(h)) + h.size - 1
      BY HeadTypes, ZeroByte
    <2>2. NameEnd(h) <= 4 * k
      <3>1. trailer # h /\ trailer.at \notin h.at .. NameEnd(h) - 1
        BY <1>3 DEF Stream
      <3> QED
        BY <1>3, <2>1, <3>1
    <2>3. align4(NameEnd(h)) \in Nat /\ align4(NameEnd(h)) <= 4 * k
      BY <2>1, <2>2, AlignedUp
    <2> QED
      BY <1>1, <2>1, <2>2, <2>3
  <1>4. ASSUME NEW h \in s.heads
        PROVE  LET g == Shifted(h, L)
               IN  /\ o + L \notin g.at .. NameEnd(g) - 1
                   /\ o + L \notin align4(NameEnd(g)) .. align4(NameEnd(g)) + g.size - 1
    <2>1. /\ h.at \in Nat /\ h.size \in Nat /\ NameEnd(h) \in Nat /\ h \in Header
          /\ o \notin h.at .. NameEnd(h) - 1
          /\ o \notin align4(NameEnd(h)) .. align4(NameEnd(h)) + h.size - 1
      BY HeadTypes, ZeroByte
    <2>2. align4(NameEnd(h)) \in Nat
      BY <2>1, AlignedUp
    <2> DEFINE g == Shifted(h, L)
    <2>3. /\ g.at = h.at + L /\ NameEnd(g) = NameEnd(h) + L /\ g.size = h.size
          /\ align4(NameEnd(g)) = align4(NameEnd(h)) + L
      BY <1>1, <2>1, ShiftedHead
    <2> HIDE DEF g, L
    <2>4. /\ o + L \notin g.at .. NameEnd(g) - 1
          /\ o + L \notin align4(NameEnd(g)) .. align4(NameEnd(g)) + g.size - 1
      BY <1>1, <2>1, <2>2, <2>3
    <2> QED
      BY <2>4 DEF g
  <1>5. ASSUME NEW h \in {DirectoryHead, ManifestHead}
        PROVE  LET g == Shifted(h, 4 * k)
               IN  /\ o + L \notin g.at .. NameEnd(g) - 1
                   /\ o + L \notin align4(NameEnd(g)) .. align4(NameEnd(g)) + g.size - 1
    <2>1. /\ h \in Header /\ NameEnd(h) \in Nat /\ NameEnd(h) <= L
          /\ align4(NameEnd(h)) \in Nat /\ h.size \in Nat /\ align4(NameEnd(h)) + h.size <= L
      BY <1>1, <1>2, ManifestEntries
    <2> DEFINE g == Shifted(h, 4 * k)
    <2>2. /\ NameEnd(g) = NameEnd(h) + 4 * k /\ g.size = h.size
          /\ align4(NameEnd(g)) = align4(NameEnd(h)) + 4 * k
      BY <2>1, ShiftedHead
    <2>3. NameEnd(g) <= 4 * k + L /\ align4(NameEnd(g)) + g.size <= 4 * k + L
      BY <1>1, <2>1, <2>2
    <2>4. g \in Header /\ g.at \in Nat
      BY <2>1, ShiftedHead DEF Header
    <2> HIDE DEF g, L
    <2>5. /\ o + L \notin g.at .. NameEnd(g) - 1
          /\ o + L \notin align4(NameEnd(g)) .. align4(NameEnd(g)) + g.size - 1
      BY <1>1, <2>1, <2>2, <2>3, <2>4
    <2> QED
      BY <2>5 DEF g
  <1> QED
    BY <1>3, <1>4, <1>5, InsertedHeads, ZeroByte

\* The stream with the manifest is one again.
LEMMA InsertedStream ==
    ASSUME NEW s \in Stream, NEW k \in Nat, NEW trailer \in s.heads, trailer.at = 4 * k
    PROVE  WithManifest(s, 4 * k) \in Stream
  <1> DEFINE L     == manifest_cpio_entries.len
             front == {h \in s.heads : h.at < 4 * k}
             mid   == {Shifted(DirectoryHead, 4 * k), Shifted(ManifestHead, 4 * k)}
             back  == {Shifted(h, L) : h \in {g \in s.heads : g.at >= 4 * k}}
             new   == WithManifest(s, 4 * k)
  <1>1. PICK l \in Nat : L = 4 * l
    BY ManifestEntries
  <1>2. L \in Nat /\ 260 <= L /\ s.len \in Nat /\ s.heads \subseteq Header
    BY <1>1, ManifestEntries, InitrdAssumption DEF Stream
  <1>3. new.heads = front \cup mid \cup back
    BY InsertedHeads
  <1>4. new.len = s.len + L /\ new = [len |-> new.len, heads |-> new.heads]
    BY DEF WithManifest
  <1>5. trailer.at + HeaderSize <= s.len
    BY DEF Stream
  <1>6. ASSUME NEW h \in front
        PROVE  h \in Header /\ h.at \in Nat /\ h.at < 4 * k /\ NameEnd(h) \in Nat /\ NameEnd(h) <= 4 * k
    <2>1. h.at \in Nat /\ NameEnd(h) \in Nat /\ h \in Header
      BY <1>2, HeadTypes
    <2>2. trailer # h /\ trailer.at \notin h.at .. NameEnd(h) - 1
      BY <1>6 DEF Stream
    <2> QED
      BY <1>6, <2>1, <2>2
  <1>7. ASSUME NEW h \in mid
        PROVE  /\ h \in Header /\ h.at \in Nat /\ h.at >= 4 * k
               /\ NameEnd(h) \in Nat /\ NameEnd(h) <= 4 * k + L /\ h.at + HeaderSize <= 4 * k + L
               /\ \A g \in mid \ {h} : g.at \notin h.at .. NameEnd(h) - 1
    <2>1. /\ Shifted(DirectoryHead, 4 * k) \in Header /\ Shifted(ManifestHead, 4 * k) \in Header
          /\ Shifted(DirectoryHead, 4 * k).at = 4 * k /\ Shifted(ManifestHead, 4 * k).at = 4 * k + 124
          /\ NameEnd(Shifted(DirectoryHead, 4 * k)) = 4 * k + 121
          /\ NameEnd(Shifted(ManifestHead, 4 * k)) = 4 * k + 259
      BY ManifestEntries, ShiftedHead
    <2> QED
      BY <1>2, <2>1 DEF HeaderSize
  <1>8. ASSUME NEW h \in back
        PROVE  /\ h \in Header /\ h.at \in Nat /\ h.at >= 4 * k + L /\ NameEnd(h) \in Nat
               /\ h.at + HeaderSize <= s.len + L
               /\ \A g \in back \ {h} : g.at \notin h.at .. NameEnd(h) - 1
    <2>0. ASSUME NEW c \in s.heads
          PROVE  /\ Shifted(c, L) \in Header /\ Shifted(c, L).at = c.at + L
                 /\ NameEnd(Shifted(c, L)) = NameEnd(c) + L
                 /\ c.at \in Nat /\ NameEnd(c) \in Nat /\ c.at + HeaderSize <= s.len
      <3>1. c \in Header /\ c.at \in Nat /\ NameEnd(c) \in Nat /\ c.at + HeaderSize <= s.len
        BY HeadTypes DEF Stream
      <3> HIDE DEF L, front, mid, back, new
      <3>2. /\ Shifted(c, 4 * l) \in Header /\ Shifted(c, 4 * l).at = c.at + 4 * l
            /\ NameEnd(Shifted(c, 4 * l)) = NameEnd(c) + 4 * l
        BY <3>1, ShiftedHead
      <3> QED
        BY <1>1, <3>1, <3>2
    <2>1. PICK b \in s.heads : b.at >= 4 * k /\ h = Shifted(b, L)
      OBVIOUS
    <2>2. /\ h \in Header /\ h.at = b.at + L /\ NameEnd(h) = NameEnd(b) + L
          /\ b.at \in Nat /\ NameEnd(b) \in Nat /\ b.at + HeaderSize <= s.len
      BY <2>0, <2>1
    <2>3. ASSUME NEW g \in back, g # h PROVE g.at \notin h.at .. NameEnd(h) - 1
      <3>1. PICK c \in s.heads : c.at >= 4 * k /\ g = Shifted(c, L)
        OBVIOUS
      <3>2. g.at = c.at + L /\ c.at \in Nat /\ c # b
        BY <2>0, <2>1, <2>3, <3>1
      <3>3. c.at \notin b.at .. NameEnd(b) - 1
        BY <3>2 DEF Stream
      <3> QED
        BY <1>2, <2>2, <3>2, <3>3
    <2> QED
      BY <1>2, <2>1, <2>2, <2>3 DEF HeaderSize
  <1>9. ASSUME NEW h \in new.heads
        PROVE  h \in Header /\ h.at + HeaderSize <= new.len
    <2>1. CASE h \in front
      <3>1. h \in Header /\ h.at \in Nat /\ h.at + HeaderSize <= s.len
        BY <1>6, <2>1 DEF Stream
      <3> QED
        BY <1>2, <1>4, <3>1 DEF HeaderSize
    <2>2. CASE h \in mid
      BY <1>2, <1>4, <1>5, <1>7, <2>2 DEF HeaderSize
    <2>3. CASE h \in back
      BY <1>4, <1>8, <2>3
    <2> QED
      BY <1>3, <2>1, <2>2, <2>3
  <1>10. ASSUME NEW h \in new.heads, NEW g \in new.heads \ {h}
         PROVE  g.at \notin h.at .. NameEnd(h) - 1
    <2> HIDE DEF front, mid, back, new, L
    <2>1. CASE h \in front
      <3>1. CASE g \in front
        BY <1>10, <2>1, <3>1 DEF Stream, front
      <3>2. CASE g \in mid \cup back
        BY <1>2, <1>6, <1>7, <1>8, <2>1, <3>2
      <3> QED
        BY <1>3, <3>1, <3>2
    <2>2. CASE h \in mid
      <3>1. CASE g \in front
        BY <1>6, <1>7, <2>2, <3>1
      <3>2. CASE g \in mid
        BY <1>7, <1>10, <2>2, <3>2
      <3>3. CASE g \in back
        BY <1>2, <1>7, <1>8, <2>2, <3>3
      <3> QED
        BY <1>3, <3>1, <3>2, <3>3
    <2>3. CASE h \in back
      <3>1. CASE g \in front
        BY <1>2, <1>6, <1>8, <2>3, <3>1
      <3>2. CASE g \in mid
        <4>1. g.at + HeaderSize <= 4 * k + L /\ g.at \in Nat /\ h.at >= 4 * k + L
          BY <1>7, <1>8, <2>3, <3>2
        <4> QED
          BY <1>2, <1>8, <2>3, <4>1 DEF HeaderSize
      <3>3. CASE g \in back
        BY <1>8, <1>10, <2>3, <3>3
      <3> QED
        BY <1>3, <3>1, <3>2, <3>3
    <2> QED
      BY <1>3, <2>1, <2>2, <2>3
  <1>11. new.len \in Nat
    BY <1>2, <1>4
  <1>12. new \in Stream
    <2> HIDE DEF new
    <2>1. new.heads \in SUBSET Header
      BY <1>9
    <2>2. new \in [len : Nat, heads : SUBSET Header]
      BY <1>4, <1>11, <2>1
    <2> QED
      BY <1>9, <1>10, <2>2 DEF Stream
  <1> QED
    BY <1>12

-----------------------------------------------------------------------------
(* What the kernel reads, step by step.                                    *)

\* The paths there are with h.
With(h, done) == IF Parent(h.name) \in done \cup {"/"} THEN done \cup {h.name} ELSE done

LEMMA ReadsHead ==
    ASSUME NEW s, NEW read, KernelReader(s, read), NEW o \in Nat, NEW phase \in Phase,
           NEW done \in SUBSET Names, NEW h, HeadsAt(s, o) = {h}, phase = "between" => ~(o >= s.len),
           o % 4 = 0
    PROVE  read[o][phase][done] =
               IF h.name = Trailer THEN read[KernelNext(h)]["between"][done]
               ELSE read[KernelNext(h)]["inside"][With(h, done)]
  <1>1. read[o][phase][done] = KernelReadsFrom(o, phase, done, s, read)
    BY DEF KernelReader
  <1>2. (CHOOSE g \in HeadsAt(s, o) : TRUE) = h
    OBVIOUS
  <1> QED
    BY <1>1, <1>2 DEF KernelReadsFrom, With

LEMMA ReadsZero ==
    ASSUME NEW s, NEW read, KernelReader(s, read), NEW o \in Nat,
           NEW done \in SUBSET Names, HeadsAt(s, o) = {}, IsZero(s, o), ~(o >= s.len)
    PROVE  read[o]["between"][done] = read[o + 1]["between"][done]
  <1>1. read[o]["between"][done] = KernelReadsFrom(o, "between", done, s, read)
    BY DEF KernelReader, Phase
  <1> QED
    BY <1>1 DEF KernelReadsFrom

LEMMA ReadsEnd ==
    ASSUME NEW s, NEW read, KernelReader(s, read), NEW o \in Nat,
           NEW done \in SUBSET Names, o >= s.len
    PROVE  read[o]["between"][done] = done
  <1>1. read[o]["between"][done] = KernelReadsFrom(o, "between", done, s, read)
    BY DEF KernelReader, Phase
  <1> QED
    BY <1>1 DEF KernelReadsFrom

\* A reading that does not fail has ended, skips a zero or follows a header.
LEMMA ReadsCases ==
    ASSUME NEW s \in Stream, NEW read, KernelReader(s, read), NEW o \in Nat, NEW phase \in Phase,
           NEW done \in SUBSET Names, Unreadable \notin read[o][phase][done]
    PROVE  \/ o >= s.len /\ phase = "between" /\ HeadsAt(s, o) = {}
           \/ o < s.len /\ phase = "between" /\ HeadsAt(s, o) = {} /\ IsZero(s, o)
           \/ \E h \in s.heads : HeadsAt(s, o) = {h} /\ h.at = o /\ o % 4 = 0 /\ o < s.len
  <1>1. read[o][phase][done] = KernelReadsFrom(o, phase, done, s, read)
    BY DEF KernelReader
  <1>2. s.len \in Nat
    BY DEF Stream
  <1>3. CASE HeadsAt(s, o) = {}
    BY <1>1, <1>2, <1>3 DEF KernelReadsFrom
  <1>4. CASE HeadsAt(s, o) # {}
    <2>1. PICK h \in s.heads : h.at = o
      BY <1>4 DEF HeadsAt
    <2>2. HeadsAt(s, o) = {h} /\ o < s.len
      BY <2>1, HeadIsUnique, HeadTypes DEF HeadsAt
    <2>3. o % 4 = 0
      BY <1>1, <1>2, <1>4, <2>2 DEF KernelReadsFrom
    <2> QED
      BY <2>1, <2>2, <2>3
  <1> QED
    BY <1>3, <1>4

LEMMA WithTypes ==
    ASSUME NEW s \in Stream, NEW h \in s.heads, NEW done \in SUBSET Names
    PROVE  With(h, done) \in SUBSET Names
  BY HeadTypes DEF With

\* Inside an archive the kernel does not get to an end without a trailer.
LEMMA InsideWithoutTrailer ==
    ASSUME NEW s \in Stream, NEW read, KernelReader(s, read), NEW trailer \in s.heads,
           \A h \in s.heads : h.name = Trailer => h = trailer
    PROVE  \A o \in Nat : o > trailer.at =>
               \A done \in SUBSET Names : Unreadable \in read[o]["inside"][done]
  <1> DEFINE S == {o \in Nat : o > trailer.at =>
                      \A done \in SUBSET Names : Unreadable \in read[o]["inside"][done]}
  <1>1. s.len \in Nat /\ trailer.at \in Nat /\ "inside" \in Phase
    BY HeadTypes DEF Phase
  <1>2. ASSUME NEW o \in Nat, \A p \in Nat : p > o => p \in S PROVE o \in S
    <2> SUFFICES ASSUME o > trailer.at, NEW done \in SUBSET Names,
                        Unreadable \notin read[o]["inside"][done]
                 PROVE  FALSE
      OBVIOUS
    <2>1. PICK h \in s.heads : HeadsAt(s, o) = {h} /\ h.at = o /\ o % 4 = 0
      BY <1>1, ReadsCases
    <2>2. h.name # Trailer
      BY <1>1, <2>1
    <2>3. read[o]["inside"][done] = read[KernelNext(h)]["inside"][With(h, done)]
      BY <1>1, <2>1, <2>2, ReadsHead
    <2>4. KernelNext(h) \in Nat /\ KernelNext(h) > o /\ With(h, done) \in SUBSET Names
      BY <2>1, HeadTypes, WithTypes
    <2>5. KernelNext(h) \in S /\ KernelNext(h) > trailer.at
      BY <1>1, <1>2, <2>4
    <2> QED
      BY <2>3, <2>4, <2>5
  <1>3. ASSUME NEW o \in Nat, o >= s.len PROVE o \in S
    <2> SUFFICES ASSUME NEW done \in SUBSET Names, Unreadable \notin read[o]["inside"][done]
                 PROVE  FALSE
      OBVIOUS
    <2> QED
      BY <1>1, <1>3, ReadsCases
  <1>4. \A o \in Nat : o \in S
    <2> HIDE DEF S
    <2> QED
      BY <1>1, <1>2, <1>3, Backwards
  <1> QED
    BY <1>4

\* The bytes from o on are padding.
Blank(s, o) == \A p \in Nat : o <= p /\ p < s.len => HeadsAt(s, p) = {} /\ IsZero(s, p)

\* Behind the only trailer there is only padding, if the reading does not fail.
LEMMA BehindTrailer ==
    ASSUME NEW s \in Stream, NEW read, KernelReader(s, read), NEW trailer \in s.heads,
           \A h \in s.heads : h.name = Trailer => h = trailer
    PROVE  \A o \in Nat : o > trailer.at =>
               \A done \in SUBSET Names :
                   Unreadable \notin read[o]["between"][done] =>
                       read[o]["between"][done] = done /\ Blank(s, o)
  <1> DEFINE S == {o \in Nat : o > trailer.at =>
                      \A done \in SUBSET Names :
                          Unreadable \notin read[o]["between"][done] =>
                              read[o]["between"][done] = done /\ Blank(s, o)}
  <1>1. s.len \in Nat /\ trailer.at \in Nat /\ "between" \in Phase
    BY HeadTypes DEF Phase
  <1>2. ASSUME NEW o \in Nat, o >= s.len PROVE o \in S
    <2>1. Blank(s, o)
      BY <1>1, <1>2 DEF Blank
    <2> QED
      BY <1>2, <2>1, ReadsEnd
  <1>3. ASSUME NEW o \in Nat, \A p \in Nat : p > o => p \in S PROVE o \in S
    <2> SUFFICES ASSUME o > trailer.at, NEW done \in SUBSET Names,
                        Unreadable \notin read[o]["between"][done]
                 PROVE  read[o]["between"][done] = done /\ Blank(s, o)
      OBVIOUS
    <2>1. CASE o >= s.len
      BY <1>2, <2>1
    <2>2. CASE o < s.len /\ HeadsAt(s, o) = {} /\ IsZero(s, o)
      <3>1. read[o]["between"][done] = read[o + 1]["between"][done]
        BY <1>1, <2>2, ReadsZero
      <3>2. read[o + 1]["between"][done] = done /\ Blank(s, o + 1)
        BY <1>1, <1>3, <3>1
      <3>3. Blank(s, o)
        BY <1>1, <2>2, <3>2 DEF Blank
      <3> QED
        BY <3>1, <3>2, <3>3
    <2>3. ASSUME NEW h \in s.heads, HeadsAt(s, o) = {h}, h.at = o, o % 4 = 0, o < s.len PROVE FALSE
      <3>1. h.name # Trailer
        BY <1>1, <2>3
      <3>2. read[o]["between"][done] = read[KernelNext(h)]["inside"][With(h, done)]
        BY <1>1, <2>3, <3>1, ReadsHead
      <3>3. KernelNext(h) \in Nat /\ KernelNext(h) > trailer.at /\ With(h, done) \in SUBSET Names
        BY <1>1, <2>3, HeadTypes, WithTypes
      <3> QED
        BY <3>2, <3>3, InsideWithoutTrailer
    <2> QED
      BY <1>1, <2>1, <2>2, <2>3, ReadsCases
  <1>4. \A o \in Nat : o \in S
    <2> HIDE DEF S
    <2> QED
      BY <1>1, <1>2, <1>3, Backwards
  <1> QED
    BY <1>4

\* A reading that starts in front of the only trailer and does not fail meets
\* it, at a multiple of four.
LEMMA TrailerIsAligned ==
    ASSUME NEW s \in Stream, NEW read, KernelReader(s, read), NEW trailer \in s.heads,
           \A h \in s.heads : h.name = Trailer => h = trailer
    PROVE  \A o \in Nat : o <= trailer.at =>
               \A phase \in Phase, done \in SUBSET Names :
                   Unreadable \notin read[o][phase][done] => trailer.at % 4 = 0
  <1> DEFINE S == {o \in Nat : o <= trailer.at =>
                      \A phase \in Phase, done \in SUBSET Names :
                          Unreadable \notin read[o][phase][done] => trailer.at % 4 = 0}
  <1>1. s.len \in Nat /\ trailer.at \in Nat /\ trailer.at < s.len /\ {"between", "inside"} = Phase
    BY HeadTypes DEF Phase
  <1>2. ASSUME NEW o \in Nat, o >= s.len PROVE o \in S
    BY <1>1, <1>2
  <1>3. ASSUME NEW o \in Nat, \A p \in Nat : p > o => p \in S PROVE o \in S
    <2> SUFFICES ASSUME o <= trailer.at, NEW phase \in Phase, NEW done \in SUBSET Names,
                        Unreadable \notin read[o][phase][done]
                 PROVE  trailer.at % 4 = 0
      OBVIOUS
    <2>1. CASE o < s.len /\ phase = "between" /\ HeadsAt(s, o) = {} /\ IsZero(s, o)
      <3>1. read[o][phase][done] = read[o + 1]["between"][done]
        BY <1>1, <2>1, ReadsZero
      <3>2. o # trailer.at
        BY <2>1 DEF HeadsAt
      <3>3. o + 1 <= trailer.at /\ o + 1 \in S
        BY <1>1, <1>3, <3>2
      <3> QED
        BY <1>1, <3>1, <3>3
    <2>2. ASSUME NEW h \in s.heads, HeadsAt(s, o) = {h}, h.at = o, o % 4 = 0, o < s.len
          PROVE  trailer.at % 4 = 0
      <3> SUFFICES ASSUME o # trailer.at PROVE trailer.at % 4 = 0
        BY <2>2
      <3>1. h.name # Trailer
        BY <2>2
      <3>2. read[o][phase][done] = read[KernelNext(h)]["inside"][With(h, done)]
        BY <1>1, <2>2, <3>1, ReadsHead
      <3>3. KernelNext(h) \in Nat /\ KernelNext(h) > o /\ With(h, done) \in SUBSET Names
        BY <2>2, HeadTypes, WithTypes
      <3>4. KernelNext(h) <= trailer.at
        BY <1>1, <3>2, <3>3, InsideWithoutTrailer
      <3>5. KernelNext(h) \in S
        BY <1>3, <3>3
      <3> QED
        BY <1>1, <3>2, <3>3, <3>4, <3>5
    <2>3. ~(o >= s.len)
      BY <1>1
    <2> QED
      BY <2>1, <2>2, <2>3, ReadsCases
  <1>4. \A o \in Nat : o \in S
    <2> HIDE DEF S
    <2> QED
      BY <1>1, <1>2, <1>3, Backwards
  <1> QED
    BY <1>4

\* How far what is behind the insertion moves.
Displacement == manifest_cpio_entries.len

\* Behind the insertion the kernel skips the same padding.
LEMMA ReadsOnBehind ==
    ASSUME NEW s \in Stream, NEW k \in Nat, NEW trailer \in s.heads, trailer.at = 4 * k,
           NEW moved, KernelReader(WithManifest(s, trailer.at), moved)
    PROVE  \A o \in Nat : o > trailer.at /\ Blank(s, o) =>
               \A done \in SUBSET Names :
                   moved[o + Displacement]["between"][done] = done
  <1> DEFINE L   == manifest_cpio_entries.len
             new == WithManifest(s, 4 * k)
             S   == {o \in Nat : o > trailer.at /\ Blank(s, o) =>
                        \A done \in SUBSET Names : moved[o + L]["between"][done] = done}
  <1>1. s.len \in Nat /\ L \in Nat /\ new.len = s.len + L
    BY ManifestEntries DEF Stream, WithManifest
  <1>2. ASSUME NEW o \in Nat, o >= s.len PROVE o \in S
    <2>1. o + L \in Nat /\ o + L >= new.len
      BY <1>1, <1>2
    <2> HIDE DEF new, L
    <2>2. \A done \in SUBSET Names : moved[o + L]["between"][done] = done
      BY <2>1, ReadsEnd DEF new
    <2> QED
      BY <2>2
  <1>3. ASSUME NEW o \in Nat, \A p \in Nat : p > o => p \in S PROVE o \in S
    <2> SUFFICES ASSUME o > 4 * k, Blank(s, o), NEW done \in SUBSET Names
                 PROVE  moved[o + L]["between"][done] = done
      OBVIOUS
    <2>1. CASE o >= s.len
      BY <1>2, <2>1
    <2>2. CASE o < s.len
      <3>1. HeadsAt(s, o) = {} /\ IsZero(s, o) /\ Blank(s, o + 1)
        BY <2>2 DEF Blank
      <3>2. HeadsAt(new, o + L) = {}
        BY <3>1, HeadsBehind
      <3>3. IsZero(new, o + L)
        BY <3>1, ZeroesBehind
      <3>4. o + L \in Nat /\ ~(o + L >= new.len)
        BY <1>1, <2>2
      <3>5. moved[o + L]["between"][done] = moved[o + L + 1]["between"][done]
        BY <3>2, <3>3, <3>4, ReadsZero
      <3>6. moved[o + 1 + L]["between"][done] = done
        <4>1. o + 1 \in S
          <5> HIDE DEF S
          <5> QED
            BY <1>3
        <4>2. \A d \in SUBSET Names : moved[o + 1 + L]["between"][d] = d
          <5>1. o + 1 \in Nat /\ o + 1 > 4 * k
            OBVIOUS
          <5> HIDE DEF L
          <5> QED
            BY <3>1, <4>1, <5>1
        <4> QED
          BY <4>2
      <3>7. o + L + 1 = o + 1 + L
        BY <1>1
      <3> QED
        BY <3>5, <3>6, <3>7
    <2> QED
      BY <1>1, <2>1, <2>2
  <1>4. \A o \in Nat : o \in S
    <2> HIDE DEF S
    <2> QED
      BY <1>1, <1>2, <1>3, Backwards
  <1> QED
    BY <1>4 DEF Displacement

\* At the insertion the kernel takes the two entries and then the trailer.
LEMMA ReadsEntries ==
    ASSUME NEW s \in Stream, NEW k \in Nat, NEW trailer \in s.heads, trailer.at = 4 * k,
           trailer.name = Trailer, Blank(s, KernelNext(trailer)),
           NEW moved, KernelReader(WithManifest(s, trailer.at), moved),
           NEW phase \in Phase, NEW done \in SUBSET Names, "etc" \in done
    PROVE  moved[trailer.at][phase][done] = done \cup ManifestPaths
  <1> DEFINE L   == manifest_cpio_entries.len
             new == WithManifest(s, 4 * k)
             dir == Shifted(DirectoryHead, 4 * k)
             man == Shifted(ManifestHead, 4 * k)
             end == Shifted(trailer, L)
  <1>1. PICK l \in Nat : L = 4 * l
    BY ManifestEntries
  <1>2. s.len \in Nat /\ L \in Nat /\ 260 <= L /\ new.len = s.len + L /\ 4 * k < s.len
    BY <1>1, ManifestEntries, InitrdAssumption, HeadTypes DEF WithManifest
  <1>3. {"between", "inside"} = Phase /\ ManifestPaths \subseteq Names
    BY InitrdAssumption DEF Phase
  <1>4. /\ dir.name = "etc/encvol" /\ KernelNext(dir) = 4 * k + 124
        /\ man.name = "etc/encvol/manifest.json" /\ KernelNext(man) = 4 * k + L
    <2>1. KernelNext(dir) = KernelNext(DirectoryHead) + 4 * k /\ KernelNext(man) = KernelNext(ManifestHead) + 4 * k
      BY ManifestEntries, ShiftedHead
    <2>2. dir.name = DirectoryHead.name /\ man.name = ManifestHead.name
      BY ManifestEntries, ShiftedHead
    <2> QED
      BY <1>2, <2>1, <2>2, ManifestEntries
  <1>5. end.name = Trailer /\ KernelNext(end) = KernelNext(trailer) + L
    <2>1. trailer \in Header
      BY HeadTypes
    <2>2. /\ Shifted(trailer, 4 * l).name = trailer.name
          /\ KernelNext(Shifted(trailer, 4 * l)) = KernelNext(trailer) + 4 * l
      BY <2>1, ShiftedHead
    <2> HIDE DEF L, new, dir, man
    <2> QED
      BY <1>1, <2>2
  <1>6. /\ HeadsAt(new, 4 * k) = {dir} /\ HeadsAt(new, 4 * k + 124) = {man}
        /\ HeadsAt(new, 4 * k + L) = {end}
    <2>1. HeadsAt(s, 4 * k) = {trailer}
      BY HeadIsUnique DEF HeadsAt
    <2>2. HeadsAt(new, 4 * k + L) = {Shifted(h, L) : h \in HeadsAt(s, 4 * k)}
      BY HeadsBehind
    <2> QED
      BY <2>1, <2>2, HeadsBetween
  <1>7. /\ (4 * k) % 4 = 0 /\ (4 * k + 124) % 4 = 0 /\ (4 * k + L) % 4 = 0
        /\ ~(4 * k >= new.len) /\ ~(4 * k + 124 >= new.len) /\ ~(4 * k + L >= new.len)
        /\ 4 * k + 124 \in Nat /\ 4 * k + L \in Nat /\ 4 * k \in Nat
    BY <1>1, <1>2
  <1>8. KernelReader(new, moved)
    OBVIOUS
  <1> DEFINE one == done \cup {"etc/encvol"}
             two == one \cup {"etc/encvol/manifest.json"}
  <1>9. one \in SUBSET Names /\ two \in SUBSET Names /\ two = done \cup ManifestPaths
    BY <1>3 DEF ManifestPaths
  <1>10. dir.name # Trailer /\ man.name # Trailer
    BY <1>4 DEF Trailer
  <1>11. With(dir, done) = one /\ With(man, one) = two
    BY <1>4 DEF With, Parent
  <1> HIDE DEF new, dir, man, end, L, one, two
  <1>12. moved[4 * k][phase][done] = moved[4 * k + 124]["inside"][one]
    BY <1>4, <1>6, <1>7, <1>8, <1>10, <1>11, ReadsHead
  <1>13. moved[4 * k + 124]["inside"][one] = moved[4 * k + L]["inside"][two]
    <2>1. moved[4 * k + 124]["inside"][one] = moved[KernelNext(man)]["inside"][With(man, one)]
      BY <1>3, <1>6, <1>7, <1>8, <1>9, <1>10, ReadsHead
    <2> QED
      BY <1>4, <1>11, <2>1
  <1>14. moved[4 * k + L]["inside"][two] = moved[KernelNext(trailer) + L]["between"][two]
    BY <1>3, <1>5, <1>6, <1>7, <1>8, <1>9, ReadsHead
  <1>15. moved[KernelNext(trailer) + L]["between"][two] = two
    <2>1. KernelNext(trailer) \in Nat /\ KernelNext(trailer) > 4 * k
      BY HeadTypes
    <2>2. \A o \in Nat : o > trailer.at /\ Blank(s, o) =>
              \A d \in SUBSET Names : moved[o + Displacement]["between"][d] = d
      BY ReadsOnBehind
    <2> QED
      BY <1>9, <2>1, <2>2 DEF L, Displacement
  <1> QED
    BY <1>9, <1>12, <1>13, <1>14, <1>15

\* From in front of the trailer on, a reading that does not fail and has the
\* directory etc at its end takes the entries besides what it took before.
LEMMA ReadsOn ==
    ASSUME NEW s \in Stream, NEW k \in Nat, NEW trailer \in s.heads, trailer.at = 4 * k,
           trailer.name = Trailer, \A h \in s.heads : h.name = Trailer => h = trailer,
           NEW read, KernelReader(s, read),
           NEW moved, KernelReader(WithManifest(s, trailer.at), moved)
    PROVE  \A o \in Nat : o <= trailer.at =>
               \A phase \in Phase, done \in SUBSET Names :
                   LET paths == read[o][phase][done]
                   IN  Unreadable \notin paths /\ "etc" \in paths =>
                           moved[o][phase][done] = paths \cup ManifestPaths
  <1> DEFINE new == WithManifest(s, trailer.at)
             S   == {o \in Nat : o <= trailer.at =>
                        \A phase \in Phase, done \in SUBSET Names :
                            Unreadable \notin read[o][phase][done] /\ "etc" \in read[o][phase][done] =>
                                moved[o][phase][done] = read[o][phase][done] \cup ManifestPaths}
  <1>1. /\ s.len \in Nat /\ trailer.at \in Nat /\ trailer.at < s.len /\ new.len \in Nat /\ s.len <= new.len
        /\ {"between", "inside"} = Phase
    <2>1. manifest_cpio_entries.len \in Nat
      BY ManifestEntries
    <2> QED
      BY <2>1, HeadTypes DEF Phase, WithManifest
  <1>2. ASSUME NEW o \in Nat, o >= s.len PROVE o \in S
    BY <1>1, <1>2
  <1>3. ASSUME NEW o \in Nat, \A p \in Nat : p > o => p \in S PROVE o \in S
    <2> SUFFICES ASSUME o <= trailer.at, NEW phase \in Phase, NEW done \in SUBSET Names,
                        Unreadable \notin read[o][phase][done], "etc" \in read[o][phase][done]
                 PROVE  moved[o][phase][done] = read[o][phase][done] \cup ManifestPaths
      OBVIOUS
    <2>0. ASSUME NEW p \in Nat, p > o, p <= trailer.at, NEW f \in Phase, NEW d \in SUBSET Names,
                 Unreadable \notin read[p][f][d], "etc" \in read[p][f][d]
          PROVE  moved[p][f][d] = read[p][f][d] \cup ManifestPaths
      <3>1. p \in S
        <4> HIDE DEF S
        <4> QED
          BY <1>3, <2>0
      <3> QED
        BY <2>0, <3>1
    <2> HIDE DEF S, new
    <2>1. CASE o = trailer.at
      <3>1. HeadsAt(s, o) = {trailer} /\ o % 4 = 0 /\ ~(o >= s.len)
        <4>1. HeadsAt(s, o) = {trailer}
          BY <2>1, HeadIsUnique DEF HeadsAt
        <4> QED
          BY <1>1, <2>1, <4>1
      <3>2. read[o][phase][done] = read[KernelNext(trailer)]["between"][done]
        BY <3>1, ReadsHead
      <3>3. KernelNext(trailer) \in Nat /\ KernelNext(trailer) > trailer.at
        BY HeadTypes
      <3>4. read[KernelNext(trailer)]["between"][done] = done /\ Blank(s, KernelNext(trailer))
        BY <3>2, <3>3, BehindTrailer
      <3>5. "etc" \in done
        BY <3>2, <3>4
      <3>6. moved[trailer.at][phase][done] = done \cup ManifestPaths
        <4>1. \A p \in Phase, d \in SUBSET Names :
                 "etc" \in d => moved[trailer.at][p][d] = d \cup ManifestPaths
          BY <3>4, ReadsEntries
        <4> QED
          BY <3>5, <4>1
      <3> QED
        BY <2>1, <3>2, <3>4, <3>6
    <2>2. CASE o < trailer.at
      <3>0. HeadsAt(new, o) = HeadsAt(s, o) /\ ~(o >= new.len) /\ ~(o >= s.len)
        BY <1>1, <2>2, HeadsInFront DEF new
      <3>1. CASE phase = "between" /\ HeadsAt(s, o) = {} /\ IsZero(s, o)
        <4>1. IsZero(new, o)
          BY <2>2, <3>1, ZeroesInFront DEF new
        <4>2. moved[o][phase][done] = moved[o + 1]["between"][done]
          BY <3>0, <3>1, <4>1, ReadsZero DEF new
        <4>3. read[o][phase][done] = read[o + 1]["between"][done]
          BY <3>0, <3>1, ReadsZero
        <4>4. o + 1 \in Nat /\ o + 1 > o /\ o + 1 <= trailer.at
          BY <1>1, <2>2
        <4> QED
          BY <1>1, <2>0, <4>2, <4>3, <4>4
      <3>2. ASSUME NEW h \in s.heads, HeadsAt(s, o) = {h}, h.at = o, o % 4 = 0
            PROVE  moved[o][phase][done] = read[o][phase][done] \cup ManifestPaths
        <4>1. h.name # Trailer
          BY <2>2, <3>2
        <4>2. read[o][phase][done] = read[KernelNext(h)]["inside"][With(h, done)]
          BY <3>0, <3>2, <4>1, ReadsHead
        <4>3. moved[o][phase][done] = moved[KernelNext(h)]["inside"][With(h, done)]
          BY <3>0, <3>2, <4>1, ReadsHead DEF new
        <4>4. KernelNext(h) \in Nat /\ KernelNext(h) > o /\ With(h, done) \in SUBSET Names
          BY <3>2, HeadTypes, WithTypes
        <4>5. KernelNext(h) <= trailer.at
          BY <1>1, <4>2, <4>4, InsideWithoutTrailer
        <4> QED
          BY <1>1, <2>0, <4>2, <4>3, <4>4, <4>5
      <3> QED
        BY <3>0, <3>1, <3>2, ReadsCases
    <2> QED
      BY <1>1, <2>1, <2>2
  <1>4. \A o \in Nat : o \in S
    <2> HIDE DEF S
    <2> QED
      BY <1>1, <1>2, <1>3, Backwards
  <1> QED
    BY <1>4

-----------------------------------------------------------------------------
(* The theorem about the writer and the kernel.                            *)

\* Of any archive with one trailer that the kernel reads without failing and
\* that has a directory etc, whatever the sizes and the padding, the archive
\* insert_manifest_entries makes of it has every path and the manifest's two.
THEOREM InsertionIsRead ==
    ASSUME NEW s \in Stream, \A g, h \in s.heads : g.name = Trailer /\ h.name = Trailer => g = h,
           Unreadable \notin KernelReads(s, {}), "etc" \in KernelReads(s, {}),
           NEW new \in insert_manifest_entries(s)
    PROVE  new \in Stream /\ KernelReads(new, {}) = KernelReads(s, {}) \cup ManifestPaths
  <1>1. PICK t \in find_first_newc_trailer(s) : new = WithManifest(s, t)
    BY DEF insert_manifest_entries
  <1>2. PICK trailer \in s.heads : trailer.at = t /\ trailer.name = Trailer
    BY TrailerFound
  <1>3. \A h \in s.heads : h.name = Trailer => h = trailer
    BY <1>2
  <1>4. PICK read : KernelReader(s, read) /\ KernelReads(s, {}) = read[0]["between"][{}]
    BY KernelReadsBy
  <1>5. trailer.at \in Nat /\ "between" \in Phase /\ {} \in SUBSET Names
    BY HeadTypes DEF Phase
  <1>6. trailer.at % 4 = 0
    BY <1>3, <1>4, <1>5, TrailerIsAligned
  <1>7. PICK k \in Nat : trailer.at = 4 * k
    <2>1. trailer.at = 4 * (trailer.at \div 4) /\ trailer.at \div 4 \in Nat
      BY <1>5, <1>6
    <2> QED
      BY <2>1
  <1>8. new \in Stream
    BY <1>1, <1>2, <1>7, InsertedStream
  <1>9. PICK moved : KernelReader(new, moved) /\ KernelReads(new, {}) = moved[0]["between"][{}]
    BY <1>8, KernelReadsBy
  <1>10. new = WithManifest(s, trailer.at)
    BY <1>1, <1>2
  <1>11. \A o \in Nat : o <= trailer.at =>
             \A phase \in Phase, done \in SUBSET Names :
                 LET paths == read[o][phase][done]
                 IN  Unreadable \notin paths /\ "etc" \in paths =>
                         moved[o][phase][done] = paths \cup ManifestPaths
    BY <1>2, <1>3, <1>4, <1>7, <1>9, <1>10, ReadsOn
  <1> QED
    BY <1>4, <1>5, <1>8, <1>9, <1>11

\* The two folds over an initrd's segments, for one segment.
LEMMA OneSegmentRead ==
    ASSUME NEW image, Len(image) = 1
    PROVE  KernelFiles(image) = KernelReads(image[1].stream, {})
  <1> DEFINE Solves(after) == after = [i \in 0 .. Len(image) |->
                                 IF i = 0 THEN {} ELSE KernelReads(image[i].stream, after[i - 1])]
             after == CHOOSE after : Solves(after)
  <1>1. \E f : Solves(f)
    <2> DEFINE f == [i \in 0 .. Len(image) |-> IF i = 0 THEN {} ELSE KernelReads(image[1].stream, {})]
    <2>1. \A i \in 0 .. Len(image) :
             f[i] = IF i = 0 THEN {} ELSE KernelReads(image[i].stream, f[i - 1])
      <3> TAKE i \in 0 .. Len(image)
      <3>1. CASE i = 0
        BY <3>1
      <3>2. CASE i = 1
        <4>1. f[i - 1] = {}
          BY <3>2
        <4> HIDE DEF f
        <4>2. f[i] = KernelReads(image[1].stream, {})
          BY <3>2 DEF f
        <4> QED
          BY <3>2, <4>1, <4>2
      <3> QED
        BY <3>1, <3>2
    <2>2. Solves(f)
      BY <2>1
    <2> QED
      BY <2>2
  <1>2. Solves(after)
    BY <1>1, Zenon
  <1>3. KernelFiles(image) = after[Len(image)]
    BY Zenon DEF KernelFiles
  <1> HIDE DEF after
  <1>4. after[0] = {} /\ after[1] = KernelReads(image[1].stream, after[1 - 1])
    BY <1>2
  <1>5. after[1 - 1] = {}
    BY <1>4
  <1> QED
    BY <1>3, <1>4, <1>5

LEMMA OneSegmentJoined ==
    ASSUME NEW image, Len(image) = 1
    PROVE  Joined(image) = image[1].stream
  <1> DEFINE Solves(joined) == joined = [i \in 1 .. Len(image) |->
                 IF i = 1 THEN image[1].stream
                 ELSE LET before == joined[i - 1]
                      IN  [len   |-> before.len + image[i].stream.len,
                           heads |-> before.heads \cup Moved(image[i].stream.heads, before.len)]]
             joined == CHOOSE joined : Solves(joined)
  <1>1. \E f : Solves(f)
    <2> DEFINE f == [i \in 1 .. Len(image) |-> image[1].stream]
    <2>1. \A i \in 1 .. Len(image) : i = 1
      OBVIOUS
    <2>2. Solves(f)
      BY <2>1
    <2> QED
      BY <2>2
  <1>2. Solves(joined)
    BY <1>1, Zenon
  <1>3. Joined(image) = joined[Len(image)]
    BY Zenon DEF Joined
  <1> HIDE DEF joined
  <1> QED
    BY <1>2, <1>3

\* Embedding adds the manifest and loses nothing, however the initrd is packed
\* (embed_manifest_for_initrd).
THEOREM EmbeddingIsRead ==
    ASSUME NEW image \in Seq(Segment), Plain(image), NEW new \in embed_manifest_for_initrd(image)
    PROVE  KernelFiles(new) = KernelFiles(image) \cup ManifestPaths
  <1> DEFINE s == image[1].stream
  <1>1. Len(image) = 1 /\ image[1] \in Segment /\ image[1].packing \in Packings /\ s \in Stream
    <2>1. Len(image) = 1
      BY DEF Plain
    <2>2. image[1] \in Segment
      BY <2>1
    <2> QED
      BY <2>1, <2>2 DEF Segment
  <1>2. KernelFiles(image) = KernelReads(s, {})
    BY <1>1, OneSegmentRead
  <1>3. PICK read \in insert_manifest_entries(s) : new = <<[packing |-> image[1].packing, stream |-> read]>>
    <2>1. CASE image[1].packing = "zstd"
      <3>1. Joined(image) = s
        BY <1>1, OneSegmentJoined
      <3>2. new \in Repacked("zstd", insert_manifest_entries(s))
        BY <2>1, <3>1 DEF embed_manifest_for_initrd
      <3> QED
        BY <2>1, <3>2 DEF Repacked
    <2>2. CASE image[1].packing = "gzip"
      <3>1. new \in Repacked("gzip", insert_manifest_entries(s))
        BY <2>2 DEF embed_manifest_for_initrd
      <3> QED
        BY <2>2, <3>1 DEF Repacked
    <2>3. CASE image[1].packing = "none"
      <3>1. PICK first \in Repacked("none", insert_manifest_entries(s)) : new = first \o Tail(image)
        BY <2>3 DEF embed_manifest_for_initrd
      <3>2. PICK read \in insert_manifest_entries(s) : first = <<[packing |-> "none", stream |-> read]>>
        BY DEF Repacked
      <3>3. first \o Tail(image) = first
        <4>1. image # <<>>
          <5>1. Len(<<>>) = 0
            OBVIOUS
          <5>2. Len(image) # Len(<<>>)
            BY <1>1, <5>1
          <5> HIDE DEF s
          <5> QED
            BY ONLY <5>2, Zenon
        <4>2. Tail(image) \in Seq(Segment) /\ Len(Tail(image)) = 0
          BY <1>1, <4>1, HeadTailProperties
        <4>3. Tail(image) = <<>>
          BY <4>2, EmptySeq
        <4>4. first \in Seq({[packing |-> "none", stream |-> read]})
          BY <3>2
        <4> QED
          BY <4>3, <4>4, ConcatEmptySeq
      <3> QED
        BY <2>3, <3>1, <3>2, <3>3
    <2> QED
      BY <1>1, <2>1, <2>2, <2>3 DEF Packings
  <1>4. KernelFiles(new) = KernelReads(read, {})
    <2>1. Len(new) = 1 /\ new[1].stream = read
      BY <1>3
    <2> QED
      BY <2>1, OneSegmentRead
  <1>5. KernelReads(read, {}) = KernelReads(s, {}) \cup ManifestPaths
    BY <1>1, <1>2, InsertionIsRead DEF Plain
  <1> QED
    BY <1>2, <1>4, <1>5
=============================================================================
