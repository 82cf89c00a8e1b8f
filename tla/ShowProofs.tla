----------------------------- MODULE ShowProofs -----------------------------
(***************************************************************************)
(* Proofs about Show: for every build, every set of positions, every       *)
(* contents of the capabilities and any number of them, no walk prints a   *)
(* capability twice, the cache pointer of libpci is used only while the    *)
(* block it points to is in place, only the first scan marks a port as     *)
(* outside D0, the write of show_verbose undoes only changes made after    *)
(* its block was read, and the printers stay within what they fetched, on  *)
(* every chain of capabilities and whichever fetches fail.                 *)
(***************************************************************************)
EXTENDS Show, SequenceTheorems, WellFoundedInduction, TLAPS

(***************************************************************************)
(* Induction over natural numbers and recursive functions, in a form the   *)
(* first-order provers can apply: about sets instead of about predicates.  *)
(***************************************************************************)

\* A set of natural numbers has a least one.
LEMMA LeastElement ==
  ASSUME NEW T, T \subseteq Nat, T # {}
  PROVE  \E x \in T : \A y \in T : x <= y
<1> DEFINE R == {ss \in Nat \X Nat : ss[1] < ss[2]}
<1>1. PICK x \in T : \A y \in T : <<y, x>> \notin R
  <2>1. IsWellFoundedOn(R, Nat)
    BY NatLessThanWellFounded DEF OpToRel
  <2> HIDE DEF R
  <2>2. QED
    BY <2>1, WFMin
<1>2. \A y \in T : ~(y < x)
  BY <1>1
<1>3. QED
  BY <1>2

\* A set that holds 0 and with every number the next one holds them all: a
\* number left out would have a least one left out, of which the one before is
\* in the set.
LEMMA NatInduct ==
  ASSUME NEW S, 0 \in S, \A n \in Nat : n \in S => n + 1 \in S
  PROVE  Nat \subseteq S
<1> DEFINE T == Nat \ S
<1>1. SUFFICES ASSUME T # {} PROVE FALSE
  OBVIOUS
<1>2. PICK x \in T : \A y \in T : x <= y
  <2>1. T \subseteq Nat
    OBVIOUS
  <2> HIDE DEF T
  <2>2. QED
    BY <1>1, <2>1, LeastElement
<1>3. x - 1 \in T
  OBVIOUS
<1>4. QED
  BY <1>2, <1>3

\* The same up to a bound.
LEMMA UpToInduct ==
  ASSUME NEW n \in Nat, NEW S, 0 \in S,
         \A i \in 1 .. n : i - 1 \in S => i \in S
  PROVE  0 .. n \subseteq S
<1> DEFINE T == {m \in Nat : m <= n => m \in S}
<1>1. 0 \in T
  OBVIOUS
<1>2. ASSUME NEW m \in Nat, m \in T
      PROVE  m + 1 \in T
  BY <1>2
<1>3. Nat \subseteq T
  <2> HIDE DEF T
  <2>1. QED
    BY <1>1, <1>2, NatInduct
<1>4. QED
  BY <1>3

\* f is defined by recursion: its first value is start, and G[i] takes each value
\* to the next.
Recursively(f, n, start, G) == f[0] = start /\ \A i \in 1 .. n : f[i] = G[i][f[i - 1]]

\* A function of i and of the value before it, applied over and over, makes a
\* function: what is defined by recursion exists.
LEMMA RecursionExists ==
  ASSUME NEW n \in Nat, NEW V, NEW start \in V, NEW G \in [1 .. n -> [V -> V]]
  PROVE  \E f \in [0 .. n -> V] : Recursively(f, n, start, G)
<1> DEFINE Upto(m) == {f \in [0 .. m -> V] : Recursively(f, m, start, G)}
           S == {m \in 0 .. n : Upto(m) # {}}
<1> USE DEF Recursively
<1>1. 0 \in S
  <2>1. [i \in 0 .. 0 |-> start] \in Upto(0)
    OBVIOUS
  <2>2. QED
    BY <2>1
<1>2. ASSUME NEW i \in 1 .. n, i - 1 \in S
      PROVE  i \in S
  <2>1. PICK f : f \in Upto(i - 1)
    BY <1>2
  <2> DEFINE last == G[i][f[i - 1]]
             g == [j \in 0 .. i |-> IF j < i THEN f[j] ELSE last]
  <2>2. f \in [0 .. i - 1 -> V] /\ f[i - 1] \in V /\ i - 1 \in 0 .. i - 1
    BY <2>1
  <2>3. last \in V
    BY <2>2
  <2>4. g \in [0 .. i -> V]
    <3> HIDE DEF last
    <3>1. QED
      BY <2>2, <2>3
  <2>5. ASSUME NEW j \in 1 .. i
        PROVE  g[j] = G[j][g[j - 1]]
    <3>1. CASE j = i
      <4>1. g[i] = last /\ g[i - 1] = f[i - 1]
        OBVIOUS
      <4>2. QED
        BY <3>1, <4>1
    <3>2. CASE j < i
      <4>1. j \in 1 .. i - 1 /\ g[j] = f[j] /\ g[j - 1] = f[j - 1]
        BY <3>2
      <4>2. QED
        BY <4>1, <2>1
    <3>3. QED
      BY <3>1, <3>2
  <2>6. g[0] = start
    BY <2>1
  <2>7. g \in Upto(i)
    <3> HIDE DEF g
    <3>1. QED
      BY <2>4, <2>5, <2>6
  <2>8. i \in 0 .. n /\ Upto(i) # {}
    <3> HIDE DEF Upto, g
    <3>1. QED
      BY <2>7
  <2>9. QED
    BY <2>8
<1>3. n \in S
  <2> HIDE DEF S
  <2>1. 0 .. n \subseteq S
    BY <1>1, <1>2, UpToInduct
  <2>2. QED
    BY <2>1
<1>4. QED
  BY <1>3

\* Concatenation does not leave P.
Concats(P) == <<>> \in P /\ \A a, b \in P : a \o b \in P

\* FlattenSeq stays within a set of sequences that concatenation does not leave.
LEMMA FlattenStays ==
  ASSUME NEW P, Concats(P), NEW s \in Seq(P)
  PROVE  FlattenSeq(s) \in P
<1> DEFINE n == Len(s)
           Def(f) == f = [i \in 1 .. Len(s) |-> IF i = 1 THEN s[i] ELSE f[i - 1] \o s[i]]
           fl == CHOOSE f : Def(f)
<1>1. n \in Nat /\ s \in [1 .. n -> P]
  OBVIOUS
<1>2. CASE n = 0
  BY <1>2 DEF FlattenSeq, Concats
<1>3. CASE n # 0
  <2> DEFINE G == [i \in 1 .. n |-> [x \in P |-> IF i = 1 THEN s[i] ELSE x \o s[i]]]
  <2>1. G \in [1 .. n -> [P -> P]]
    BY <1>1 DEF Concats
  <2>2. PICK h \in [0 .. n -> P] : \A i \in 1 .. n : h[i] = G[i][h[i - 1]]
    <3> DEFINE e == <<>>
    <3>1. e \in P /\ n \in Nat
      BY <1>1 DEF Concats
    <3> HIDE DEF G, n, e
    <3>2. \E h \in [0 .. n -> P] : Recursively(h, n, e, G)
      BY <3>1, <2>1, RecursionExists
    <3>3. QED
      BY <3>2 DEF Recursively
  <2> DEFINE f == [i \in 1 .. n |-> h[i]]
  <2>3. Def(f)
    <3>1. ASSUME NEW i \in 1 .. n
          PROVE  f[i] = IF i = 1 THEN s[i] ELSE f[i - 1] \o s[i]
      <4>1. h[i] = G[i][h[i - 1]] /\ h[i - 1] \in P
        <5>1. i \in 1 .. n /\ i - 1 \in 0 .. n
          BY <1>1
        <5> HIDE DEF G, n
        <5>2. QED
          BY <5>1, <2>2
      <4>2. h[i] = IF i = 1 THEN s[i] ELSE h[i - 1] \o s[i]
        BY <4>1, <1>1
      <4>3. QED
        BY <4>2, <1>1
    <3>2. QED
      BY <3>1, <1>1
  <2>4. Def(fl)
    <3> HIDE DEF f, Def
    <3>1. QED
      BY <2>3
  <2> HIDE DEF fl
  <2> DEFINE S == {i \in 0 .. n : i > 0 => fl[i] \in P}
  <2>5. 0 \in S
    BY <1>1
  <2>6. ASSUME NEW i \in 1 .. n, i - 1 \in S
        PROVE  i \in S
    <3>1. fl[i] = IF i = 1 THEN s[i] ELSE fl[i - 1] \o s[i]
      BY <2>4, <1>1
    <3>2. s[i] \in P
      BY <1>1
    <3>3. i > 1 => fl[i - 1] \in P
      BY <2>6
    <3>4. fl[i] \in P
      BY <3>1, <3>2, <3>3 DEF Concats
    <3>5. QED
      BY <3>4
  <2>7. n \in S
    <3> HIDE DEF S, n
    <3>1. 0 .. n \subseteq S
      BY <1>1, <2>5, <2>6, UpToInduct
    <3>2. QED
      BY <3>1, <1>1
  <2>8. FlattenSeq(s) = fl[n]
    BY <1>3 DEF FlattenSeq, fl
  <2>9. QED
    BY <2>7, <2>8, <1>1, <1>3
<1>4. QED
  BY <1>1, <1>2, <1>3

(***************************************************************************)
(* The printers of CapPrinters and ExtCapPrinters, in one or more lemmas   *)
(* for each: whatever a capability holds and however many entries it has,  *)
(* its printer reads the header of the capability and what an earlier      *)
(* step of it has fetched, and every table and shift is indexed by a field *)
(* that fits.  The exceptions are stated where they are: cap_ea and the    *)
(* cap_pm of the ADNA build read what was not fetched, cap_ltr and         *)
(* cap_multicast trust the width of a field.                               *)
(***************************************************************************)

Steps == [op : {"fetch", "try", "read", "index", "power"}, at : Nat, len : Nat]

\* A fetch, or one that may fail, of everything y reads.
FetchOf(x, y) == x.op \in {"fetch", "try"} /\ x.at <= y.at /\ y.at + y.len <= x.at + x.len

\* A step before step i of s fetches what that reads, and no part of the printer
\* that may be reached without that fetch begins in between.
Promised(s, i) ==
  \E j \in 1 .. i - 1 : FetchOf(s[j], s[i]) /\ \A k \in j + 1 .. i : s[k].op # "try"

\* Step i of s reads the header, or what an earlier step has fetched.
ReadsFetched(s, i) == s[i].at + s[i].len <= 4 \/ Promised(s, i)

\* Printers that read what they fetched; unless they are "wild", every index fits.
Printers(wild) ==
  {s \in Seq(Steps) : \A i \in DOMAIN s :
     /\ s[i].op = "read" => ReadsFetched(s, i)
     /\ s[i].op = "index" /\ ~wild => s[i].at < s[i].len}

\* What a concatenation takes from its first part.
LEMMA HeadOfConcat ==
  ASSUME NEW S, NEW a \in Seq(S), NEW b \in Seq(S)
  PROVE  /\ a \o b \in Seq(S)
         /\ Len(a \o b) = Len(a) + Len(b)
         /\ \A i \in 1 .. Len(a) : (a \o b)[i] = a[i]
  BY ConcatProperties

\* A function on the first numbers is a sequence.
LEMMA EntriesMakeSeq ==
  ASSUME NEW P, NEW n \in Nat, NEW f, f = [i \in 1 .. n |-> f[i]], \A i \in 1 .. n : f[i] \in P
  PROVE  f \in Seq(P)
<1>1. f \in [1 .. n -> P]
  OBVIOUS
<1>2. QED
  BY <1>1, SeqDef

\* Two printers run one after the other are a printer: no read loses its fetch.
LEMMA PrintersConcat ==
  ASSUME NEW wild \in BOOLEAN
  PROVE  Concats(Printers(wild))
<1>1. <<>> \in Printers(wild)
  BY DEF Printers
<1>2. ASSUME NEW a \in Printers(wild), NEW b \in Printers(wild)
      PROVE  a \o b \in Printers(wild)
  <2> DEFINE c == a \o b
  <2>1. /\ a \in Seq(Steps) /\ b \in Seq(Steps) /\ c \in Seq(Steps)
        /\ Len(c) = Len(a) + Len(b)
        /\ \A i \in 1 .. Len(a) : c[i] = a[i]
        /\ \A i \in 1 .. Len(b) : c[Len(a) + i] = b[i]
        /\ Len(a) \in Nat /\ Len(b) \in Nat
    BY ConcatProperties DEF Printers
  <2> HIDE DEF c
  <2>2. ASSUME NEW i \in 1 .. Len(a)
        PROVE  /\ c[i].op = "read" => ReadsFetched(c, i)
               /\ c[i].op = "index" /\ ~wild => c[i].at < c[i].len
    <3>1. /\ a[i].op = "read" => ReadsFetched(a, i)
          /\ a[i].op = "index" /\ ~wild => a[i].at < a[i].len
      BY <2>1 DEF Printers
    <3>2. \A k \in 1 .. i : c[k] = a[k]
      BY <2>1
    <3>3. ReadsFetched(a, i) => ReadsFetched(c, i)
      BY <3>2 DEF ReadsFetched, Promised
    <3>4. QED
      BY <2>1, <3>1, <3>3
  <2>3. ASSUME NEW i \in 1 .. Len(b)
        PROVE  /\ c[Len(a) + i].op = "read" => ReadsFetched(c, Len(a) + i)
               /\ c[Len(a) + i].op = "index" /\ ~wild => c[Len(a) + i].at < c[Len(a) + i].len
    <3>1. /\ b[i].op = "read" => ReadsFetched(b, i)
          /\ b[i].op = "index" /\ ~wild => b[i].at < b[i].len
      BY <2>1 DEF Printers
    <3>2. ASSUME ReadsFetched(b, i) PROVE ReadsFetched(c, Len(a) + i)
      <4>1. CASE b[i].at + b[i].len <= 4
        BY <4>1, <2>1 DEF ReadsFetched, Promised
      <4>2. ASSUME NEW j \in 1 .. i - 1, FetchOf(b[j], b[i]), \A k \in j + 1 .. i : b[k].op # "try"
            PROVE  ReadsFetched(c, Len(a) + i)
        <5>1. FetchOf(c[Len(a) + j], c[Len(a) + i])
          <6>1. j \in 1 .. Len(b)
            BY <2>1
          <6>2. c[Len(a) + j] = b[j] /\ c[Len(a) + i] = b[i]
            BY <2>1, <6>1
          <6>3. QED
            BY <4>2, <6>2
        <5>2. ASSUME NEW k \in Len(a) + j + 1 .. Len(a) + i PROVE c[k].op # "try"
          <6> DEFINE m == k - Len(a)
          <6>0. Len(a) \in Nat /\ Len(b) \in Nat
            BY <2>1
          <6>1. m \in j + 1 .. i /\ m \in 1 .. Len(b) /\ k = Len(a) + m
            BY <6>0
          <6> HIDE DEF m
          <6>2. c[k] = b[m]
            BY <6>1, <2>1
          <6>3. QED
            BY <4>2, <6>1, <6>2
        <5>3. Len(a) + j \in 1 .. Len(a) + i - 1
          BY <2>1
        <5>4. QED
          BY <5>1, <5>2, <5>3 DEF ReadsFetched, Promised
      <4>3. QED
        BY <3>2, <4>1, <4>2 DEF ReadsFetched, Promised
    <3>3. QED
      BY <2>1, <3>1, <3>2
  <2>4. ASSUME NEW i \in DOMAIN c
        PROVE  /\ c[i].op = "read" => ReadsFetched(c, i)
               /\ c[i].op = "index" /\ ~wild => c[i].at < c[i].len
    <3>1. i \in 1 .. Len(a) \/ (i - Len(a) \in 1 .. Len(b) /\ i = Len(a) + (i - Len(a)))
      BY <2>1
    <3>2. QED
      BY <2>2, <2>3, <3>1
  <2>5. QED
    BY <2>1, <2>4 DEF Printers, c
<1>3. QED
  BY <1>1, <1>2 DEF Concats

\* Steps that may follow a fetch of n bytes at o.
After(o, n, wild) ==
  {x \in Steps : /\ x.op # "try"
                 /\ x.op = "read" => x.at + x.len <= 4 \/ (o <= x.at /\ x.at + x.len <= o + n)
                 /\ x.op = "index" /\ ~wild => x.at < x.len}

\* A fetch before the first read covers all that stay within it.
LEMMA FetchFirst ==
  ASSUME NEW o \in Nat, NEW n \in Nat, NEW wild \in BOOLEAN,
         NEW s \in Seq(After(o, n, wild)), NEW k \in DOMAIN s, s[k] = Fetch(o, n),
         \A i \in 1 .. k - 1 : s[i].op # "read"
  PROVE  s \in Printers(wild)
<1>1. s \in Seq(Steps) /\ DOMAIN s = 1 .. Len(s) /\ Len(s) \in Nat
  BY DEF After
<1>2. ASSUME NEW i \in DOMAIN s
      PROVE  /\ s[i].op = "read" => ReadsFetched(s, i)
             /\ s[i].op = "index" /\ ~wild => s[i].at < s[i].len
  <2>1. s[i] \in After(o, n, wild) /\ \A j \in DOMAIN s : s[j].op # "try"
    BY DEF After
  <2>2. i \in Nat /\ k \in Nat /\ \A j \in k + 1 .. i : s[j].op # "try"
    BY <1>1, <2>1
  <2>3. ASSUME s[i].op = "read"
        PROVE  ReadsFetched(s, i)
    <3>1. k \in 1 .. i - 1
      BY <1>1, <2>3, <2>2 DEF Fetch, Step
    <3>2. s[i].at + s[i].len <= 4 \/ (o <= s[i].at /\ s[i].at + s[i].len <= o + n)
      BY <2>1, <2>3 DEF After
    <3>3. QED
      BY <3>1, <3>2, <2>2 DEF ReadsFetched, Promised, FetchOf, Fetch, Step
  <2>4. QED
    BY <2>1, <2>3 DEF After
<1>3. QED
  BY <1>1, <1>2 DEF Printers

\* The same for a fetch that comes first.
LEMMA FetchAtOnce ==
  ASSUME NEW o \in Nat, NEW n \in Nat, NEW wild \in BOOLEAN,
         NEW s \in Seq(After(o, n, wild)), s # <<>>, s[1] = Fetch(o, n)
  PROVE  s \in Printers(wild)
<1>1. 1 \in DOMAIN s /\ \A i \in 1 .. 1 - 1 : s[i].op # "read"
  OBVIOUS
<1>2. QED
  BY <1>1, FetchFirst

\* Printers that begin with that fetch.
Started(o, n, wild) == {s \in Seq(After(o, n, wild)) : s # <<>> /\ s[1] = Fetch(o, n)}

\* What follows within the block fetched leaves it a printer of that block.
LEMMA StartedGoesOn ==
  ASSUME NEW o \in Nat, NEW n \in Nat, NEW wild \in BOOLEAN,
         NEW s \in Started(o, n, wild), NEW t \in Seq(After(o, n, wild))
  PROVE  s \o t \in Started(o, n, wild)
<1>1. s \in Seq(After(o, n, wild)) /\ 1 \in 1 .. Len(s)
  BY DEF Started
<1>2. /\ s \o t \in Seq(After(o, n, wild))
      /\ Len(s \o t) = Len(s) + Len(t)
      /\ (s \o t)[1] = s[1]
      /\ Len(s) \in Nat /\ Len(t) \in Nat
  BY <1>1, ConcatProperties
<1>3. s \o t # <<>>
  BY <1>1, <1>2
<1>4. QED
  BY <1>2, <1>3 DEF Started

\* Such printers are printers.
LEMMA StartedIsPrinter ==
  ASSUME NEW o \in Nat, NEW n \in Nat, NEW wild \in BOOLEAN
  PROVE  Started(o, n, wild) \subseteq Printers(wild)
  BY FetchAtOnce DEF Started

\* So is one without steps.
LEMMA EmptyIsPrinter == \A wild \in BOOLEAN : <<>> \in Printers(wild)
  BY PrintersConcat DEF Concats

----------------------------------------------------------------------------

USE DEF Step, Fetch, Try, Byte, Word, Long, Index, PowerState

\* A row of registers within the block fetched.
LEMMA RegistersFollow ==
  ASSUME NEW o \in Nat, NEW n \in Nat, NEW wild \in BOOLEAN,
         NEW first \in Nat, NEW count \in Nat, o <= first, first + 4 * count <= o + n
  PROVE  Registers32(first, count) \in Seq(After(o, n, wild))
<1>1. ASSUME NEW i \in 1 .. count
      PROVE  Long(first + 4 * (i - 1)) \in After(o, n, wild)
  BY <1>1 DEF After, Steps
<1>2. QED
  BY <1>1 DEF Registers32

\* The seventh base register, read for a 64-bit base in the last slot, is
\* still within the sixty bytes fetched.
LEMMA Sriov ==
  ASSUME NEW past \in BOOLEAN
  PROVE  cap_sriov(past) \in Printers(FALSE)
<1> DEFINE A == After(4, 60, FALSE)
           h == <<Fetch(IOV.CAP, 60), Long(IOV.CAP), Word(IOV.CTRL), Word(IOV.STATUS),
    Word(IOV.INITIALVF), Word(IOV.TOTALVF), Word(IOV.NUMVF), Byte(IOV.FDL),
    Word(IOV.OFFSET), Word(IOV.STRIDE), Word(IOV.DID), Long(IOV.SUPPS), Long(IOV.SYSPS)>>
           slots == IF past THEN IOV.NUM_BAR + 1 ELSE IOV.NUM_BAR
           r == Registers32(IOV.BAR_BASE, slots)
           t == <<Long(IOV.MSAO)>>
<1>1. h \in Started(4, 60, FALSE)
  BY DEF IOV, After, Steps, Started
<1>2. r \in Seq(A)
  <2>1. slots \in {6, 7} /\ IOV.BAR_BASE = 36
    BY DEF IOV
  <2>2. \A wild \in BOOLEAN : /\ Registers32(36, 6) \in Seq(After(4, 60, wild))
                             /\ Registers32(36, 7) \in Seq(After(4, 60, wild))
    BY RegistersFollow
  <2>3. Registers32(36, 6) \in Seq(A) /\ Registers32(36, 7) \in Seq(A)
    BY <2>2
  <2> HIDE DEF slots
  <2>4. QED
    BY <2>1, <2>3
<1>3. t \in Seq(A)
  BY DEF IOV, After, Steps
<1> HIDE DEF h, r, t, A
<1>4. h \o r \o t \in Printers(FALSE)
  BY <1>1, <1>2, <1>3, StartedGoesOn, StartedIsPrinter DEF A
<1>5. QED
  BY <1>4 DEF cap_sriov, h, r, slots, t

USE DEF After, Steps, Started

\* Printers of one fetch and a few registers.
LEMMA OneFetch ==
  /\ cap_agp \in Printers(FALSE)
  /\ cap_msix \in Printers(FALSE)
  /\ cap_ssvid \in Printers(FALSE)
  /\ cap_af \in Printers(FALSE)
  /\ cap_sata_hba \in Printers(FALSE)
  /\ cap_pcix_nobridge \in Printers(FALSE)
  /\ cap_pcix_bridge \in Printers(FALSE)
<1>1. cap_agp \in Started(4, 8, FALSE)
  BY DEF cap_agp, AGP
<1>2. cap_msix \in Started(4, 8, FALSE)
  BY DEF cap_msix, MSIX
<1>3. cap_ssvid \in Started(0, 8, FALSE)
  BY DEF cap_ssvid, SSVID
<1>4. cap_af \in Started(3, 3, FALSE)
  BY DEF cap_af, AF
<1>5. cap_sata_hba \in Started(4, 4, FALSE)
  BY DEF cap_sata_hba, SATA_HBA
<1>6. cap_pcix_nobridge \in Started(4, 4, FALSE)
  BY DEF cap_pcix_nobridge, PCIX
<1>7. cap_pcix_bridge \in Started(4, 12, FALSE)
  BY DEF cap_pcix_bridge, PCIX_BRIDGE
<1> HIDE DEF Started
<1>8. QED
  BY <1>1, <1>2, <1>3, <1>4, <1>5, <1>6, <1>7, StartedIsPrinter

\* The same of the extended capabilities.
LEMMA OneFetchExt ==
  /\ cap_tph \in Printers(FALSE)
  /\ cap_ltr \in Printers(TRUE)
  /\ cap_sec \in Printers(FALSE)
  /\ cap_dsn \in Printers(FALSE)
  /\ cap_dpc \in Printers(FALSE)
  /\ cap_acs \in Printers(FALSE)
  /\ cap_ari \in Printers(FALSE)
  /\ cap_ats \in Printers(FALSE)
  /\ cap_pri \in Printers(FALSE)
  /\ cap_pasid \in Printers(FALSE)
  /\ cap_evendor \in Printers(FALSE)
  /\ cap_l1pm \in Printers(FALSE)
  /\ cap_ptm \in Printers(FALSE)
<1>1. cap_tph \in Started(4, 4, FALSE)
  BY DEF cap_tph, TPH
<1>2. cap_ltr \in Started(4, 4, TRUE)
  BY DEF cap_ltr, LTR, LatencyScale
<1>3. cap_sec \in Started(4, 12, FALSE)
  BY DEF cap_sec, SEC
<1>4. cap_dsn \in Started(4, 8, FALSE) /\ cap_ptm \in Started(4, 8, FALSE)
  BY DEF cap_dsn, cap_ptm
<1>5. cap_dpc \in Started(4, 8, FALSE)
  BY DEF cap_dpc, DPC
<1>6. cap_acs \in Started(4, 4, FALSE)
  BY DEF cap_acs, ACS
<1>7. cap_ari \in Started(4, 4, FALSE)
  BY DEF cap_ari, ARI
<1>8. cap_ats \in Started(4, 4, FALSE)
  BY DEF cap_ats, ATS
<1>9. cap_pri \in Started(4, 12, FALSE)
  BY DEF cap_pri, PRI
<1>10. cap_pasid \in Started(4, 4, FALSE)
  BY DEF cap_pasid, PASID
<1>11. cap_evendor \in Started(4, 4, FALSE)
  BY DEF cap_evendor, EVNDR
<1>12. cap_l1pm \in Started(4, 12, FALSE)
  BY DEF cap_l1pm, L1PM
<1> HIDE DEF Started
<1>13. QED
  BY <1>1, <1>2, <1>3, <1>4, <1>5, <1>6, <1>7, <1>8, <1>9, <1>10, <1>11, <1>12, StartedIsPrinter

\* The widths and frequencies of HyperTransport links are fields that fit.
LEMMA HtPrinters == cap_ht \subseteq Printers(FALSE)
<1> DEFINE A == After(4, 24, FALSE)
           B == After(4, 20, FALSE)
<1>1. LinkWidths \in Seq(A) /\ LinkWidths \in Seq(B)
  BY DEF LinkWidths
<1>2. ASSUME NEW recent \in BOOLEAN
      PROVE  cap_ht_pri(recent) \in Printers(FALSE)
  <2> DEFINE h == <<Fetch(HT_PRI.LCTR0, HT_PRI.SIZEOF - HT_PRI.LCTR0), Byte(HT_PRI.RID),
                    Word(HT_PRI.LCTR0), Word(HT_PRI.LCNF0)>>
             m == <<Word(HT_PRI.LCTR1), Word(HT_PRI.LCNF1)>>
             all == <<Byte(HT_PRI.LFRER0), LinkFreq, Byte(HT_PRI.LFCAP0), Byte(HT_PRI.FTR),
                      Byte(HT_PRI.LFRER1), LinkFreq, Byte(HT_PRI.LFCAP1), Word(HT_PRI.EH),
                      Byte(HT_PRI.MBU), Byte(HT_PRI.MLU), Byte(HT_PRI.BN)>>
             t == IF recent THEN all ELSE <<>>
  <2>1. h \in Started(4, 24, FALSE)
    BY DEF HT_PRI
  <2>2. m \in Seq(A)
    BY DEF HT_PRI
  <2>3. t \in Seq(A)
    <3>1. all \in Seq(A)
      BY DEF HT_PRI, LinkFreq
    <3> HIDE DEF all
    <3>2. QED
      BY <3>1
  <2>4. cap_ht_pri(recent) = h \o LinkWidths \o m \o LinkWidths \o t
    BY DEF cap_ht_pri
  <2> HIDE DEF h, m, all, t, Started, After
  <2>5. QED
    BY <1>1, <2>1, <2>2, <2>3, <2>4, StartedGoesOn, StartedIsPrinter
<1>3. ASSUME NEW recent \in BOOLEAN, NEW extended \in BOOLEAN
      PROVE  cap_ht_sec(recent, extended) \in Printers(FALSE)
  <2> DEFINE h == <<Fetch(HT_SEC.LCTR, HT_SEC.SIZEOF - HT_SEC.LCTR), Byte(HT_SEC.RID),
                    Word(HT_SEC.LCTR), Word(HT_SEC.LCNF)>>
             rec == <<Byte(HT_SEC.LFRER), LinkFreq, Byte(HT_SEC.LFCAP), Word(HT_SEC.FTR)>>
             more == <<Word(HT_SEC.EH), Byte(HT_SEC.MBU), Byte(HT_SEC.MLU)>>
             m == IF recent THEN rec ELSE <<>>
             t == IF recent /\ extended THEN more ELSE <<>>
  <2>1. h \in Started(4, 20, FALSE)
    BY DEF HT_SEC
  <2>2. m \in Seq(B) /\ t \in Seq(B)
    <3>1. rec \in Seq(B)
      BY DEF HT_SEC, LinkFreq
    <3>2. more \in Seq(B)
      BY DEF HT_SEC
    <3> HIDE DEF rec, more
    <3>3. QED
      BY <3>1, <3>2
  <2>3. cap_ht_sec(recent, extended) = h \o LinkWidths \o m \o t
    BY DEF cap_ht_sec
  <2> HIDE DEF h, m, t, Started, After
  <2>4. QED
    BY <1>1, <2>1, <2>2, <2>3, StartedGoesOn, StartedIsPrinter
<1>4. <<Fetch(HT_MSIM.ADDR_LO, 8), Long(HT_MSIM.ADDR_LO), Long(HT_MSIM.ADDR_HI)>> \in Printers(FALSE)
  <2>1. <<Fetch(HT_MSIM.ADDR_LO, 8), Long(HT_MSIM.ADDR_LO), Long(HT_MSIM.ADDR_HI)>> \in Started(4, 8, FALSE)
    BY DEF HT_MSIM
  <2> HIDE DEF Started
  <2>2. QED
    BY <2>1, StartedIsPrinter
<1>5. <<>> \in Printers(FALSE)
  BY EmptyIsPrinter
<1>6. SUFFICES ASSUME NEW s \in cap_ht
               PROVE  s \in Printers(FALSE)
  OBVIOUS
<1> DEFINE mapping == <<Fetch(HT_MSIM.ADDR_LO, 8), Long(HT_MSIM.ADDR_LO), Long(HT_MSIM.ADDR_HI)>>
<1>7. \/ \E recent \in BOOLEAN : s = cap_ht_pri(recent)
      \/ \E recent, extended \in BOOLEAN : s = cap_ht_sec(recent, extended)
      \/ s = mapping
      \/ s = <<>>
  BY <1>6 DEF cap_ht
<1> HIDE DEF mapping
<1>8. QED
  BY <1>2, <1>3, <1>4, <1>5, <1>7 DEF mapping

\* The message counts are looked up before the addresses are fetched.
LEMMA MsiPrinters ==
  ASSUME NEW is64 \in BOOLEAN, NEW maskable \in BOOLEAN
  PROVE  MsiSteps(is64, maskable) \in Printers(FALSE)
<1> DEFINE data == IF is64 THEN MSI.DATA_64 ELSE MSI.DATA_32
           mask == IF is64 THEN MSI.MASK_BIT_64 ELSE MSI.MASK_BIT_32
           pending == IF is64 THEN MSI.PENDING_64 ELSE MSI.PENDING_32
           n == data + 2 - MSI.ADDRESS_LO
           h == <<Index(32, 7), Index(32, 7), Fetch(MSI.ADDRESS_LO, n)>>
           up == <<Long(MSI.ADDRESS_HI)>>
           high == IF is64 THEN up ELSE <<>>
           m == <<Word(data), Long(MSI.ADDRESS_LO)>>
           masks == <<Fetch(mask, 8), Long(mask), Long(pending)>>
           t == IF maskable THEN masks ELSE <<>>
           s == h \o high \o m
           A == After(4, n, FALSE)
<1>1. data = n + 2 /\ n \in Nat /\ (is64 => n = 10) /\ (~is64 => n = 6)
  BY DEF MSI
<1>2. MSI.ADDRESS_LO = 4 /\ MSI.ADDRESS_HI = 8
  BY DEF MSI
<1>3. mask \in Nat /\ pending = mask + 4
  BY DEF MSI
<1>4. t \in Printers(FALSE)
  <2> HIDE DEF mask, pending
  <2>1. masks \in Started(mask, 8, FALSE)
    BY <1>3
  <2> HIDE DEF Started, masks
  <2>2. QED
    BY <1>3, <2>1, EmptyIsPrinter, StartedIsPrinter
<1> HIDE DEF t, n, data
<1>5. h \in Seq(A) /\ Len(h) = 3 /\ h[1].op = "index" /\ h[2].op = "index" /\ h[3] = Fetch(4, n)
  BY <1>1, <1>2
<1>6. high \in Seq(A)
  <2>1. is64 => up \in Seq(A)
    BY <1>1, <1>2
  <2> HIDE DEF up, A
  <2>2. QED
    BY <2>1
<1>7. m \in Seq(A)
  BY <1>1, <1>2
<1> HIDE DEF h, high, m, A
<1>8. s \in Seq(A) /\ 3 \in DOMAIN s /\ \A i \in 1 .. 3 : s[i] = h[i]
  <2>1. /\ h \o high \in Seq(A)
        /\ Len(h \o high) \in Nat
        /\ 3 <= Len(h \o high)
        /\ \A i \in 1 .. 3 : (h \o high)[i] = h[i]
    <3>1. Len(h) = 3 /\ h \in Seq(A) /\ high \in Seq(A) /\ Len(high) \in Nat
      BY <1>5, <1>6
    <3>2. /\ h \o high \in Seq(A)
          /\ Len(h \o high) = Len(h) + Len(high)
          /\ \A i \in 1 .. Len(h) : (h \o high)[i] = h[i]
      BY <3>1, HeadOfConcat
    <3>3. QED
      BY <3>1, <3>2
  <2> DEFINE g == h \o high
  <2> HIDE DEF g
  <2>2. g \in Seq(A) /\ Len(g) \in Nat /\ 3 <= Len(g) /\ \A i \in 1 .. 3 : g[i] = h[i]
    BY <2>1 DEF g
  <2>3. g \o m \in Seq(A) /\ 3 <= Len(g \o m) /\ \A i \in 1 .. 3 : (g \o m)[i] = g[i]
    BY <2>2, <1>7, ConcatProperties
  <2>4. QED
    BY <2>2, <2>3 DEF g
<1> HIDE DEF s
<1>9. s \in Printers(FALSE)
  <2>1. s[3] = Fetch(4, n) /\ \A i \in 1 .. 3 - 1 : s[i].op # "read"
    BY <1>5, <1>8
  <2> HIDE DEF After, Steps, Started, Fetch
  <2>2. QED
    BY <1>1, <1>8, <2>1, FetchFirst DEF A
<1>10. MsiSteps(is64, maskable) = s \o t
  BY DEF MsiSteps, s, h, high, m, t, n, data
<1>11. QED
  BY <1>4, <1>9, <1>10, PrintersConcat DEF Concats

----------------------------------------------------------------------------


\* The auxiliary current is looked up before the control register is fetched.
LEMMA PmPrinter == cap_pm(FALSE) \in Printers(FALSE)
<1> DEFINE s == <<Index(8, 7), Fetch(4, 4), Word(4), Byte(6)>>
<1>1. s \in Seq(After(4, 4, FALSE)) /\ 2 \in DOMAIN s /\ s[2] = Fetch(4, 4)
      /\ \A i \in 1 .. 2 - 1 : s[i].op # "read"
  OBVIOUS
<1>2. cap_pm(FALSE) = s
  BY DEF cap_pm, PM
<1> HIDE DEF s, After, Steps, Started
<1>3. QED
  BY <1>1, <1>2, FetchFirst

\* The fetch goes as far as the last register printed: to the link status, or
\* the slot status when there is a slot.
LEMMA ExpressPrinter ==
  ASSUME NEW build \in BOOLEAN, NEW slot \in BOOLEAN, NEW t
  PROVE  cap_express(build, t, slot) \in Printers(FALSE)
<1> DEFINE n == ExpressSize(t, slot)
           A == After(4, n, FALSE)
           h == <<Fetch(EXP.DEVCAP, n)>>
           devs == cap_express_dev(t)
           dev == IF build THEN <<>> ELSE devs
           links == cap_express_link(build)
           link == IF HasLink(t) THEN links ELSE <<>>
           slots == cap_express_slot(build)
           last == IF slot THEN slots ELSE <<>>
<1>1. n \in Nat /\ 16 <= n /\ (slot => 24 <= n)
  BY DEF ExpressSize
<1>2. cap_express(build, t, slot) = h \o dev \o link \o last
  BY DEF cap_express
<1> HIDE DEF n
<1>3. h \in Started(4, n, FALSE)
  BY <1>1 DEF EXP
<1>4. dev \in Seq(A)
  <2> DEFINE a == <<Long(EXP.DEVCAP), Index(32, 7 + 7), Index(32, 3)>>
             bb == <<Index(8, 7), Index(8, 7)>>
             b == IF t \in {ExpType.ENDPOINT, ExpType.LEG_END} THEN bb ELSE <<>>
             cc == <<Index(4, 3)>>
             c == IF t \in {ExpType.ENDPOINT, ExpType.UPSTREAM, ExpType.PCI_BRIDGE} THEN cc ELSE <<>>
             d == <<Word(EXP.DEVCTL), Index(32, 7 + 7), Index(32, 7 + 7), Word(EXP.DEVSTA)>>
  <2>1. a \in Seq(A)
    BY <1>1 DEF EXP
  <2>2. b \in Seq(A)
    <3>1. bb \in Seq(A)
      OBVIOUS
    <3> HIDE DEF bb, A
    <3>2. QED
      BY <3>1
  <2>3. c \in Seq(A)
    <3>1. cc \in Seq(A)
      OBVIOUS
    <3> HIDE DEF cc, A
    <3>2. QED
      BY <3>1
  <2>4. d \in Seq(A)
    BY <1>1 DEF EXP
  <2>5. devs = a \o b \o c \o d
    BY DEF cap_express_dev
  <2> HIDE DEF a, b, c, d, devs, A
  <2>6. a \o b \in Seq(A)
    BY <2>1, <2>2, HeadOfConcat
  <2>7. (a \o b) \o c \in Seq(A)
    BY <2>6, <2>3, HeadOfConcat
  <2>8. ((a \o b) \o c) \o d \in Seq(A)
    BY <2>7, <2>4, HeadOfConcat
  <2>9. QED
    BY <2>5, <2>8
<1>5. link \in Seq(A)
  <2> DEFINE a == <<Long(EXP.LNKCAP)>>
             bb == <<Index(8, 7), Index(8, 7)>>
             b == IF build THEN <<>> ELSE bb
             c == <<Word(EXP.LNKCTL), Index(4, 3), Word(EXP.LNKSTA)>>
  <2>1. a \in Seq(A)
    BY <1>1 DEF EXP
  <2>2. b \in Seq(A)
    <3>1. bb \in Seq(A)
      OBVIOUS
    <3> HIDE DEF bb, A
    <3>2. QED
      BY <3>1
  <2>3. c \in Seq(A)
    BY <1>1 DEF EXP
  <2>4. links = a \o b \o c
    BY DEF cap_express_link
  <2> HIDE DEF a, b, c, links, A
  <2>5. a \o b \in Seq(A)
    BY <2>1, <2>2, HeadOfConcat
  <2>6. (a \o b) \o c \in Seq(A)
    BY <2>5, <2>3, HeadOfConcat
  <2>7. QED
    BY <2>4, <2>6
<1>6. last \in Seq(A)
  <2> DEFINE a == <<Long(EXP.SLTCAP)>>
             bb == <<Index(4, 3)>>
             b == IF build THEN <<>> ELSE bb
             c == <<Word(EXP.SLTCTL)>>
             dd == <<Index(4, 3), Index(4, 3)>>
             d == IF build THEN <<>> ELSE dd
             e == <<Word(EXP.SLTSTA)>>
  <2>1. slot => a \in Seq(A) /\ c \in Seq(A) /\ e \in Seq(A)
    BY <1>1 DEF EXP
  <2>2. b \in Seq(A) /\ d \in Seq(A)
    <3>1. bb \in Seq(A) /\ dd \in Seq(A)
      OBVIOUS
    <3> HIDE DEF bb, dd, A
    <3>2. QED
      BY <3>1
  <2>4. slots = a \o b \o c \o d \o e
    BY DEF cap_express_slot
  <2> HIDE DEF a, b, c, d, e, slots, A
  <2>5. a \o b \in Seq(A) \/ ~slot
    BY <2>1, <2>2, HeadOfConcat
  <2>6. (a \o b) \o c \in Seq(A) \/ ~slot
    BY <2>1, <2>5, HeadOfConcat
  <2>7. ((a \o b) \o c) \o d \in Seq(A) \/ ~slot
    BY <2>2, <2>6, HeadOfConcat
  <2>8. (((a \o b) \o c) \o d) \o e \in Seq(A) \/ ~slot
    BY <2>1, <2>7, HeadOfConcat
  <2>9. QED
    BY <2>4, <2>8
<1> HIDE DEF h, dev, link, last, Started, After
<1>7. h \o dev \o link \o last \in Printers(FALSE)
  BY <1>1, <1>3, <1>4, <1>5, <1>6, StartedGoesOn, StartedIsPrinter
<1>8. QED
  BY <1>2, <1>7

\* The length of a virtio capability decides what is fetched, and what is read.
LEMMA VendorPrinters == show_vendor_caps(VendorLengths) \subseteq Printers(FALSE)
<1>1. ASSUME NEW length \in 0 .. 255, NEW notify \in BOOLEAN
      PROVE  show_vendor_caps_virtio(length, notify) \in Printers(FALSE)
  <2> DEFINE h == <<Fetch(0, length), Byte(4), Long(8), Long(12)>>
             tt == <<Long(16)>>
             t == IF notify /\ length >= 20 THEN tt ELSE <<>>
             A == After(0, length, FALSE)
  <2>1. CASE length < 16
    BY <2>1, EmptyIsPrinter DEF show_vendor_caps_virtio
  <2>2. CASE length >= 16
    <3>1. h \in Started(0, length, FALSE)
      BY <2>2
    <3>2. t \in Seq(A)
      <4>1. length >= 20 => tt \in Seq(A)
        OBVIOUS
      <4> HIDE DEF tt, A
      <4>2. QED
        BY <4>1
    <3>3. show_vendor_caps_virtio(length, notify) = h \o t
      BY <2>2 DEF show_vendor_caps_virtio
    <3>4. length \in Nat /\ 0 \in Nat
      OBVIOUS
    <3> HIDE DEF h, t, Started, After
    <3>5. h \o t \in Started(0, length, FALSE)
      BY <3>1, <3>2, <3>4, StartedGoesOn DEF A
    <3>6. QED
      BY <3>3, <3>4, <3>5, StartedIsPrinter
  <2> HIDE DEF h, t, A, Started, After
  <2>3. length < 16 \/ length >= 16
    OBVIOUS
  <2>4. QED
    BY <2>1, <2>2, <2>3
<1>2. VendorLengths \subseteq 0 .. 255
  BY SizesAssumption
<1> HIDE DEF After, Steps, Started
<1>3. SUFFICES ASSUME NEW s \in show_vendor_caps(VendorLengths)
               PROVE  s \in Printers(FALSE)
  OBVIOUS
<1>4. \E length \in VendorLengths : \E notify \in BOOLEAN : s = show_vendor_caps_virtio(length, notify)
  BY <1>3 DEF show_vendor_caps
<1>5. QED
  BY <1>1, <1>2, <1>4

\* Any step but a shift.
Unshifting == {x \in Steps : x.op # "index"}

Entry == [es : 0 .. 7, baseHigh : BOOLEAN, offsetHigh : BOOLEAN]

\* Entries of an enhanced allocation lie one after the other.
LEMMA EntryBaseIsNat ==
  ASSUME NEW bridge \in BOOLEAN, NEW list \in Seq(Entry), NEW i \in 1 .. Len(list)
  PROVE  EntryBase(bridge, list, i) \in Nat
<1> DEFINE n == Len(list)
           start == IF bridge THEN 8 ELSE 4
           G == [j \in 1 .. n |-> [v \in Nat |-> v + 4 + 4 * list[j].es]]
           base == CHOOSE f : f = [j \in 0 .. n |-> IF j = 0 THEN start ELSE f[j - 1] + 4 + 4 * list[j].es]
<1>1. n \in Nat /\ start \in Nat
  OBVIOUS
<1>2. \A j \in 1 .. n : list[j].es \in Nat
  <2>1. ASSUME NEW j \in 1 .. n PROVE list[j] \in Entry
    BY <2>1
  <2>2. ASSUME NEW e \in Entry PROVE e.es \in Nat
    BY <2>2 DEF Entry
  <2>3. QED
    BY <2>1, <2>2
<1>3. G \in [1 .. n -> [Nat -> Nat]]
  BY <1>2
<1> HIDE DEF G, n, start
<1>4. PICK f \in [0 .. n -> Nat] : Recursively(f, n, start, G)
  BY <1>1, <1>3, RecursionExists
<1>5. f = [j \in 0 .. n |-> IF j = 0 THEN start ELSE f[j - 1] + 4 + 4 * list[j].es]
  <2>1. ASSUME NEW j \in 0 .. n, j # 0 PROVE f[j] = f[j - 1] + 4 + 4 * list[j].es
    <3>1. j \in 1 .. n /\ j - 1 \in 0 .. n
      BY <2>1, <1>1
    <3>2. f[j - 1] \in Nat
      BY <3>1
    <3>3. f[j] = G[j][f[j - 1]]
      BY <3>1, <1>4 DEF Recursively
    <3>4. QED
      BY <3>1, <3>2, <3>3 DEF G
  <2>2. f[0] = start
    BY <1>4 DEF Recursively
  <2>3. QED
    BY <2>1, <2>2
<1>6. base = [j \in 0 .. n |-> IF j = 0 THEN start ELSE base[j - 1] + 4 + 4 * list[j].es]
  BY <1>5
<1> HIDE DEF base
<1>7. ASSUME NEW j \in Nat, j <= n => base[j] \in Nat, j + 1 <= n
      PROVE  base[j + 1] \in Nat
  <2>1. j + 1 \in 0 .. n /\ j + 1 # 0 /\ (j + 1) - 1 = j /\ j <= n
    BY <1>1, <1>7
  <2>2. base[j + 1] = base[j] + 4 + 4 * list[j + 1].es
    BY <1>6, <2>1
  <2>3. list[j + 1].es \in Nat
    BY <1>2, <2>1
  <2>4. PICK u, v \in Nat : u = base[j] /\ v = list[j + 1].es
    BY <1>7, <2>1, <2>3
  <2>5. base[j + 1] = u + 4 + 4 * v
    BY <2>2, <2>4
  <2>6. QED
    BY <2>5
<1>8. base[0] \in Nat
  BY <1>6, <1>1
<1> DEFINE S == {j \in Nat : j <= n => base[j] \in Nat}
<1>9. 0 \in S /\ \A j \in Nat : j \in S => j + 1 \in S
  BY <1>7, <1>8
<1> HIDE DEF S
<1>10. Nat \subseteq S
  BY <1>9, NatInduct
<1>11. base[i - 1] \in Nat
  BY <1>10, <1>1 DEF S, n
<1>12. QED
  BY <1>11 DEF EntryBase, base, n, start

\* An enhanced allocation looks nothing up, whatever its entries.
LEMMA EaPrinter ==
  ASSUME NEW bridge \in BOOLEAN, NEW list \in Seq(Entry)
  PROVE  EaSteps(bridge, list) \in Seq(Unshifting)
<1> DEFINE parts == [i \in 1 .. Len(list) |-> EntrySteps(EntryBase(bridge, list, i), list[i])]
           hh == <<Fetch(4, 2), Byte(EA.CAP_TYPE1_SECONDARY), Byte(EA.CAP_TYPE1_SUBORDINATE)>>
           h == IF bridge THEN hh ELSE <<>>
           S == Seq(Unshifting)
<1>1. ASSUME NEW base \in Nat, NEW e \in Entry
      PROVE  EntrySteps(base, e) \in S
  <2> DEFINE k == e.es
             a == <<Fetch(base, 4), Long(base), Fetch(base + 4, 4 * k), Long(base + 4), Long(base + 8)>>
             bb == <<Long(base + 12)>>
             b == IF e.baseHigh THEN bb ELSE <<>>
             cc == <<Long(IF e.baseHigh THEN base + 16 ELSE base + 12)>>
             c == IF e.offsetHigh THEN cc ELSE <<>>
  <2>1. k \in Nat
    BY DEF Entry
  <2> HIDE DEF k
  <2>2. a \in S
    BY <2>1 DEF Unshifting
  <2>3. b \in S
    <3>1. bb \in S
      BY DEF Unshifting
    <3> HIDE DEF bb
    <3>2. QED
      BY <3>1
  <2>4. c \in S
    <3>1. cc \in S
      BY DEF Unshifting
    <3> HIDE DEF cc
    <3>2. QED
      BY <3>1
  <2>5. EntrySteps(base, e) = a \o b \o c
    BY DEF EntrySteps, k
  <2> HIDE DEF a, b, c
  <2>6. QED
    BY <2>2, <2>3, <2>4, <2>5, HeadOfConcat
<1>2. parts \in Seq(S)
  <2>1. ASSUME NEW i \in 1 .. Len(list) PROVE parts[i] \in S
    <3>1. EntryBase(bridge, list, i) \in Nat /\ list[i] \in Entry
      BY EntryBaseIsNat
    <3>2. QED
      BY <3>1, <1>1
  <2> HIDE DEF S
  <2>2. QED
    BY <2>1
<1>3. h \in S
  <2>1. hh \in S
    BY DEF Unshifting, EA
  <2> HIDE DEF hh
  <2>2. QED
    BY <2>1
<1> HIDE DEF parts, h
<1>4. Concats(S)
  BY HeadOfConcat DEF Concats
<1> HIDE DEF S
<1>5. FlattenSeq(parts) \in S
  BY <1>2, <1>4, FlattenStays
<1>6. h \o FlattenSeq(parts) \in S
  BY <1>3, <1>4, <1>5 DEF Concats
<1>7. QED
  BY <1>6 DEF EaSteps, h, parts, S

----------------------------------------------------------------------------


\* The root registers are a second block, fetched apart.
LEMMA AerPrinter ==
  ASSUME NEW root \in BOOLEAN
  PROVE  cap_aer(root) \in Printers(FALSE)
<1> DEFINE h == <<Fetch(ERR.UNCOR_STATUS, 40)>>
           r == Registers32(ERR.UNCOR_STATUS, 10)
           tt == <<Fetch(ERR.ROOT_COMMAND, 12), Long(ERR.ROOT_COMMAND), Long(ERR.ROOT_STATUS),
                   Word(ERR.ROOT_COR_SRC), Word(ERR.ROOT_SRC)>>
           t == IF root THEN tt ELSE <<>>
<1>1. h \in Started(4, 40, FALSE)
  BY DEF ERR
<1>2. r \in Seq(After(4, 40, FALSE))
  <2>1. \A wild \in BOOLEAN : Registers32(4, 10) \in Seq(After(4, 40, wild))
    <3> HIDE DEF After, Steps
    <3>1. QED
      BY RegistersFollow
  <2>2. ERR.UNCOR_STATUS = 4
    BY DEF ERR
  <2> HIDE DEF After
  <2>3. QED
    BY <2>1, <2>2
<1>3. t \in Printers(FALSE)
  <2>1. tt \in Started(44, 12, FALSE)
    BY DEF ERR
  <2> HIDE DEF tt, Started
  <2>2. QED
    BY <2>1, StartedIsPrinter, EmptyIsPrinter
<1>4. cap_aer(root) = h \o r \o t
  BY DEF cap_aer
<1> HIDE DEF h, r, t, After, Started
<1>5. h \o r \in Printers(FALSE)
  BY <1>1, <1>2, StartedGoesOn, StartedIsPrinter
<1>6. (h \o r) \o t \in Printers(FALSE)
  BY <1>3, <1>5, PrintersConcat DEF Concats
<1>7. QED
  BY <1>4, <1>6

\* All of a multicast capability is fetched; its sizes are shifted by unchecked.
LEMMA McastPrinter ==
  ASSUME NEW endpoint \in BOOLEAN
  PROVE  cap_multicast(endpoint) \in Printers(TRUE)
<1> DEFINE A == After(4, 48, TRUE)
           a == <<Fetch(MCAST.CAP, 48), Word(MCAST.CAP)>>
           shift == <<Index(32, 63)>>
           b == IF endpoint THEN shift ELSE <<>>
           c == <<Word(MCAST.CTRL)>>
           d == Registers32(MCAST.BAR, 8)
           ee == Registers32(MCAST.OVL_BAR, 2)
           e == IF endpoint THEN <<>> ELSE ee \o shift
<1>1. a \in Started(4, 48, TRUE)
  BY DEF MCAST
<1>2. shift \in Seq(A)
  OBVIOUS
<1>3. c \in Seq(A)
  BY DEF MCAST
<1>4. d \in Seq(A) /\ ee \in Seq(A)
  <2>1. \A wild \in BOOLEAN : /\ Registers32(8, 8) \in Seq(After(4, 48, wild))
                              /\ Registers32(40, 2) \in Seq(After(4, 48, wild))
    <3> HIDE DEF After, Steps
    <3>1. QED
      BY RegistersFollow
  <2>2. MCAST.BAR = 8 /\ MCAST.OVL_BAR = 40
    BY DEF MCAST
  <2> HIDE DEF After
  <2>3. QED
    BY <2>1, <2>2
<1> HIDE DEF shift, ee, A
<1>5. b \in Seq(A) /\ e \in Seq(A)
  BY <1>2, <1>4, HeadOfConcat
<1>6. cap_multicast(endpoint) = a \o b \o c \o d \o e
  BY DEF cap_multicast, shift, ee
<1> HIDE DEF a, b, c, d, e, Started, After
<1>7. a \o b \o c \o d \o e \in Started(4, 48, TRUE)
  BY <1>1, <1>3, <1>4, <1>5, StartedGoesOn DEF A
<1>8. QED
  BY <1>6, <1>7, StartedIsPrinter

\* Each resource of a virtual channel is fetched on its own, and passed over
\* when it cannot be.
LEMMA VcPrinter ==
  ASSUME NEW n \in Nat
  PROVE  cap_vc(n) \in Printers(FALSE)
<1> DEFINE h == <<Fetch(4, 24), Long(VC.PORT_REG1), Long(VC.PORT_REG2), Word(VC.PORT_CTRL),
                  Word(VC.PORT_STATUS), Index(32, 3)>>
           parts == [i \in 1 .. n + 1 |->
             LET pos == VC.RES_CAP + 12 * (i - 1)
             IN  <<Try(pos, 12), Long(pos), Long(pos + 4), Word(pos + 10)>>]
<1>1. h \in Printers(FALSE)
  <2>1. h \in Started(4, 24, FALSE)
    BY DEF VC
  <2> HIDE DEF h, Started
  <2>2. QED
    BY <2>1, StartedIsPrinter
<1>2. ASSUME NEW pos \in Nat
      PROVE  <<Try(pos, 12), Long(pos), Long(pos + 4), Word(pos + 10)>> \in Printers(FALSE)
  <2> DEFINE s == <<Try(pos, 12), Long(pos), Long(pos + 4), Word(pos + 10)>>
  <2>1. s \in Seq(Steps)
    OBVIOUS
  <2>2. \A i \in 2 .. 4 : FetchOf(s[1], s[i]) /\ s[i].op = "read"
    BY DEF FetchOf
  <2>3. s[1].op = "try"
    OBVIOUS
  <2>4. DOMAIN s = 1 .. 4
    OBVIOUS
  <2> HIDE DEF s
  <2>5. \A i \in 2 .. 4 : ReadsFetched(s, i)
    BY <2>2 DEF ReadsFetched, Promised
  <2>6. ASSUME NEW i \in DOMAIN s
        PROVE  (s[i].op = "read" => ReadsFetched(s, i)) /\ s[i].op # "index"
    <3>1. i = 1 \/ i \in 2 .. 4
      BY <2>4
    <3>2. QED
      BY <3>1, <2>2, <2>3, <2>5
  <2>7. s \in Printers(FALSE)
    BY <2>1, <2>6 DEF Printers
  <2>8. QED
    BY <2>7 DEF s
<1>3. ASSUME NEW i \in 1 .. n + 1 PROVE parts[i] \in Printers(FALSE)
  <2>1. VC.RES_CAP + 12 * (i - 1) \in Nat
    BY DEF VC
  <2> HIDE DEF Step, Fetch, Try, Byte, Word, Long
  <2>2. QED
    BY <2>1, <1>2
<1>4. parts \in Seq(Printers(FALSE))
  <2> HIDE DEF Step, Fetch, Try, Byte, Word, Long
  <2>1. parts = [i \in 1 .. n + 1 |-> parts[i]]
    OBVIOUS
  <2> HIDE DEF parts
  <2>2. n + 1 \in Nat
    OBVIOUS
  <2> HIDE DEF After, Steps, Started
  <2>3. QED
    BY <1>3, <2>1, <2>2, EntriesMakeSeq
<1> HIDE DEF parts, h
<1>5. FlattenSeq(parts) \in Printers(FALSE)
  BY <1>4, PrintersConcat, FlattenStays
<1>6. h \o FlattenSeq(parts) \in Printers(FALSE)
  BY <1>1, <1>5, PrintersConcat DEF Concats
<1>7. QED
  BY <1>6 DEF cap_vc, h, parts

\* Each link is fetched on its own.
LEMMA RclinkPrinter ==
  ASSUME NEW n \in Nat
  PROVE  cap_rclink(n) \in Printers(FALSE)
<1> DEFINE h == <<Fetch(4, RCLINK.LINK1 - 4), Long(RCLINK.ESD)>>
           part(pos) == <<Fetch(pos, RCLINK.LINK_SIZE), Long(pos + RCLINK.LINK_DESC),
          Long(pos + RCLINK.LINK_ADDR), Long(pos + RCLINK.LINK_ADDR + 4)>>
           parts == [i \in 1 .. n |-> part(RCLINK.LINK1 + (i - 1) * RCLINK.LINK_SIZE)]
<1>1. h \in Printers(FALSE)
  <2>1. h \in Started(4, 12, FALSE)
    BY DEF RCLINK
  <2> HIDE DEF h, Started
  <2>2. QED
    BY <2>1, StartedIsPrinter
<1>2. ASSUME NEW pos \in Nat
      PROVE  part(pos) \in Printers(FALSE)
  <2>1. part(pos) \in Started(pos, 16, FALSE)
    BY DEF RCLINK
  <2> HIDE DEF part, Started
  <2>2. QED
    BY <2>1, StartedIsPrinter
<1> HIDE DEF part
<1>3. ASSUME NEW i \in 1 .. n PROVE parts[i] \in Printers(FALSE)
  <2>1. RCLINK.LINK1 + (i - 1) * RCLINK.LINK_SIZE \in Nat
    BY DEF RCLINK
  <2>2. QED
    BY <2>1, <1>2
<1>4. parts \in Seq(Printers(FALSE))
  <2>1. parts = [i \in 1 .. n |-> parts[i]]
    OBVIOUS
  <2> HIDE DEF parts, After, Steps, Started
  <2>3. QED
    BY <1>3, <2>1, EntriesMakeSeq
<1> HIDE DEF parts, h
<1>5. FlattenSeq(parts) \in Printers(FALSE)
  BY <1>4, PrintersConcat, FlattenStays
<1>6. h \o FlattenSeq(parts) \in Printers(FALSE)
  BY <1>1, <1>5, PrintersConcat DEF Concats
<1>7. QED
  BY <1>6 DEF cap_rclink, h, parts, part

\* Each base address is fetched on its own.
LEMMA RebarPrinter ==
  ASSUME NEW n \in Nat
  PROVE  cap_rebar(n) \in Printers(FALSE)
<1> DEFINE part(i) == <<Fetch(8 * i - 4, 8), Long(8 * i - 4), Long(8 * i), Index(32, 9)>>
           parts == [i \in 1 .. n |-> part(i)]
<1>1. ASSUME NEW i \in 1 .. n PROVE part(i) \in Printers(FALSE)
  <2>0. 8 * i - 4 \in Nat
    OBVIOUS
  <2>1. part(i) \in Started(8 * i - 4, 8, FALSE)
    OBVIOUS
  <2> HIDE DEF part, Started
  <2>2. QED
    BY <2>0, <2>1, StartedIsPrinter
<1> HIDE DEF part
<1>2. parts \in Seq(Printers(FALSE))
  <2>1. parts = [i \in 1 .. n |-> parts[i]] /\ \A i \in 1 .. n : parts[i] = part(i)
    OBVIOUS
  <2> HIDE DEF parts, After, Steps, Started
  <2>2. QED
    BY <1>1, <2>1, EntriesMakeSeq
<1> HIDE DEF parts
<1>3. FlattenSeq(parts) \in Printers(FALSE)
  BY <1>2, PrintersConcat, FlattenStays
<1>4. QED
  BY <1>3 DEF cap_rebar, parts, part

\* The twelve bytes fetched hold the bus numbers, printed or not.
LEMMA RcecPrinter ==
  ASSUME NEW numbered \in BOOLEAN
  PROVE  cap_rcec(numbered) \in Printers(FALSE)
<1> DEFINE h == <<Fetch(0, 12), Long(0), Long(RCEC.RCIEP_BMAP)>>
           tt == <<Long(RCEC.BUSN_REG)>>
           t == IF numbered THEN tt ELSE <<>>
<1>1. h \in Started(0, 12, FALSE) /\ tt \in Seq(After(0, 12, FALSE))
  BY DEF RCEC
<1>2. cap_rcec(numbered) = h \o t
  BY DEF cap_rcec
<1> HIDE DEF h, tt, Started, After
<1>3. h \o t \in Started(0, 12, FALSE)
  <2>1. CASE numbered
    BY <2>1, <1>1, StartedGoesOn
  <2>2. CASE ~numbered
    <3>1. <<>> \in Seq(After(0, 12, FALSE))
      OBVIOUS
    <3>2. QED
      BY <2>2, <3>1, <1>1, StartedGoesOn
  <2>3. QED
    BY <2>1, <2>2
<1>4. QED
  BY <1>2, <1>3, StartedIsPrinter

\* The registers of CXL are fetched apart from the header.
LEMMA DvsecPrinter ==
  ASSUME NEW cxl \in BOOLEAN
  PROVE  cap_dvsec(cxl) \in Printers(FALSE)
<1> DEFINE h == <<Fetch(DVSEC.HEADER1, 8), Long(DVSEC.HEADER1), Long(DVSEC.HEADER2)>>
           t == IF cxl THEN cap_dvsec_cxl ELSE <<>>
<1>1. h \in Started(4, 8, FALSE)
  BY DEF DVSEC
<1>2. cap_dvsec_cxl \in Started(10, 12, FALSE)
  BY DEF CXL, cap_dvsec_cxl
<1>3. cap_dvsec(cxl) = h \o t
  BY DEF cap_dvsec
<1> HIDE DEF h, Started
<1>4. h \in Printers(FALSE) /\ t \in Printers(FALSE)
  BY <1>1, <1>2, StartedIsPrinter, EmptyIsPrinter
<1>5. QED
  BY <1>3, <1>4, PrintersConcat DEF Concats

----------------------------------------------------------------------------

HIDE DEF Step, Fetch, Try, Byte, Word, Long, Index, PowerState, After, Steps, Started

\* Everything show_caps may run but the two printers of ReadsUnfetched.
LEMMA StdPrinted ==
  ASSUME adna \in BOOLEAN, NEW id, NEW s \in StdPrinters(id),
         ~(adna /\ id = CapId.PM), ~(~adna /\ id = CapId.EA)
  PROVE  s \in Printers(FALSE)
<1>1. \/ adna /\ id = CapId.PM
      \/ ~adna /\ s \in {cap_pm(adna)}
      \/ s \in {cap_agp}
      \/ s \in cap_msi
      \/ s \in cap_pcix
      \/ s \in cap_ht
      \/ s \in show_vendor_caps(VendorLengths)
      \/ s \in {cap_ssvid}
      \/ s \in {cap_msix}
      \/ s \in {cap_sata_hba}
      \/ s \in {cap_af}
      \/ ~adna /\ id = CapId.EA
      \/ s \in {<<>>}
  BY ZenonT(60) DEF StdPrinters
<1>2. ASSUME s \in cap_msi
      PROVE  s \in Printers(FALSE)
  <2>1. \E is64, maskable \in BOOLEAN : s = MsiSteps(is64, maskable)
    BY <1>2 DEF cap_msi
  <2>2. QED
    BY <2>1, MsiPrinters
<1>3. cap_pcix \subseteq Printers(FALSE)
  BY OneFetch, EmptyIsPrinter DEF cap_pcix
<1>4. ~adna => cap_pm(adna) = cap_pm(FALSE)
  BY DEF cap_pm
<1>5. QED
  BY <1>1, <1>2, <1>3, <1>4, PmPrinter, OneFetch, HtPrinters, VendorPrinters, EmptyIsPrinter

\* Everything show_ext_caps may run.
LEMMA ExtPrinted ==
  ASSUME NEW id, NEW s \in ExtPrinters(id)
  PROVE  s \in Printers(id \in {ExtCapId.LTR, ExtCapId.MCAST})
<1> DEFINE wild == id \in {ExtCapId.LTR, ExtCapId.MCAST}
<1> DEFINE F == Printers(FALSE)
           root == type \in {ExpType.ROOT_PORT, ExpType.ROOT_EC}
           endpoint == type \in {ExpType.ENDPOINT, ExpType.ROOT_INT_EP}
<1>1. \/ s \in {cap_dsn}
      \/ s \in {cap_aer(root)}
      \/ s \in {cap_dpc}
      \/ s \in {cap_vc(n) : n \in Counts \cap 0 .. 7}
      \/ s \in {cap_rclink(n) : n \in Counts}
      \/ s \in {cap_rcec(numbered) : numbered \in BOOLEAN}
      \/ s \in {cap_evendor}
      \/ s \in {cap_acs}
      \/ s \in {cap_ari}
      \/ s \in {cap_ats}
      \/ s \in {cap_sriov(past) : past \in BOOLEAN}
      \/ wild /\ s \in {cap_multicast(endpoint)}
      \/ s \in {cap_pri}
      \/ s \in {cap_rebar(n) : n \in Counts \cap 1 .. 6}
      \/ s \in {cap_tph}
      \/ wild /\ s \in {cap_ltr}
      \/ s \in {cap_sec}
      \/ s \in {cap_pasid}
      \/ s \in {cap_l1pm}
      \/ s \in {cap_ptm}
      \/ s \in {cap_dvsec(cxl) : cxl \in BOOLEAN}
      \/ s \in {<<>>}
  BY ZenonT(60) DEF ExtPrinters
<1>3. Counts \subseteq Nat
  BY SizesAssumption
<1>4. ASSUME \E n \in Nat : s = cap_vc(n) \/ s = cap_rclink(n) \/ s = cap_rebar(n)
      PROVE  s \in F
  BY <1>4, VcPrinter, RclinkPrinter, RebarPrinter
<1>5. ASSUME \E f \in BOOLEAN : s = cap_rcec(f) \/ s = cap_sriov(f) \/ s = cap_dvsec(f)
      PROVE  s \in F
  BY <1>5, RcecPrinter, Sriov, DvsecPrinter
<1>6. cap_aer(root) \in F /\ cap_multicast(endpoint) \in Printers(TRUE)
  <2>1. root \in BOOLEAN /\ endpoint \in BOOLEAN
    BY DEF root, endpoint
  <2> HIDE DEF root, endpoint
  <2>2. QED
    BY <2>1, AerPrinter, McastPrinter
<1> HIDE DEF root, endpoint
<1>7. \/ s \in F
      \/ wild /\ s \in Printers(TRUE)
      \/ \E n \in Nat : s = cap_vc(n) \/ s = cap_rclink(n) \/ s = cap_rebar(n)
      \/ \E f \in BOOLEAN : s = cap_rcec(f) \/ s = cap_sriov(f) \/ s = cap_dvsec(f)
  <2> HIDE DEF F, wild
  <2>1. QED
    BY <1>1, <1>3, <1>6, OneFetchExt, EmptyIsPrinter DEF F
<1>8. s \in F \/ (wild /\ s \in Printers(TRUE))
  BY <1>4, <1>5, <1>7
<1>9. F \subseteq Printers(wild)
  BY DEF Printers
<1>10. QED
  BY <1>8, <1>9

(***************************************************************************)
(* The walks over the capabilities of a device.                            *)
(***************************************************************************)

USE DEF vars, block, walk, history, cmd

Walks == {"std", "std print", "ext", "ext header", "ext print"}

\* What one walk has printed, it has marked in been_there.
PrintedIsMarked == twice = {} /\ (pc \in Walks => shown \subseteq been)

\* The block is where ScanDevice put it until the walks begin.
BlockInPlace == pc \in {"listed", "show"} => cached

\* The block and the register differ only in bits changed from outside.
DifferenceIsRecent ==
  pc \in {"listed", "show"} => (command \ seen) \cup (seen \ command) \subseteq since

ShowInv ==
  /\ PrintedIsMarked
  /\ BlockInPlace
  /\ DifferenceIsRecent

\* Nothing is shown, listed or changed before the first scan.
LEMMA ShowInvInitially == Init => ShowInv
  BY DEF Init, ShowInv, PrintedIsMarked, BlockInPlace, DifferenceIsRecent, Walks

----------------------------------------------------------------------------
\* One lemma per part of the invariant; each cites the actions that touch it.


\* The walks empty both histories where they begin, and the header's guard is
\* what keeps a marked position from being printed again.
LEMMA PrintedIsMarkedStep ==
  ASSUME PrintedIsMarked, [Next]_vars
  PROVE  PrintedIsMarked'
<1> USE DEF PrintedIsMarked, Walks
<1>1. CASE ScanDevice \/ ScanDeviceFails
  BY <1>1 DEF ScanDevice, ScanDeviceFails
<1>2. CASE StartUp \/ Poll
  BY <1>2 DEF StartUp, Poll
<1>3. CASE ShowVerbose \/ ShowCaps
  BY <1>3 DEF ShowVerbose, ShowCaps
<1>4. CASE StdHeader
  <2>1. where \notin shown
    BY <1>4 DEF StdHeader
  <2>2. PICK id : Visit("std", id)
    BY <1>4 DEF StdHeader
  <2>3. shown' = shown \cup {where} /\ twice' = twice \cup ({where} \cap shown) /\ been' = been \cup {where}
    BY <2>2 DEF Visit, Record
  <2>4. shown \subseteq been
    BY <1>4 DEF StdHeader
  <2>5. QED
    BY <2>1, <2>3, <2>4
<1>5. CASE StdEnd
  BY <1>5 DEF StdEnd
<1>6. CASE ExtHeader
  <2>1. where \notin shown
    BY <1>6 DEF ExtHeader
  <2>2. PICK id : Visit("ext", id)
    BY <1>6 DEF ExtHeader
  <2>3. shown' = shown \cup {where} /\ twice' = twice \cup ({where} \cap shown) /\ been' = been \cup {where}
    BY <2>2 DEF Visit, Record
  <2>4. shown \subseteq been
    BY <1>6 DEF ExtHeader
  <2>5. QED
    BY <2>1, <2>3, <2>4
<1>7. CASE FetchExtHeader \/ ExtEnd \/ PrinterReturns
  BY <1>7 DEF FetchExtHeader, ExtEnd, PrinterReturns
<1>8. CASE PrinterStep
  BY <1>8 DEF PrinterStep, Printing, PrintFetch, PrintRead, PrintIndex, PrintPowerState
<1>9. CASE OutsideWritesCommand \/ UNCHANGED vars
  BY <1>9 DEF OutsideWritesCommand
<1>10. QED
  BY <1>1, <1>2, <1>3, <1>4, <1>5, <1>6, <1>7, <1>8, <1>9 DEF Next, Process

\* config_fetch moves the block only in the walks, and no walk leads back.
LEMMA BlockInPlaceStep ==
  ASSUME BlockInPlace, [Next]_vars
  PROVE  BlockInPlace'
<1> USE DEF BlockInPlace
<1>1. CASE ScanDevice \/ ScanDeviceFails \/ StartUp \/ Poll
  BY <1>1 DEF ScanDevice, ScanDeviceFails, StartUp, Poll
<1>2. CASE ShowVerbose \/ ShowCaps \/ StdHeader \/ StdEnd
  BY <1>2 DEF ShowVerbose, ShowCaps, StdHeader, StdEnd
<1>3. CASE FetchExtHeader \/ ExtHeader \/ ExtEnd \/ PrinterReturns
  BY <1>3 DEF FetchExtHeader, ExtHeader, ExtEnd, PrinterReturns
<1>4. CASE PrinterStep
  BY <1>4 DEF PrinterStep, Printing, PrintFetch, PrintRead, PrintIndex, PrintPowerState
<1>5. CASE OutsideWritesCommand \/ UNCHANGED vars
  BY <1>5 DEF OutsideWritesCommand
<1>6. QED
  BY <1>1, <1>2, <1>3, <1>4, <1>5 DEF Next, Process

\* A change from outside adds its bits to what may differ.
LEMMA DifferenceStep ==
  ASSUME DifferenceIsRecent, [Next]_vars
  PROVE  DifferenceIsRecent'
<1> USE DEF DifferenceIsRecent
<1>1. CASE ScanDevice
  BY <1>1 DEF ScanDevice
<1>2. CASE Poll
  BY <1>2 DEF Poll
<1>3. CASE OutsideWritesCommand
  <2>1. PICK bits : command' = bits /\ since' = since \cup ((bits \ command) \cup (command \ bits))
    BY <1>3 DEF OutsideWritesCommand
  <2>2. seen' = seen /\ pc \in {"listed", "show"}
    BY <1>3 DEF OutsideWritesCommand
  <2>3. QED
    BY <2>1, <2>2
<1>4. CASE ScanDeviceFails \/ StartUp \/ ShowVerbose \/ ShowCaps
  BY <1>4 DEF ScanDeviceFails, StartUp, ShowVerbose, ShowCaps
<1>5. CASE StdHeader \/ StdEnd \/ FetchExtHeader \/ ExtHeader \/ ExtEnd \/ PrinterReturns
  BY <1>5 DEF StdHeader, StdEnd, FetchExtHeader, ExtHeader, ExtEnd, PrinterReturns
<1>6. CASE PrinterStep
  BY <1>6 DEF PrinterStep, Printing, PrintFetch, PrintRead, PrintIndex, PrintPowerState
<1>7. CASE UNCHANGED vars
  BY <1>7
<1>8. QED
  BY <1>1, <1>2, <1>3, <1>4, <1>5, <1>6, <1>7 DEF Next, Process

\* The conjuncts are kept by every step, each with the help of the types.
LEMMA ShowInvariant == Spec => []ShowInv
<1>1. Init => ShowInv
  BY ShowInvInitially
<1>2. ShowInv /\ [Next]_vars => ShowInv'
  BY PrintedIsMarkedStep, BlockInPlaceStep, DifferenceStep DEF ShowInv
<1>3. QED
  BY <1>1, <1>2, PTL DEF Spec

----------------------------------------------------------------------------

\* show_caps and show_ext_caps print no capability of a walk twice, however
\* the device links its lists.
THEOREM NoCapabilityTwice == Spec => []EachCapabilityOnce
<1>1. ShowInv => EachCapabilityOnce
  BY DEF ShowInv, PrintedIsMarked, EachCapabilityOnce
<1>2. QED
  BY <1>1, ShowInvariant, PTL

\* Whatever config_fetch moves, libpci's cache pointer is live at every use
\* that the start-up, the poll and show_verbose make of it.
THEOREM CacheLiveAtEveryUse == Spec => []CacheIsLiveWhenUsed
<1>1. ShowInv => CacheIsLiveWhenUsed
  BY DEF ShowInv, BlockInPlace, CacheIsLiveWhenUsed
<1>2. QED
  BY <1>1, ShowInvariant, PTL

\* The byte that show_verbose writes to PCI_COMMAND turns its enables on; any
\* other bit it changes, somebody else has changed since the byte was read.
THEOREM WriteUndoesOnlyRaces == Spec => CommandWriteUndoesOnlyRaces
<1>1. ASSUME ShowInv, [Next]_vars
      PROVE  [pc = "show" /\ pc' # "show" =>
                /\ Changed(command, command') \subseteq since \cup Enables
                /\ command \cap Enables \subseteq command']_vars
  <2>1. SUFFICES ASSUME Next, pc = "show", pc' # "show"
                 PROVE  /\ Changed(command, command') \subseteq since \cup Enables
                        /\ command \cap Enables \subseteq command'
    BY <1>1
  <2>2. ShowVerbose
    BY <2>1 DEF Next, Process, ScanDevice, ScanDeviceFails, StartUp, Poll, ShowCaps, StdHeader,
                StdEnd, FetchExtHeader, ExtHeader, ExtEnd, PrinterReturns, PrinterStep, Printing,
                PrintFetch, PrintRead, PrintIndex, PrintPowerState, OutsideWritesCommand
  <2>3. Changed(command, seen) \subseteq since
    BY <1>1, <2>1 DEF ShowInv, DifferenceIsRecent, Changed
  <2>4. CASE command' = command
    BY <2>4 DEF Changed
  <2>5. CASE \E kept \in SUBSET CommandBits :
               command' = (command \cap kept) \cup (CommandWritten \ kept)
    BY <2>3, <2>5 DEF CommandWritten, Changed
  <2>6. QED
    BY <2>2, <2>4, <2>5 DEF ShowVerbose, WriteCommand
<1>2. QED
  BY <1>1, ShowInvariant, PTL DEF Spec, CommandWriteUndoesOnlyRaces

----------------------------------------------------------------------------
\* The bytes printers read and the fields they index with.

\* The bytes of the configuration block.
Held == Range256 \cup extra

\* The bytes that step x reads or fetches, of a capability at w.
Bytes(w, x) == w + x.at .. w + x.at + x.len - 1

\* Every read of the steps s finds its bytes, now or after the fetch that the
\* steps still hold.
Covered(s, w, held) ==
  \A i \in DOMAIN s : s[i].op = "read" => Bytes(w, s[i]) \subseteq held \/ Promised(s, i)

Fits(s, wild) == \A i \in DOMAIN s : s[i].op = "index" /\ ~wild => s[i].at < s[i].len

\* The two printers that trust a field of six bits, or of three.
Wild == cap \in {"ext"} \X {ExtCapId.LTR, ExtCapId.MCAST}

StepsLeft ==
  /\ todo \in Seq(Steps)
  /\ pc \notin {"std print", "ext print", "done"} => todo = <<>>
  /\ Fits(todo, Wild)
  /\ ~ReadsUnfetched => Covered(todo, where, Held)

\* The four bytes of the capability's header are there when it is looked at.
HeaderRead ==
  /\ pc = "std" => where \in StdPositions \cup {0}
  /\ pc = "ext header" => Readable(where, 4)

FaultEnds == (fault # "none" => pc = "done") /\ PrintersStayInBounds

BoundsInv == TypeOK /\ StepsLeft /\ HeaderRead /\ FaultEnds

\* The end of a printer from its step c on: a read there finds its bytes, or the
\* fetch that covers it is still to come, or was one of the first c - 1 steps
\* with no other part of the printer begun since.
LEMMA SuffixOfSteps ==
  ASSUME NEW s \in Seq(Steps), NEW c \in 1 .. Len(s) + 1
  PROVE  LET t == SubSeq(s, c, Len(s))
         IN  /\ t \in Seq(Steps)
             /\ \A i \in DOMAIN t :
                  /\ i + c - 1 \in DOMAIN s
                  /\ t[i] = s[i + c - 1]
                  /\ Promised(s, i + c - 1) =>
                       \/ Promised(t, i)
                       \/ \E j \in 1 .. c - 1 : /\ FetchOf(s[j], t[i])
                                                /\ \A k \in j + 1 .. i + c - 1 : s[k].op # "try"
<1> DEFINE t == SubSeq(s, c, Len(s))
           n == Len(s)
<1>1. n \in Nat /\ DOMAIN s = 1 .. n /\ c \in 1 .. n + 1
  OBVIOUS
<1>2. /\ t \in Seq(Steps)
      /\ Len(t) = n - c + 1
      /\ \A i \in 1 .. n - c + 1 : t[i] = s[c + i - 1]
  BY SubSeqProperties
<1>3. DOMAIN t = 1 .. n - c + 1
  BY <1>2
<1> HIDE DEF t, n
<1>4. ASSUME NEW i \in DOMAIN t
      PROVE  /\ i + c - 1 \in DOMAIN s
             /\ t[i] = s[i + c - 1]
  <2>1. i \in 1 .. n - c + 1
    BY <1>3
  <2>2. c + i - 1 = i + c - 1 /\ i + c - 1 \in 1 .. n
    BY <1>1, <2>1
  <2>3. t[i] = s[c + i - 1]
    BY <1>2, <2>1
  <2>4. QED
    BY <1>1, <2>2, <2>3
<1>5. ASSUME NEW i \in DOMAIN t, NEW j \in 1 .. i + c - 2, FetchOf(s[j], t[i]),
             \A k \in j + 1 .. i + c - 1 : s[k].op # "try"
      PROVE  \/ Promised(t, i)
             \/ \E m \in 1 .. c - 1 : /\ FetchOf(s[m], t[i])
                                      /\ \A k \in m + 1 .. i + c - 1 : s[k].op # "try"
  <2>1. CASE j <= c - 1
    <3>1. j \in 1 .. c - 1
      BY <2>1, <1>1, <1>3
    <3>2. QED
      BY <3>1, <1>5
  <2>2. CASE j >= c
    <3>1. j - c + 1 \in 1 .. i - 1
      BY <2>2, <1>1, <1>3
    <3>2. t[j - c + 1] = s[j]
      BY <3>1, <1>1, <1>2, <1>3
    <3>3. ASSUME NEW k \in j - c + 2 .. i PROVE t[k].op # "try"
      <4>1. k \in 1 .. n - c + 1 /\ c + k - 1 \in j + 1 .. i + c - 1
        BY <2>2, <1>1, <1>3
      <4>2. QED
        BY <4>1, <1>2, <1>5
    <3>4. Promised(t, i)
      <4>1. (j - c + 1) + 1 = j - c + 2
        BY <1>1, <2>2
      <4>2. FetchOf(t[j - c + 1], t[i]) /\ \A k \in (j - c + 1) + 1 .. i : t[k].op # "try"
        BY <3>2, <3>3, <4>1, <1>5
      <4>3. QED
        BY <3>1, <4>2 DEF Promised
    <3>5. QED
      BY <3>4
  <2>3. QED
    BY <2>1, <2>2, <1>1, <1>3
<1>6. ASSUME NEW i \in DOMAIN t, Promised(s, i + c - 1)
      PROVE  \/ Promised(t, i)
             \/ \E m \in 1 .. c - 1 : /\ FetchOf(s[m], t[i])
                                      /\ \A k \in m + 1 .. i + c - 1 : s[k].op # "try"
  <2>1. PICK j \in 1 .. (i + c - 1) - 1 : /\ FetchOf(s[j], s[i + c - 1])
                                          /\ \A k \in j + 1 .. i + c - 1 : s[k].op # "try"
    BY <1>6 DEF Promised
  <2>2. (i + c - 1) - 1 = i + c - 2 /\ s[i + c - 1] = t[i]
    BY <1>1, <1>3, <1>4
  <2>3. QED
    BY <2>1, <2>2, <1>5
<1>7. QED
  BY <1>2, <1>4, <1>6 DEF t, n

\* When a step of the printer is done, those after it are covered: by what
\* they were covered by, or by the fetch that has just succeeded.
LEMMA CoveredAfterStep ==
  ASSUME NEW s \in Seq(Steps), s # <<>>, NEW w, NEW held, NEW more, held \subseteq more,
         Covered(s, w, held),
         s[1].op \in {"fetch", "try"} => Bytes(w, s[1]) \subseteq more,
         w \in Nat
  PROVE  Covered(Tail(s), w, more)
<1> DEFINE t == Tail(s)
<1>1. t = SubSeq(s, 2, Len(s)) /\ 2 \in 1 .. Len(s) + 1 /\ Len(s) \in Nat
  OBVIOUS
<1>2. /\ t \in Seq(Steps)
      /\ \A i \in DOMAIN t :
           /\ i + 2 - 1 \in DOMAIN s
           /\ t[i] = s[i + 2 - 1]
           /\ Promised(s, i + 2 - 1) =>
                \/ Promised(t, i)
                \/ \E j \in 1 .. 2 - 1 : /\ FetchOf(s[j], t[i])
                                         /\ \A k \in j + 1 .. i + 2 - 1 : s[k].op # "try"
  <2> HIDE DEF t
  <2>1. QED
    BY <1>1, SuffixOfSteps
<1> HIDE DEF t
<1>3. ASSUME NEW i \in DOMAIN t, t[i].op = "read"
      PROVE  Bytes(w, t[i]) \subseteq more \/ Promised(t, i)
  <2>1. Bytes(w, t[i]) \subseteq held \/ Promised(s, i + 2 - 1)
    BY <1>2, <1>3 DEF Covered
  <2>2. CASE Bytes(w, t[i]) \subseteq held
    BY <2>2
  <2>3. CASE FetchOf(s[1], t[i])
    <3>1. s[1] \in Steps /\ t[i] \in Steps
      BY <1>2, <1>3
    <3>2. PICK a \in Nat, m \in Nat, b \in Nat, n \in Nat :
            s[1].at = a /\ s[1].len = m /\ t[i].at = b /\ t[i].len = n
      BY <3>1 DEF Steps
    <3>3. a <= b /\ b + n <= a + m
      BY <2>3, <3>2 DEF FetchOf
    <3>4. Bytes(w, t[i]) \subseteq Bytes(w, s[1])
      BY <3>2, <3>3 DEF Bytes
    <3>5. QED
      BY <2>3, <3>4 DEF FetchOf
  <2>4. QED
    BY <1>2, <1>3, <2>1, <2>2, <2>3
<1>4. QED
  BY <1>3 DEF Covered, t

\* After a failed fetch the printer goes on where its next part begins, and
\* what is read there was promised there.
LEMMA CoveredAfterFailure ==
  ASSUME NEW s \in Seq(Steps), NEW c \in 2 .. Len(s), s[c].op = "try", NEW w, NEW held,
         Covered(s, w, held)
  PROVE  Covered(SubSeq(s, c, Len(s)), w, held)
<1> DEFINE t == SubSeq(s, c, Len(s))
<1>1. c \in 1 .. Len(s) + 1 /\ Len(s) \in Nat
  OBVIOUS
<1>2. /\ t \in Seq(Steps)
      /\ \A i \in DOMAIN t :
           /\ i + c - 1 \in DOMAIN s
           /\ t[i] = s[i + c - 1]
           /\ Promised(s, i + c - 1) =>
                \/ Promised(t, i)
                \/ \E j \in 1 .. c - 1 : /\ FetchOf(s[j], t[i])
                                         /\ \A k \in j + 1 .. i + c - 1 : s[k].op # "try"
  BY <1>1, SuffixOfSteps
<1> HIDE DEF t
<1>3. ASSUME NEW i \in DOMAIN t, t[i].op = "read"
      PROVE  Bytes(w, t[i]) \subseteq held \/ Promised(t, i)
  <2>1. Bytes(w, t[i]) \subseteq held \/ Promised(s, i + c - 1)
    BY <1>2, <1>3 DEF Covered
  <2>2. i \in Nat /\ i >= 1
    BY <1>2, <1>3
  <2>3. ASSUME NEW j \in 1 .. c - 1 PROVE c \in j + 1 .. i + c - 1
    BY <2>2
  <2>4. QED
    BY <1>2, <1>3, <2>1, <2>3
<1>4. QED
  BY <1>3 DEF Covered, t

\* The end of a printer whose indexes fit.
LEMMA FitsAfterStep ==
  ASSUME NEW s \in Seq(Steps), NEW c \in 1 .. Len(s) + 1, NEW wild, Fits(s, wild)
  PROVE  SubSeq(s, c, Len(s)) \in Seq(Steps) /\ Fits(SubSeq(s, c, Len(s)), wild)
<1> DEFINE t == SubSeq(s, c, Len(s))
<1>1. /\ t \in Seq(Steps)
      /\ \A i \in DOMAIN t : i + c - 1 \in DOMAIN s /\ t[i] = s[i + c - 1]
  BY SuffixOfSteps
<1> HIDE DEF t
<1>2. QED
  BY <1>1 DEF Fits, t

\* check_conf_range looks for exactly those bytes.
LEMMA ReadableIsHeld ==
  ASSUME NEW x
  PROVE  Readable(where + x.at, x.len) <=> Bytes(where, x) \subseteq Held
  BY DEF Readable, Missing, Present, Bytes, Held

\* What config_fetch leaves of the block, whether it succeeds or not.
LEMMA FetchKeepsBlock ==
  ASSUME TypeOK, NEW from \in Nat, NEW len \in Nat,
         FetchSucceeds(from, len) \/ FetchFails(from, len)
  PROVE  /\ BlockTypeOK'
         /\ extra \subseteq extra'
         /\ \A i \in extra' : i < bufsize'
<1>0. BufSizes \subseteq Nat
  BY DEF BufSizes
<1>01. cached \in BOOLEAN /\ extra \subseteq Nat /\ bufsize \in BufSizes /\ \A i \in extra : i < bufsize
  BY DEF TypeOK, BlockTypeOK
<1>1. Grow(from + len) => /\ bufsize' \in BufSizes
                          /\ cached' \in BOOLEAN
                          /\ from + len <= bufsize' /\ bufsize <= bufsize'
  <2>1. CASE from + len <= bufsize
    BY <2>1, <1>0, <1>01 DEF Grow
  <2>2. CASE ~(from + len <= bufsize)
    <3>1. SUFFICES ASSUME Grow(from + len)
                   PROVE  /\ bufsize' \in BufSizes
                          /\ cached' \in BOOLEAN
                          /\ from + len <= bufsize' /\ bufsize <= bufsize'
      OBVIOUS
    <3>2. PICK size \in BufSizes : from + len <= size /\ bufsize' = size
      BY <2>2, <3>1 DEF Grow
    <3>3. cached' \in BOOLEAN
      BY <2>2, <3>1 DEF Grow
    <3>4. size \in Nat /\ bufsize \in Nat
      BY <1>0, <1>01
    <3>5. QED
      BY <2>2, <3>2, <3>3, <3>4
  <2>3. QED
    BY <2>1, <2>2
<1>2. \A i \in Trimmed(from, len) : i \in Nat /\ i < from + len
  BY DEF Trimmed
<1>3. bufsize \in Nat /\ (bufsize' \in BufSizes => bufsize' \in Nat)
  BY <1>0, <1>01
<1>4. CASE UNCHANGED block
  BY <1>01, <1>4 DEF BlockTypeOK, block
<1>5. CASE Grow(from + len) /\ extra' = extra \cup Trimmed(from, len)
  <2>1. bufsize' \in BufSizes /\ cached' \in BOOLEAN /\ bufsize' \in Nat
        /\ from + len <= bufsize' /\ bufsize <= bufsize'
    BY <1>1, <1>3, <1>5
  <2>2. ASSUME NEW i \in extra' PROVE i \in Nat /\ i < bufsize'
    BY <2>1, <2>2, <1>01, <1>2, <1>3, <1>5
  <2>3. QED
    BY <2>1, <2>2, <1>5 DEF BlockTypeOK
<1>6. CASE Grow(from + len) /\ UNCHANGED extra
  BY <1>01, <1>1, <1>3, <1>6 DEF BlockTypeOK
<1>7. QED
  BY <1>4, <1>5, <1>6 DEF FetchSucceeds, FetchFails

\* After a fetch that succeeds all its bytes are there.
LEMMA FetchGives ==
  ASSUME TypeOK, NEW from \in Nat, NEW len \in Nat, FetchSucceeds(from, len)
  PROVE  from .. from + len - 1 \subseteq Held'
<1>1. CASE Missing(from, len) = {}
  BY <1>1 DEF FetchSucceeds, block, Missing, Present, Held
<1>2. CASE extra' = extra \cup Trimmed(from, len)
  <2>1. Missing(from, len) \subseteq Trimmed(from, len)
    BY DEF Missing, Trimmed
  <2>2. QED
    BY <1>2, <2>1 DEF Missing, Present, Held
<1>3. QED
  BY <1>1, <1>2 DEF FetchSucceeds


\* The ids of the two walks are numbers.
LEMMA IdsAreNat ==
  /\ {CapId[n] : n \in DOMAIN CapId} \subseteq Nat
  /\ {ExtCapId[n] : n \in DOMAIN ExtCapId} \subseteq Nat
<1>1. {CapId[n] : n \in DOMAIN CapId} \subseteq Nat
  BY DEF CapId
<1>2. {ExtCapId[n] : n \in DOMAIN ExtCapId} \subseteq Nat
  BY DEF ExtCapId
<1>3. QED
  BY <1>1, <1>2

\* And so are the positions.
LEMMA PositionsAreNat ==
  /\ StdPositions \subseteq Nat
  /\ ExtPositions \subseteq Nat
  BY StdPositionsAssumption, ExtPositionsAssumption

\* The first of the steps left.
LEMMA FirstStep ==
  ASSUME NEW s \in Seq(Steps), s # <<>>
  PROVE  /\ Head(s) = s[1] /\ 1 \in DOMAIN s
         /\ s[1].at \in Nat /\ s[1].len \in Nat /\ s[1].op \in {"fetch", "try", "read", "index", "power"}
         /\ Tail(s) = SubSeq(s, 2, Len(s)) /\ 2 \in 1 .. Len(s) + 1
<1>1. Head(s) = s[1] /\ 1 \in DOMAIN s /\ s[1] \in Steps
  OBVIOUS
<1>2. Tail(s) = SubSeq(s, 2, Len(s)) /\ 2 \in 1 .. Len(s) + 1
  OBVIOUS
<1>3. ASSUME NEW x \in Steps
      PROVE  x.at \in Nat /\ x.len \in Nat /\ x.op \in {"fetch", "try", "read", "index", "power"}
  BY DEF Steps
<1>4. QED
  BY <1>1, <1>2, <1>3

\* A visit keeps the types of what it records.
LEMMA VisitTypes ==
  ASSUME TypeOK, NEW w \in {"std", "ext"}, NEW id \in Nat, Visit(w, id)
  PROVE  /\ cap' \in {"std", "ext"} \X Nat
         /\ been' \subseteq Nat /\ shown' \subseteq Nat /\ twice' \subseteq Nat /\ rare' \in Nat
<1>1. /\ where \in Nat /\ been \subseteq Nat /\ shown \subseteq Nat /\ twice \subseteq Nat /\ rare \in Nat
  BY DEF TypeOK
<1>2. /\ cap' = <<w, id>>
      /\ rare' = rare \/ rare' = rare + 1
      /\ shown' = shown \cup {where}
      /\ twice' = twice \cup ({where} \cap shown)
      /\ been' = been \cup {where}
  BY DEF Visit, Record
<1>3. QED
  BY <1>1, <1>2

\* Every action keeps the types, and no present byte past the buffer.
LEMMA TypeStep ==
  ASSUME TypeOK, todo \in Seq(Steps), [Next]_vars
  PROVE  TypeOK'
<1>1. CASE ScanDevice \/ ScanDeviceFails \/ StartUp
  BY <1>1 DEF TypeOK, BlockTypeOK, ScanDevice, ScanDeviceFails, StartUp
<1>2. CASE Poll \/ ShowVerbose
  BY <1>2 DEF TypeOK, BlockTypeOK, Poll, ShowVerbose
<1>3. CASE ShowCaps
  <2>1. where' \in Nat /\ been' = {} /\ shown' = {} /\ pc' = "std"
    BY <1>3, PositionsAreNat DEF ShowCaps
  <2>2. UNCHANGED <<adna, startup, block, cap, rare, twice, flagged>>
    BY <1>3 DEF ShowCaps
  <2>3. QED
    BY <2>1, <2>2 DEF TypeOK, BlockTypeOK
<1>4. CASE StdHeader
  <2>1. PICK id \in Nat : Visit("std", id)
    BY <1>4, IdsAreNat DEF StdHeader, Answers
  <2>2. /\ cap' \in {"std", "ext"} \X Nat
        /\ been' \subseteq Nat /\ shown' \subseteq Nat /\ twice' \subseteq Nat /\ rare' \in Nat
    BY <2>1, VisitTypes
  <2>3. pc' = "std print" /\ UNCHANGED <<adna, startup, block, where, flagged>>
    BY <1>4 DEF StdHeader
  <2>4. QED
    BY <2>2, <2>3 DEF TypeOK, BlockTypeOK
<1>5. CASE ExtHeader
  <2>1. PICK id \in Nat : Visit("ext", id)
    BY <1>5, IdsAreNat DEF ExtHeader, Answers
  <2>2. /\ cap' \in {"std", "ext"} \X Nat
        /\ been' \subseteq Nat /\ shown' \subseteq Nat /\ twice' \subseteq Nat /\ rare' \in Nat
    BY <2>1, VisitTypes
  <2>3. pc' = "ext print" /\ UNCHANGED <<adna, startup, block, where, flagged>>
    BY <1>5 DEF ExtHeader
  <2>4. QED
    BY <2>2, <2>3 DEF TypeOK, BlockTypeOK
<1>6. CASE StdEnd \/ ExtEnd
  <2>1. where' \in Nat /\ been' \subseteq Nat /\ shown' \subseteq Nat /\ pc' \in {"ext", "done"}
    <3>1. where \in Nat /\ been \subseteq Nat /\ shown \subseteq Nat
      BY DEF TypeOK
    <3>2. CASE StdEnd
      BY <3>1, <3>2 DEF StdEnd
    <3>3. CASE ExtEnd
      BY <3>1, <3>3 DEF ExtEnd
    <3>4. QED
      BY <1>6, <3>2, <3>3
  <2>2. UNCHANGED <<adna, startup, block, cap, rare, twice, flagged>>
    BY <1>6 DEF StdEnd, ExtEnd
  <2>3. QED
    BY <2>1, <2>2 DEF TypeOK, BlockTypeOK
<1>7. CASE PrinterReturns
  <2>1. where' \in Nat /\ pc' \in {"std", "ext", "done"}
    <3>1. /\ where' \in StdPositions \cup {0} \/ where' \in ExtPositions \/ where' = 0
          /\ pc' = "std" \/ pc' = "ext" \/ pc' = "done"
      BY <1>7, Zenon DEF PrinterReturns
    <3>2. \A p : p \in StdPositions \cup {0} \/ p \in ExtPositions => p \in Nat
      <4>1. 0 \in Nat
        OBVIOUS
      <4>2. QED
        BY <4>1, PositionsAreNat, Zenon
    <3>3. where' \in Nat
      BY <3>1, <3>2
    <3>4. QED
      BY <3>1, <3>3
  <2>2. UNCHANGED <<adna, startup, block, cap, been, history, flagged>>
    BY <1>7 DEF PrinterReturns
  <2>3. QED
    BY <2>1, <2>2 DEF TypeOK, BlockTypeOK
<1>8. CASE FetchExtHeader
  <2>1. FetchSucceeds(where, 4) \/ FetchFails(where, 4)
    BY <1>8 DEF FetchExtHeader
  <2>2. BlockTypeOK' /\ \A i \in extra' : i < bufsize'
    BY <2>1, FetchKeepsBlock DEF TypeOK
  <2>3. pc' \in {"ext header", "done"} /\ UNCHANGED <<adna, startup, walk, flagged>>
    BY <1>8 DEF FetchExtHeader
  <2>4. QED
    BY <2>2, <2>3 DEF TypeOK
<1>9. CASE PrintFetch
  <2> DEFINE from == where + todo[1].at
             len == todo[1].len
  <2>1. /\ todo # <<>>
        /\ FetchSucceeds(where + Head(todo).at, Head(todo).len)
             \/ FetchFails(where + Head(todo).at, Head(todo).len)
    BY <1>9 DEF PrintFetch, Printing
  <2>2. Head(todo) = todo[1] /\ from \in Nat /\ len \in Nat
    <3>1. Head(todo) = todo[1] /\ todo[1].at \in Nat /\ todo[1].len \in Nat
      BY <2>1, FirstStep
    <3>2. where \in Nat
      BY DEF TypeOK
    <3>3. QED
      BY <3>1, <3>2
  <2>3. FetchSucceeds(from, len) \/ FetchFails(from, len)
    BY <2>1, <2>2
  <2> HIDE DEF from, len
  <2>4. BlockTypeOK' /\ \A i \in extra' : i < bufsize'
    BY <2>2, <2>3, FetchKeepsBlock
  <2>5. UNCHANGED <<adna, startup, pc, where, cap, been, history, flagged>>
    BY <1>9 DEF PrintFetch
  <2>6. QED
    BY <2>4, <2>5 DEF TypeOK
<1>10. CASE PrintRead \/ PrintIndex
  BY <1>10 DEF TypeOK, BlockTypeOK, PrintRead, PrintIndex
<1>11. CASE PrintPowerState
  <2>1. flagged' \in BOOLEAN
    BY <1>11, Zenon DEF TypeOK, PrintPowerState, Numbered
  <2>2. UNCHANGED <<adna, startup, pc, block, where, cap, been, history>>
    BY <1>11 DEF PrintPowerState
  <2>3. QED
    BY <2>1, <2>2 DEF TypeOK, BlockTypeOK
<1>12. CASE OutsideWritesCommand \/ UNCHANGED vars
  BY <1>12 DEF TypeOK, BlockTypeOK, OutsideWritesCommand
<1>13. QED
  BY <1>1, <1>2, <1>3, <1>4, <1>5, <1>6, <1>7, <1>8, <1>9, <1>10, <1>11, <1>12
     DEF Next, Process, PrinterStep


\* A printer that begins behind a header that is there is covered.
LEMMA PrinterIsCovered ==
  ASSUME NEW wild \in BOOLEAN, NEW s \in Printers(wild), NEW w \in Nat, NEW held, w .. w + 3 \subseteq held
  PROVE  s \in Seq(Steps) /\ Fits(s, wild) /\ Covered(s, w, held)
<1>1. s \in Seq(Steps) /\ Fits(s, wild)
  BY DEF Printers, Fits
<1>2. ASSUME NEW i \in DOMAIN s, s[i].op = "read"
      PROVE  Bytes(w, s[i]) \subseteq held \/ Promised(s, i)
  <2>1. s[i] \in Steps
    BY <1>1
  <2>2. s[i].at + s[i].len <= 4 \/ Promised(s, i)
    BY <1>2 DEF Printers, ReadsFetched
  <2>3. CASE s[i].at + s[i].len <= 4
    <3>1. s[i].at \in Nat /\ s[i].len \in Nat
      BY <2>1 DEF Steps
    <3>2. \A b \in Bytes(w, s[i]) : b \in w .. w + 3
      BY <2>3, <3>1 DEF Bytes
    <3>3. QED
      BY <3>2
  <2>4. QED
    BY <2>2, <2>3
<1>3. QED
  BY <1>1, <1>2 DEF Covered

\* Without steps left there is nothing to cover.
LEMMA NothingLeft ==
  ASSUME todo' = <<>>
  PROVE  StepsLeft'
<1>1. todo' \in Seq(Steps) /\ \A i \in DOMAIN todo' : FALSE
  OBVIOUS
<1>2. QED
  BY <1>1 DEF StepsLeft, Fits, Covered

\* The capability's header lies in the 256 bytes of the scan.
LEMMA StdHeaderStep ==
  ASSUME TypeOK, StepsLeft, HeaderRead, StdHeader
  PROVE  StepsLeft'
<1>1. /\ where \in StdPositions /\ pc' = "std print"
      /\ adna' = adna /\ where' = where /\ extra' = extra
      /\ adna \in BOOLEAN
  BY DEF StdHeader, HeaderRead, TypeOK
<1>2. where \in Nat /\ where .. where + 3 \subseteq 0 .. 255
      /\ (where < 252 => where .. where + 5 \subseteq 0 .. 255)
  <2>1. PICK i \in 1 .. 63 : where = 4 * i
    BY <1>1, StdPositionsAssumption
  <2>2. QED
    BY <2>1
<1>3. where .. where + 3 \subseteq Held' /\ (where < 252 => where .. where + 5 \subseteq Held')
  BY <1>2 DEF Held, Range256
<1>4. PICK id : /\ Visit("std", id)
                /\ \/ /\ id = CapId.EXP
                      /\ \E t \in ExpTypes, slot \in BOOLEAN : todo' = cap_express(adna, t, slot)
                   \/ id # CapId.EXP /\ todo' \in StdPrinters(id)
  BY DEF StdHeader
<1>5. cap' = <<"std", id>> /\ (~Wild)'
  BY <1>4 DEF Visit, Record, Wild
<1>6. ASSUME todo' \in Printers(FALSE)
      PROVE  StepsLeft'
  <2> DEFINE s == todo'
             held == Held'
  <2>1. s \in Printers(FALSE) /\ where .. where + 3 \subseteq held
    BY <1>3, <1>6
  <2> HIDE DEF s, held
  <2>2. s \in Seq(Steps) /\ Fits(s, FALSE) /\ Covered(s, where, held)
    <3>1. \A wild \in BOOLEAN : s \in Printers(wild) =>
            s \in Seq(Steps) /\ Fits(s, wild) /\ Covered(s, where, held)
      BY <1>2, <2>1, PrinterIsCovered
    <3>2. QED
      BY <2>1, <3>1
  <2>3. Fits(s, FALSE) => Fits(s, Wild')
    BY DEF Fits
  <2>4. QED
    BY <1>1, <2>2, <2>3 DEF StepsLeft, s, held
<1>7. CASE id = CapId.EXP
  <2>1. todo' \in Printers(FALSE)
    BY <1>1, <1>4, <1>7, ExpressPrinter
  <2>2. QED
    BY <1>6, <2>1
<1>8. CASE id # CapId.EXP /\ ~(adna /\ id = CapId.PM) /\ ~(~adna /\ id = CapId.EA)
  <2>1. todo' \in StdPrinters(id)
    BY <1>4, <1>8
  <2>2. todo' \in Printers(FALSE)
    BY <1>1, <1>8, <2>1, StdPrinted
  <2>3. QED
    BY <1>6, <2>2
<1>9. CASE adna /\ id = CapId.PM
  <2>1. todo' = <<Word(4), PowerState>>
    <3>1. todo' \in {cap_pm(adna)}
      <4>1. id # CapId.EXP
        BY <1>9 DEF CapId
      <4>2. todo' \in StdPrinters(id)
        BY <1>4, <4>1
      <4>3. todo' \in StdPrinters(CapId.PM)
        BY <4>2, <1>9
      <4>4. CapId.PM \notin {CapId.AGP, CapId.MSI, CapId.PCIX, CapId.HT, CapId.VNDR, CapId.SSVID,
                             CapId.MSIX, CapId.SATA, CapId.AF, CapId.EA}
        BY DEF CapId
      <4>5. QED
        BY <4>3, <4>4, <1>9, ZenonT(30) DEF StdPrinters
    <3>2. QED
      BY <3>1, <1>9 DEF cap_pm, PM
  <2> DEFINE s == todo'
  <2>2. s \in Seq(Steps) /\ DOMAIN s = 1 .. 2 /\ s[1] = Word(4) /\ s[2] = PowerState
    BY <2>1 DEF Steps, Word, PowerState, Step
  <2>3. Fits(s, Wild') 
    BY <2>2 DEF Fits, Word, PowerState, Step
  <2>4. where < 252 => Covered(s, where, Held')
    <3>1. Bytes(where, Word(4)) = where + 4 .. where + 5
      BY <1>2 DEF Bytes, Word, Step
    <3>2. PowerState.op # "read"
      BY DEF PowerState, Step
    <3>3. where < 252 => Bytes(where, Word(4)) \subseteq Held'
      BY <3>1, <1>2, <1>3
    <3>4. QED
      BY <2>2, <3>2, <3>3 DEF Covered
  <2>5. (~ReadsUnfetched)' => where < 252
    <3>1. adna' /\ cap' = <<"std", CapId.PM>>
      BY <1>1, <1>5, <1>9
    <3>2. (~ReadsUnfetched)' => ~(where' >= 252)
      BY <3>1, Zenon DEF ReadsUnfetched
    <3>3. (~ReadsUnfetched)' => ~(where >= 252)
      BY <3>2, <1>1, Zenon
    <3>4. QED
      BY <3>3, <1>2
  <2> HIDE DEF s
  <2>6. QED
    BY <1>1, <2>2, <2>3, <2>4, <2>5 DEF StepsLeft, s
<1>10. CASE ~adna /\ id = CapId.EA
  <2>1. todo' \in Seq(Unshifting)
    <3>1. id # CapId.EXP
      BY <1>10 DEF CapId
    <3>2. todo' \in StdPrinters(CapId.EA)
      BY <1>4, <1>10, <3>1
    <3>3. CapId.EA \notin {CapId.AGP, CapId.MSI, CapId.PCIX, CapId.HT, CapId.VNDR, CapId.SSVID,
                           CapId.MSIX, CapId.SATA, CapId.AF, CapId.PM}
      BY DEF CapId
    <3>4. todo' \in cap_ea(EaLists)
      BY <3>2, <3>3, <1>10, ZenonT(30) DEF StdPrinters
    <3>5. PICK bridge \in BOOLEAN, list \in EaLists : todo' = EaSteps(bridge, list)
      BY <3>4 DEF cap_ea
    <3>6. list \in Seq(Entry)
      BY SizesAssumption DEF Entry
    <3>7. QED
      BY <3>5, <3>6, EaPrinter
  <2>2. todo' \in Seq(Steps) /\ Fits(todo', Wild')
    BY <2>1 DEF Unshifting, Fits
  <2>3. ReadsUnfetched'
    BY <1>1, <1>5, <1>10 DEF ReadsUnfetched
  <2>4. QED
    BY <1>1, <2>2, <2>3 DEF StepsLeft
<1>11. QED
  BY <1>7, <1>8, <1>9, <1>10

\* The header of an extended capability has been fetched.
LEMMA ExtHeaderStep ==
  ASSUME TypeOK, StepsLeft, HeaderRead, ExtHeader
  PROVE  StepsLeft'
<1>1. /\ pc' = "ext print" /\ where' = where /\ extra' = extra
      /\ where \in Nat /\ Readable(where, 4)
  BY DEF ExtHeader, HeaderRead, TypeOK
<1>2. where .. where + 3 \subseteq Held'
  <2>1. ASSUME NEW i \in where .. where + 4 - 1 PROVE i \in Held
    <3>1. i \notin Missing(where, 4)
      BY <1>1 DEF Readable
    <3>2. QED
      BY <3>1 DEF Missing, Present, Held
  <2>2. Held' = Held
    BY <1>1, Zenon DEF Held
  <2>3. where + 4 - 1 = where + 3
    <3>1. where \in Nat
      BY <1>1
    <3>2. QED
      BY <3>1
  <2>4. QED
    BY <2>1, <2>2, <2>3
<1>3. PICK id : Visit("ext", id) /\ todo' \in ExtPrinters(id)
  BY DEF ExtHeader
<1> DEFINE wild == id \in {ExtCapId.LTR, ExtCapId.MCAST}
           s == todo'
           held == Held'
<1>4. cap' = <<"ext", id>> /\ (wild => Wild')
  BY <1>3 DEF Visit, Record, Wild
<1>5. s \in Printers(wild) /\ wild \in BOOLEAN
  BY <1>3, ExtPrinted
<1> HIDE DEF wild, s, held
<1>6. s \in Seq(Steps) /\ Fits(s, wild) /\ Covered(s, where, held)
  BY <1>1, <1>2, <1>5, PrinterIsCovered DEF held
<1>7. Fits(s, Wild')
  BY <1>4, <1>6 DEF Fits
<1>8. QED
  BY <1>1, <1>6, <1>7 DEF StepsLeft, s, held

\* One step of a printer is done, and what it read or fetched is there.
LEMMA StepDone ==
  ASSUME TypeOK, StepsLeft, Printing, todo' = Tail(todo),
         UNCHANGED <<adna, pc, where, cap>>, extra \subseteq extra',
         Head(todo).op \in {"fetch", "try"} => Bytes(where, Head(todo)) \subseteq Held'
  PROVE  StepsLeft'
<1> DEFINE s == todo
           t == Tail(todo)
           held == Held
           more == Held'
           wild == Wild
<1>1. /\ s \in Seq(Steps) /\ s # <<>> /\ pc \in {"std print", "ext print"}
      /\ Fits(s, wild) /\ (~ReadsUnfetched => Covered(s, where, held))
      /\ where \in Nat
  BY DEF StepsLeft, Printing, TypeOK
<1>2. held \subseteq more
  BY DEF Held
<1>3. s[1].op \in {"fetch", "try"} => Bytes(where, s[1]) \subseteq more
  BY <1>1, FirstStep
<1>4. (ReadsUnfetched' <=> ReadsUnfetched) /\ (Wild' <=> wild) /\ todo' = t /\ pc' = pc /\ where' = where
  BY DEF ReadsUnfetched, Wild
<1> HIDE DEF s, held, more, wild
<1>5. ~ReadsUnfetched => Covered(Tail(s), where, more)
  BY <1>1, <1>2, <1>3, CoveredAfterStep
<1>6. Tail(s) = SubSeq(s, 2, Len(s)) /\ 2 \in 1 .. Len(s) + 1
  BY <1>1, FirstStep
<1>7. Tail(s) \in Seq(Steps) /\ Fits(Tail(s), wild)
  BY <1>1, <1>6, FitsAfterStep
<1>8. Fits(Tail(s), Wild')
  BY <1>4, <1>7 DEF Fits
<1>9. QED
  BY <1>1, <1>4, <1>5, <1>7, <1>8 DEF StepsLeft, s, more

\* A fetch has failed.
LEMMA FetchFailed ==
  ASSUME TypeOK, StepsLeft, Printing, todo' = Rest(Head(todo).op),
         UNCHANGED <<adna, pc, where, cap>>, extra' = extra
  PROVE  StepsLeft'
<1>1. CASE todo' = <<>>
  BY <1>1, NothingLeft
<1>2. CASE todo' # <<>>
  <2> DEFINE c == CHOOSE i \in 2 .. Len(todo) : todo[i].op = "try" /\ \A j \in 2 .. i - 1 : todo[j].op # "try"
             later == {i \in 2 .. Len(todo) : todo[i].op = "try"}
             s == todo
             wild == Wild
  <2>1. s \in Seq(Steps) /\ Fits(s, wild) /\ (~ReadsUnfetched => Covered(s, where, Held))
        /\ pc \in {"std print", "ext print"}
    BY DEF StepsLeft, Printing
  <2>2. later # {} /\ todo' = SubSeq(todo, c, Len(todo))
    BY <1>2 DEF Rest
  <2>3. PICK i \in later : \A j \in later : i <= j
    <3>1. later \subseteq Nat
      OBVIOUS
    <3> HIDE DEF later
    <3>2. QED
      BY <2>2, <3>1, LeastElement
  <2>4. todo[i].op = "try" /\ i \in 2 .. Len(todo) /\ \A j \in 2 .. i - 1 : todo[j].op # "try"
    BY <2>3
  <2>5. c \in 2 .. Len(todo) /\ todo[c].op = "try"
    BY <2>4
  <2> HIDE DEF c, later, wild
  <2>6. Len(s) \in Nat /\ c \in 1 .. Len(s) + 1
    BY <2>5 DEF s
  <2> HIDE DEF s
  <2>7. SubSeq(s, c, Len(s)) \in Seq(Steps) /\ Fits(SubSeq(s, c, Len(s)), wild)
    BY <2>1, <2>6, FitsAfterStep
  <2>8. ~ReadsUnfetched => Covered(SubSeq(s, c, Len(s)), where, Held)
    BY <2>1, <2>5, CoveredAfterFailure DEF s
  <2>9. (ReadsUnfetched' <=> ReadsUnfetched) /\ (Wild' <=> wild) /\ pc' = pc /\ where' = where /\ Held' = Held
    BY DEF ReadsUnfetched, Wild, Held, wild
  <2>10. Fits(todo', Wild')
    BY <2>2, <2>7, <2>9 DEF Fits, s
  <2>11. QED
    BY <2>1, <2>2, <2>7, <2>8, <2>9, <2>10 DEF StepsLeft, s
<1>3. QED
  BY <1>1, <1>2

\* Every action leaves only steps that are covered and fit.
LEMMA StepsLeftStep ==
  ASSUME BoundsInv, [Next]_vars
  PROVE  StepsLeft'
<1>1. TypeOK /\ StepsLeft /\ HeaderRead
  BY DEF BoundsInv
<1>2. CASE ScanDevice \/ ScanDeviceFails \/ StartUp \/ Poll \/ ShowVerbose \/ ShowCaps
  BY <1>1, <1>2, NothingLeft
     DEF StepsLeft, ScanDevice, ScanDeviceFails, StartUp, Poll, ShowVerbose, ShowCaps
<1>3. CASE StdHeader
  BY <1>1, <1>3, StdHeaderStep
<1>4. CASE ExtHeader
  BY <1>1, <1>4, ExtHeaderStep
<1>5. CASE StdEnd \/ FetchExtHeader \/ ExtEnd \/ PrinterReturns
  BY <1>1, <1>5, NothingLeft DEF StepsLeft, StdEnd, FetchExtHeader, ExtEnd, PrinterReturns
<1>6. CASE PrintFetch
  <2> DEFINE from == where + Head(todo).at
             len == Head(todo).len
  <2>1. /\ Printing /\ UNCHANGED <<adna, pc, where, cap>>
        /\ \/ FetchSucceeds(from, len) /\ todo' = Tail(todo)
           \/ FetchFails(from, len) /\ todo' = Rest(Head(todo).op)
    BY <1>6 DEF PrintFetch
  <2>2. Head(todo).at \in Nat /\ len \in Nat /\ where \in Nat
    BY <1>1, <2>1, FirstStep DEF Printing, StepsLeft, TypeOK
  <2>3. from \in Nat /\ from .. from + len - 1 = Bytes(where, Head(todo))
    BY <2>2 DEF Bytes
  <2>4. CASE FetchSucceeds(from, len) /\ todo' = Tail(todo)
    <3> HIDE DEF from, len
    <3>1. extra \subseteq extra' /\ from .. from + len - 1 \subseteq Held'
      BY <1>1, <2>2, <2>3, <2>4, FetchKeepsBlock, FetchGives
    <3>2. QED
      BY <1>1, <2>1, <2>3, <2>4, <3>1, StepDone
  <2>5. CASE FetchFails(from, len) /\ todo' = Rest(Head(todo).op)
    <3>1. extra' = extra
      BY <2>5 DEF FetchFails
    <3>2. QED
      BY <1>1, <2>1, <2>5, <3>1, FetchFailed
  <2>6. QED
    BY <2>1, <2>4, <2>5
<1>7. CASE PrintRead \/ PrintIndex \/ PrintPowerState
  <2>1. /\ Printing /\ UNCHANGED <<adna, where, cap, extra>>
        /\ Head(todo).op \notin {"fetch", "try"}
        /\ \/ todo' = Tail(todo) /\ pc' = pc
           \/ todo' = todo /\ pc' = "done"
    BY <1>7 DEF PrintRead, PrintIndex, PrintPowerState
  <2>2. CASE todo' = Tail(todo) /\ pc' = pc
    BY <1>1, <2>1, <2>2, StepDone
  <2>3. CASE todo' = todo /\ pc' = "done"
    BY <1>1, <2>1, <2>3 DEF StepsLeft, ReadsUnfetched, Wild, Held
  <2>4. QED
    BY <2>1, <2>2, <2>3
<1>8. CASE OutsideWritesCommand
  BY <1>1, <1>8, NothingLeft DEF StepsLeft, OutsideWritesCommand
<1>9. CASE UNCHANGED vars
  BY <1>1, <1>9 DEF StepsLeft, ReadsUnfetched, Wild, Held
<1>10. QED
  BY <1>2, <1>3, <1>4, <1>5, <1>6, <1>7, <1>8, <1>9 DEF Next, Process, PrinterStep

\* No printer begins without the four bytes of its header.
LEMMA HeaderReadStep ==
  ASSUME BoundsInv, [Next]_vars
  PROVE  HeaderRead'
<1>1. HeaderRead
  BY DEF BoundsInv
<1> USE DEF HeaderRead
<1>2. CASE ScanDevice \/ ScanDeviceFails \/ StartUp \/ Poll \/ ShowVerbose
  BY <1>2 DEF ScanDevice, ScanDeviceFails, StartUp, Poll, ShowVerbose
<1>3. CASE ShowCaps
  BY <1>3 DEF ShowCaps
<1>4. CASE StdHeader \/ StdEnd \/ ExtHeader \/ ExtEnd
  BY <1>4 DEF StdHeader, StdEnd, ExtHeader, ExtEnd
<1>5. CASE PrinterReturns
  BY <1>5 DEF PrinterReturns
<1>6. CASE FetchExtHeader
  <2>1. CASE pc' = "done"
    BY <2>1
  <2>2. CASE FetchSucceeds(where, 4) /\ pc' = "ext header"
    <3>1. where \in Nat /\ where' = where /\ TypeOK
      BY <1>6 DEF FetchExtHeader, BoundsInv, TypeOK
    <3>2. where .. where + 4 - 1 \subseteq Held'
      BY <2>2, <3>1, FetchGives
    <3>3. Readable(where, 4)'
      BY <3>1, <3>2 DEF Held, Readable, Missing, Present
    <3>4. QED
      BY <2>2, <3>3
  <2>3. QED
    BY <1>6, <2>1, <2>2 DEF FetchExtHeader
<1>7. CASE PrinterStep
  BY <1>7 DEF PrinterStep, Printing, PrintFetch, PrintRead, PrintIndex, PrintPowerState
<1>8. CASE OutsideWritesCommand
  BY <1>8 DEF OutsideWritesCommand
<1>9. CASE UNCHANGED vars
  BY <1>1, <1>9 DEF Readable, Missing, Present
<1>10. QED
  BY <1>2, <1>3, <1>4, <1>5, <1>6, <1>7, <1>8, <1>9 DEF Next, Process

\* A step that is covered and fits does nothing wrong.
LEMMA FaultEndsStep ==
  ASSUME BoundsInv, [Next]_vars
  PROVE  FaultEnds'
<1>1. TypeOK /\ StepsLeft /\ FaultEnds
  BY DEF BoundsInv
<1>2. ASSUME fault' = "none" PROVE FaultEnds'
  BY <1>2 DEF FaultEnds, PrintersStayInBounds
<1>3. CASE pc = "done" /\ Next
  BY <1>3 DEF Next, Process, ScanDevice, ScanDeviceFails, StartUp, Poll, ShowVerbose, ShowCaps, StdHeader,
              StdEnd, FetchExtHeader, ExtHeader, ExtEnd, PrinterReturns, PrinterStep, Printing,
              PrintFetch, PrintRead, PrintIndex, PrintPowerState, OutsideWritesCommand
<1>4. CASE UNCHANGED vars
  BY <1>1, <1>4 DEF FaultEnds, PrintersStayInBounds, ReadsUnfetched
<1>5. ASSUME pc # "done" PROVE fault = "none"
  BY <1>1, <1>5 DEF FaultEnds
<1>6. CASE pc # "done" /\ PrintRead
  <2> DEFINE s == todo
             x == todo[1]
  <2>1. Printing /\ Head(todo).op = "read" /\ UNCHANGED <<adna, where, cap>>
    BY <1>6 DEF PrintRead
  <2>2. s \in Seq(Steps) /\ s # <<>> /\ Head(todo) = x /\ 1 \in DOMAIN s
    BY <1>1, <2>1, FirstStep DEF StepsLeft, Printing
  <2>3. CASE Readable(where + Head(todo).at, Head(todo).len)
    BY <1>2, <1>5, <1>6, <2>3 DEF PrintRead
  <2>4. CASE ~Readable(where + Head(todo).at, Head(todo).len)
    <3>1. ReadsUnfetched
      <4>1. SUFFICES ASSUME Covered(s, where, Held) PROVE FALSE
        BY <1>1 DEF StepsLeft
      <4>2. Bytes(where, x) \subseteq Held \/ Promised(s, 1)
        BY <2>1, <2>2, <4>1 DEF Covered
      <4>3. ~Promised(s, 1)
        BY DEF Promised
      <4>4. ~(Bytes(where, x) \subseteq Held)
        <5>1. ~Readable(where + x.at, x.len)
          BY <2>2, <2>4
        <5> HIDE DEF x
        <5>2. QED
          BY <5>1, ReadableIsHeld
      <4>5. QED
        BY <4>2, <4>3, <4>4
    <3>2. ReadsUnfetched'
      BY <2>1, <3>1 DEF ReadsUnfetched
    <3>3. fault' \in {"past the buffer", "Internal bug"} /\ pc' = "done"
      BY <1>6, <2>4 DEF PrintRead
    <3>4. QED
      BY <3>2, <3>3 DEF FaultEnds, PrintersStayInBounds
  <2>5. QED
    BY <2>3, <2>4
<1>7. CASE pc # "done" /\ PrintIndex
  <2>1. Printing /\ Head(todo).op = "index" /\ cap' = cap
    BY <1>7 DEF PrintIndex
  <2>2. CASE fault' = fault
    BY <1>2, <1>5, <1>7, <2>2
  <2>3. CASE fault' # fault
    <3>1. fault' = "shift or index" /\ pc' = "done" /\ ~(Head(todo).at < Head(todo).len)
      BY <1>7, <2>3 DEF PrintIndex
    <3>2. Head(todo) = todo[1] /\ 1 \in DOMAIN todo
      BY <1>1, <2>1, FirstStep DEF StepsLeft, Printing
    <3>3. Wild
      BY <1>1, <2>1, <3>1, <3>2 DEF StepsLeft, Fits
    <3>4. QED
      BY <2>1, <3>1, <3>3 DEF FaultEnds, PrintersStayInBounds, Wild
  <2>4. QED
    BY <2>2, <2>3
<1>8. CASE pc # "done" /\ Next /\ ~PrintRead /\ ~PrintIndex
  <2>1. fault' = fault
    BY <1>8 DEF Next, Process, ScanDevice, ScanDeviceFails, StartUp, Poll, ShowVerbose, ShowCaps, StdHeader,
                StdEnd, FetchExtHeader, ExtHeader, ExtEnd, PrinterReturns, PrinterStep,
                PrintFetch, PrintPowerState, OutsideWritesCommand
  <2>2. QED
    BY <1>2, <1>5, <1>8, <2>1
<1>9. QED
  BY <1>3, <1>4, <1>6, <1>7, <1>8

\* The three together are inductive with the types.
LEMMA BoundsInvariant == Spec => []BoundsInv
<1>1. Init => BoundsInv
  <2>1. Init => TypeOK
    <3>1. SUFFICES ASSUME Init PROVE TypeOK
      OBVIOUS
    <3>2. adna \in BOOLEAN /\ startup \in BOOLEAN
      BY <3>1, BuildsAssumption DEF Init
    <3>3. cached = FALSE /\ extra = {} /\ bufsize = 256
      BY <3>1 DEF Init
    <3>4. cap \in {"std", "ext"} \X Nat
      BY <3>1 DEF Init, CapId
    <3>5. flagged \in BOOLEAN
      BY <3>1 DEF Init
    <3>6. where = 0 /\ been = {} /\ shown = {} /\ twice = {} /\ rare = 0 /\ pc = "scan"
      BY <3>1 DEF Init
    <3>7. BlockTypeOK /\ \A i \in extra : i < bufsize
      <4>1. 256 \in BufSizes
        BY DEF BufSizes
      <4>2. cached \in BOOLEAN
        BY <3>3, Zenon
      <4>3. extra \subseteq Nat /\ \A i \in extra : i < bufsize
        BY <3>3, Zenon
      <4>4. QED
        BY <3>3, <4>1, <4>2, <4>3, Zenon DEF BlockTypeOK
    <3>8. QED
      BY <3>2, <3>3, <3>4, <3>5, <3>6, <3>7 DEF TypeOK
  <2>2. Init => StepsLeft
    BY DEF Init, StepsLeft, Fits, Covered
  <2>3. Init => HeaderRead /\ FaultEnds
    BY DEF Init, HeaderRead, FaultEnds, PrintersStayInBounds
  <2>4. QED
    BY <2>1, <2>2, <2>3 DEF BoundsInv
<1>2. BoundsInv /\ [Next]_vars => BoundsInv'
  <2>1. ASSUME BoundsInv, [Next]_vars PROVE BoundsInv'
    <3>1. TypeOK /\ todo \in Seq(Steps)
      BY <2>1 DEF BoundsInv, StepsLeft
    <3>2. TypeOK'
      BY <2>1, <3>1, TypeStep
    <3>3. QED
      BY <2>1, <3>2, StepsLeftStep, HeaderReadStep, FaultEndsStep DEF BoundsInv
  <2>2. QED
    BY <2>1
<1>3. QED
  BY <1>1, <1>2, PTL DEF Spec

\* Show keeps its types, and config_fetch marks no byte as present that lies
\* past the buffer it has grown.
THEOREM ShowTypeCorrect == Spec => []TypeOK
<1>1. BoundsInv => TypeOK
  BY DEF BoundsInv
<1>2. QED
  BY <1>1, BoundsInvariant, PTL

\* For every build, every chain of capabilities, every contents and every
\* failure of a fetch, no printer but the two of ReadsUnfetched reads a byte
\* that was not fetched, and none but those of LTR and MCAST indexes past a
\* table or shifts past a word.
THEOREM PrintersBounded == Spec => []PrintersStayInBounds
<1>1. BoundsInv => PrintersStayInBounds
  BY DEF BoundsInv, FaultEnds
<1>2. QED
  BY <1>1, BoundsInvariant, PTL
=============================================================================
