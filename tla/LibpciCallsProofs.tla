-------------------------- MODULE LibpciCallsProofs --------------------------
(***************************************************************************)
(* Proofs about LibpciCalls: for requests of every position and length,    *)
(* every machine, every list of base registers and every image of vital    *)
(* product data, what the calls return is what their properties say.       *)
(***************************************************************************)
EXTENDS LibpciCalls, SetpciProofs

(***************************************************************************)
(* Blocks.  The accesses pci_generic_block_op makes lie side by side, each *)
(* at a multiple of its length, from the first byte of the block to the    *)
(* last.                                                                   *)
(***************************************************************************)

\* What may be asked of an access method.
Request ==
  [op : {"read", "write"}, domain : Nat, dev : Nat, pos : Nat, len : Nat, size : Nat,
   rw : BOOLEAN, twin : BOOLEAN]

\* One access.
Chunk == [pos : Nat, len : {1, 2, 4}]

\* The chunks of s lie side by side between the registers from and to.
Tiles(s, from, to) ==
  /\ s \in Seq(Chunk)
  /\ \A i \in DOMAIN s :
       s[i].pos % s[i].len = 0 /\ from <= s[i].pos /\ s[i].pos + s[i].len <= to
  /\ \A i \in 1 .. Len(s) - 1 : s[i + 1].pos = s[i].pos + s[i].len
  /\ IF Len(s) = 0 THEN from = to ELSE s[1].pos = from /\ s[Len(s)].pos + s[Len(s)].len = to

\* No chunk covers nothing.
LEMMA TilesNone ==
  ASSUME NEW x \in Nat
  PROVE  Tiles(<<>>, x, x)
  BY DEF Tiles

\* One chunk covers its registers.
LEMMA TilesOne ==
  ASSUME NEW x \in Nat, NEW n \in {1, 2, 4}, x % n = 0
  PROVE  Tiles(<<[pos |-> x, len |-> n]>>, x, x + n)
  BY DEF Tiles, Chunk

\* The longs of a block.
LEMMA TilesLongs ==
  ASSUME NEW x \in Nat, NEW n \in Nat, n > 0 => x % 4 = 0
  PROVE  Tiles([i \in 1 .. n |-> [pos |-> x + 4 * (i - 1), len |-> 4]], x, x + 4 * n)
<1> DEFINE s == [i \in 1 .. n |-> [pos |-> x + 4 * (i - 1), len |-> 4]]
<1>1. \A i \in 1 .. n : s[i] \in Chunk
  BY DEF Chunk
<1>2. s \in Seq(Chunk) /\ Len(s) = n /\ DOMAIN s = 1 .. n
  BY <1>1
<1>3. \A i \in 1 .. n : s[i].pos = x + 4 * (i - 1) /\ s[i].len = 4
  OBVIOUS
<1> HIDE DEF s
<1>4. \A i \in DOMAIN s : s[i].pos % s[i].len = 0 /\ x <= s[i].pos /\ s[i].pos + s[i].len <= x + 4 * n
  <2>1. SUFFICES ASSUME NEW i \in 1 .. n
                 PROVE  s[i].pos % s[i].len = 0 /\ x <= s[i].pos /\ s[i].pos + s[i].len <= x + 4 * n
    BY <1>2
  <2>2. x % 4 = 0 /\ s[i].pos = x + 4 * (i - 1) /\ s[i].len = 4 /\ s[i].pos % 4 = 0
    BY <1>3
  <2>3. QED
    BY <2>2
<1>5. \A i \in 1 .. Len(s) - 1 : s[i + 1].pos = s[i].pos + s[i].len
  BY <1>2, <1>3
<1>6. IF Len(s) = 0 THEN x = x + 4 * n
      ELSE s[1].pos = x /\ s[Len(s)].pos + s[Len(s)].len = x + 4 * n
  BY <1>2, <1>3
<1>7. Tiles(s, x, x + 4 * n)
  BY <1>2, <1>4, <1>5, <1>6, <1>1 DEF Tiles
<1>8. QED
  BY <1>7 DEF s

\* What lies side by side goes on.
LEMMA TilesConcat ==
  ASSUME NEW x \in Nat, NEW y \in Nat, NEW z \in Nat, x <= y, y <= z,
         NEW a, NEW b, Tiles(a, x, y), Tiles(b, y, z)
  PROVE  Tiles(a \o b, x, z)
<1> DEFINE c == a \o b
<1>1. /\ a \in Seq(Chunk) /\ b \in Seq(Chunk) /\ c \in Seq(Chunk)
      /\ Len(c) = Len(a) + Len(b)
      /\ \A i \in 1 .. Len(a) : c[i] = a[i]
      /\ \A i \in 1 .. Len(b) : c[Len(a) + i] = b[i]
  BY DEF Tiles
<1> HIDE DEF c
<1>2. \A i \in DOMAIN a : a[i] \in Chunk /\ a[i].pos % a[i].len = 0 /\ x <= a[i].pos /\ a[i].pos + a[i].len <= y
  BY <1>1 DEF Tiles
<1>3. \A i \in DOMAIN b : b[i] \in Chunk /\ b[i].pos % b[i].len = 0 /\ y <= b[i].pos /\ b[i].pos + b[i].len <= z
  BY <1>1 DEF Tiles
<1>4. ASSUME NEW i \in DOMAIN c
      PROVE  c[i].pos % c[i].len = 0 /\ x <= c[i].pos /\ c[i].pos + c[i].len <= z
  <2>1. CASE i <= Len(a)
    <3>1. i \in DOMAIN a /\ c[i] = a[i]
      BY <1>1, <2>1
    <3>2. a[i].pos + a[i].len \in Nat
      BY <1>2, <3>1 DEF Chunk
    <3>3. QED
      BY <1>2, <3>1, <3>2
  <2>2. CASE i > Len(a)
    <3>1. PICK j \in 1 .. Len(b) : i = Len(a) + j
      <4>1. i - Len(a) \in 1 .. Len(b) /\ i = Len(a) + (i - Len(a))
        BY <1>1, <2>2
      <4>2. QED
        BY <4>1
    <3>2. c[i] = b[j] /\ j \in DOMAIN b
      BY <1>1, <3>1
    <3>3. b[j].pos \in Nat
      BY <1>3, <3>2 DEF Chunk
    <3>4. QED
      BY <1>3, <3>2, <3>3
  <2>3. QED
    BY <1>1, <2>1, <2>2
<1>5. ASSUME NEW i \in 1 .. Len(c) - 1
      PROVE  c[i + 1].pos = c[i].pos + c[i].len
  <2>1. CASE i < Len(a)
    <3>1. i \in 1 .. Len(a) - 1 /\ i \in 1 .. Len(a) /\ i + 1 \in 1 .. Len(a)
      BY <1>1, <2>1
    <3>2. c[i] = a[i] /\ c[i + 1] = a[i + 1]
      BY <1>1, <3>1
    <3>3. a[i + 1].pos = a[i].pos + a[i].len
      BY <3>1 DEF Tiles
    <3>4. QED
      BY <3>2, <3>3
  <2>2. CASE i = Len(a)
    <3>1. 1 \in 1 .. Len(b) /\ i \in 1 .. Len(a) /\ c[i] = a[Len(a)] /\ c[i + 1] = b[1]
      BY <1>1, <2>2
    <3>2. QED
      BY <1>1, <3>1 DEF Tiles
  <2>3. CASE i > Len(a)
    <3>1. PICK j \in 1 .. Len(b) - 1 : i = Len(a) + j
      <4>1. i - Len(a) \in 1 .. Len(b) - 1 /\ i = Len(a) + (i - Len(a))
        BY <1>1, <2>3
      <4>2. QED
        BY <4>1
    <3>2. j \in 1 .. Len(b) /\ j + 1 \in 1 .. Len(b) /\ i + 1 = Len(a) + (j + 1)
      BY <1>1, <3>1
    <3>3. c[i] = b[j] /\ c[i + 1] = b[j + 1]
      BY <1>1, <3>1, <3>2
    <3>4. QED
      BY <3>1, <3>3 DEF Tiles
  <2>4. Len(a) \in Nat /\ i \in Int
    BY <1>1
  <2>5. QED
    BY <2>1, <2>2, <2>3, <2>4
<1>6. IF Len(c) = 0 THEN x = z ELSE c[1].pos = x /\ c[Len(c)].pos + c[Len(c)].len = z
  <2>1. CASE Len(a) = 0 /\ Len(b) = 0
    BY <1>1, <2>1 DEF Tiles
  <2>2. CASE Len(a) # 0 /\ Len(b) = 0
    BY <1>1, <2>2 DEF Tiles
  <2>3. CASE Len(a) = 0 /\ Len(b) # 0
    BY <1>1, <2>3 DEF Tiles
  <2>4. CASE Len(a) # 0 /\ Len(b) # 0
    <3>1. c[1] = a[1] /\ c[Len(c)] = b[Len(b)] /\ Len(c) # 0
      BY <1>1, <2>4
    <3>2. QED
      BY <2>4, <3>1 DEF Tiles
  <2>5. QED
    BY <1>1, <2>1, <2>2, <2>3, <2>4
<1>7. QED
  BY <1>1, <1>4, <1>5, <1>6 DEF Tiles, c

\* A chunk that is there or not.
LEMMA TilesMaybe ==
  ASSUME NEW x \in Nat, NEW n \in {1, 2, 4}, NEW P \in BOOLEAN, P => x % n = 0
  PROVE  Tiles(IF P THEN <<[pos |-> x, len |-> n]>> ELSE <<>>, x, x + (IF P THEN n ELSE 0))
<1>1. CASE P
  BY <1>1, TilesOne
<1>2. CASE ~P
  BY <1>2, TilesNone
<1>3. QED
  BY <1>1, <1>2

\* pci_generic_block_op covers the block.
LEMMA ChunksTile ==
  ASSUME NEW pos \in Nat, NEW len \in Nat
  PROVE  Tiles(Chunks(pos, len), pos, pos + len)
<1> DEFINE byte == IF pos % 2 = 1 /\ len >= 1 THEN 1 ELSE 0
           word == IF (pos + byte) % 4 # 0 /\ len - byte >= 2 THEN 2 ELSE 0
           p    == pos + byte + word
           n    == (len - byte - word) \div 4
           q    == p + 4 * n
           rest == pos + len - q
           two  == IF rest >= 2 THEN 2 ELSE 0
           c1   == IF byte = 1 THEN <<[pos |-> pos, len |-> 1]>> ELSE <<>>
           c2   == IF word = 2 THEN <<[pos |-> pos + byte, len |-> 2]>> ELSE <<>>
           c3   == [i \in 1 .. n |-> [pos |-> p + 4 * (i - 1), len |-> 4]]
           c4   == IF rest >= 2 THEN <<[pos |-> q, len |-> 2]>> ELSE <<>>
           c5   == IF rest % 2 = 1 THEN <<[pos |-> pos + len - 1, len |-> 1]>> ELSE <<>>
<1>1. byte \in {0, 1} /\ byte <= len /\ (byte = 0 => pos % 2 = 0 \/ len = 0)
  OBVIOUS
<1>2. (pos + byte) % 2 = 0 \/ len = 0
  BY <1>1
<1>3. word \in {0, 2} /\ byte + word <= len /\ (word = 2 => len # 0)
  BY <1>1
<1>4. len - byte - word \in Nat /\ n \in Nat /\ q \in Nat /\ p \in Nat /\ q - p = 4 * n
  BY <1>1, <1>3
<1>5. rest \in 0 .. 3
  BY <1>1, <1>3
<1>6. p % 2 = 0 \/ len = 0
  BY <1>2, <1>3
<1>7. n > 0 => p % 4 = 0
  <2>1. SUFFICES ASSUME n > 0 PROVE p % 4 = 0
    OBVIOUS
  <2>2. len - byte - word >= 4
    BY <2>1, <1>4
  <2>3. CASE word = 2
    <3>1. (pos + byte) % 4 # 0 /\ (pos + byte) % 2 = 0
      BY <2>2, <2>3, <1>2, <1>1, <1>3
    <3> HIDE DEF byte
    <3>2. QED
      BY <2>3, <3>1, <1>1
  <2>4. CASE word = 0
    <3>1. (pos + byte) % 4 = 0
      BY <2>2, <2>4, <1>1
    <3>2. QED
      BY <2>4, <3>1
  <2>5. QED
    BY <1>3, <2>3, <2>4
<1>8. rest >= 2 => q % 2 = 0
  <2>1. len = 0 => rest < 2
    BY <1>1, <1>3
  <2>2. \A u, v, w \in Nat : u - v = 4 * w /\ v % 2 = 0 => u % 2 = 0
    OBVIOUS
  <2> HIDE DEF byte, word, p, n, q, rest
  <2>3. QED
    BY <1>4, <1>5, <1>6, <2>1, <2>2
<1> HIDE DEF byte, word, p, n, q, rest
<1>9. two \in {0, 2} /\ q + two + (rest % 2) = pos + len
  BY <1>5, <1>4 DEF rest
<1>10. Tiles(c1, pos, pos + byte)
  <2>1. pos % 1 = 0 /\ byte = IF byte = 1 THEN 1 ELSE 0
    BY <1>1
  <2>2. QED
    BY <2>1, TilesMaybe
<1>11. Tiles(c2, pos + byte, p)
  <2>1. word = 2 => (pos + byte) % 2 = 0
    BY <1>2, <1>3
  <2>2. pos + byte \in Nat /\ p = pos + byte + word
    BY <1>1 DEF p
  <2>3. word = IF word = 2 THEN 2 ELSE 0
    BY <1>3
  <2>4. Tiles(c2, pos + byte, pos + byte + (IF word = 2 THEN 2 ELSE 0))
    BY <2>1, <2>2, TilesMaybe
  <2>5. QED
    BY <2>2, <2>3, <2>4
<1>12. Tiles(c3, p, q)
  BY <1>4, <1>7, TilesLongs DEF q
<1>13. Tiles(c4, q, q + two)
  BY <1>4, <1>8, TilesMaybe
<1>14. Tiles(c5, q + two, pos + len)
  <2>1. rest % 2 \in {0, 1} /\ q + two \in Nat
    BY <1>4, <1>5, <1>9
  <2>2. CASE rest % 2 = 1
    <3>1. pos + len - 1 = q + two /\ pos + len = q + two + 1 /\ (q + two) % 1 = 0
      BY <1>9, <2>1, <2>2
    <3>2. QED
      BY <2>1, <2>2, <3>1, TilesOne
  <2>3. CASE rest % 2 = 0
    <3>1. pos + len = q + two
      BY <1>9, <2>1, <2>3
    <3>2. QED
      BY <2>1, <2>3, <3>1, TilesNone
  <2>4. QED
    BY <2>1, <2>2, <2>3
<1>15. /\ pos + byte \in Nat /\ q + two \in Nat /\ pos + len \in Nat
       /\ pos <= pos + byte /\ pos + byte <= p /\ p <= q /\ q <= q + two /\ q + two <= pos + len
  BY <1>1, <1>3, <1>4, <1>5, <1>9 DEF p
<1>16. Chunks(pos, len) = c1 \o c2 \o c3 \o c4 \o c5
  BY DEF Chunks, byte, word, p, n, q, rest
<1> HIDE DEF c1, c2, c3, c4, c5, two
<1>17. Tiles(c1 \o c2, pos, p)
  BY <1>4, <1>10, <1>11, <1>15, TilesConcat
<1>18. Tiles(c1 \o c2 \o c3, pos, q)
  BY <1>4, <1>12, <1>15, <1>17, TilesConcat
<1>19. Tiles(c1 \o c2 \o c3 \o c4, pos, q + two)
  BY <1>4, <1>13, <1>15, <1>18, TilesConcat
<1>20. Tiles(c1 \o c2 \o c3 \o c4 \o c5, pos, pos + len)
  BY <1>4, <1>14, <1>15, <1>19, TilesConcat
<1>21. QED
  BY <1>16, <1>20

\* The chunks up to the k-th cover what lies before the end of that one.
Until(s, from, k) == IF k = 0 THEN from ELSE s[k].pos + s[k].len

\* The first k chunks cover exactly the registers before the end of the k-th.
LEMMA TilesPrefix ==
  ASSUME NEW from \in Nat, NEW to \in Nat, NEW s, Tiles(s, from, to), NEW k \in 0 .. Len(s)
  PROVE  /\ Until(s, from, k) \in from .. to
         /\ \A r \in Int :
              r \in from .. Until(s, from, k) - 1
                <=> \E i \in 1 .. k : r \in s[i].pos .. s[i].pos + s[i].len - 1
<1> DEFINE Cover(j) ==
             /\ Until(s, from, j) \in from .. to
             /\ \A r \in Int :
                  r \in from .. Until(s, from, j) - 1
                    <=> \E i \in 1 .. j : r \in s[i].pos .. s[i].pos + s[i].len - 1
           S == {j \in 0 .. Len(s) : Cover(j)}
<1>1. s \in Seq(Chunk) /\ Len(s) \in Nat
  BY DEF Tiles
<1>2. 0 \in S
  <2>1. from <= to
    <3>1. CASE Len(s) = 0
      BY <3>1 DEF Tiles
    <3>2. CASE Len(s) # 0
      <4>1. s[1] \in Chunk /\ 1 \in DOMAIN s
        BY <1>1, <3>2
      <4>2. QED
        BY <4>1 DEF Tiles, Chunk
    <3>3. QED
      BY <3>1, <3>2
  <2>2. QED
    BY <1>1, <2>1 DEF Until
<1>3. ASSUME NEW j \in 1 .. Len(s), j - 1 \in S
      PROVE  j \in S
  <2>1. s[j] \in Chunk /\ from <= s[j].pos /\ s[j].pos + s[j].len <= to
    BY <1>1 DEF Tiles
  <2>2. s[j].pos = Until(s, from, j - 1)
    <3>1. CASE j = 1
      BY <3>1 DEF Tiles, Until
    <3>2. CASE j > 1
      <4>1. j - 1 \in 1 .. Len(s) - 1 /\ (j - 1) + 1 = j
        BY <3>2
      <4>2. s[(j - 1) + 1].pos = s[j - 1].pos + s[j - 1].len
        BY <4>1 DEF Tiles
      <4>3. QED
        BY <4>1, <4>2 DEF Until
    <3>3. QED
      BY <3>1, <3>2
  <2>3. Until(s, from, j) = s[j].pos + s[j].len /\ s[j].pos \in Nat /\ s[j].len \in Nat
    BY <2>1 DEF Until, Chunk
  <2>4. Cover(j - 1)
    BY <1>3
  <2>5. ASSUME NEW r \in Int
        PROVE  r \in from .. Until(s, from, j) - 1
                 <=> \E i \in 1 .. j : r \in s[i].pos .. s[i].pos + s[i].len - 1
    <3>1. r \in from .. Until(s, from, j) - 1
            <=> r \in from .. Until(s, from, j - 1) - 1 \/ r \in s[j].pos .. s[j].pos + s[j].len - 1
      <4>1. PICK p, l \in Nat : p = s[j].pos /\ l = s[j].len
        BY <2>3
      <4>2. Until(s, from, j) = p + l /\ Until(s, from, j - 1) = p /\ from <= p
        BY <2>1, <2>2, <2>3, <4>1
      <4>3. r \in from .. p + l - 1 <=> r \in from .. p - 1 \/ r \in p .. p + l - 1
        BY <4>2
      <4>4. QED
        BY <4>1, <4>2, <4>3
    <3>2. 1 .. j = (1 .. j - 1) \cup {j}
      OBVIOUS
    <3>3. r \in from .. Until(s, from, j - 1) - 1
            <=> \E i \in 1 .. j - 1 : r \in s[i].pos .. s[i].pos + s[i].len - 1
      BY <2>4
    <3> HIDE DEF Cover
    <3>4. QED
      BY <3>1, <3>2, <3>3
  <2>6. Until(s, from, j) \in from .. to
    BY <2>1, <2>3
  <2>7. QED
    BY <2>5, <2>6
<1>4. k \in S
  <2> HIDE DEF S
  <2>1. 0 .. Len(s) \subseteq S
    BY <1>1, <1>2, <1>3, UpToInduct
  <2>2. QED
    BY <2>1
<1>5. QED
  BY <1>4

(***************************************************************************)
(* Outcomes.  A transfer that began at pos moves the registers of an       *)
(* interval, each to the byte as far from the start.                       *)
(***************************************************************************)

\* Each register of I goes with the byte as far into the buffer as it is behind pos.
Moves(d, pos, I) == {[domain |-> d, reg |-> r, byte |-> r - pos] : r \in I}

\* The outcome of a transfer of len bytes from pos on, of which those in L can be
\* transferred at all.
Exact(res, d, pos, len, L) ==
  /\ res.ok \in BOOLEAN
  /\ \E n \in 0 .. len : res.moved = Moves(d, pos, pos .. pos + n - 1) /\ (res.ok => n = len)
  /\ len > 0 => (res.ok <=> pos .. pos + len - 1 \subseteq L)

\* A call that takes its buffer as it is moves each byte with its own register.
LEMMA StraightMoves ==
  ASSUME NEW d, NEW rq \in Request
  PROVE  Straight(d, rq) = Moves(d, rq.pos, rq.pos .. rq.pos + rq.len - 1)
<1>1. rq.pos \in Nat /\ rq.len \in Nat
  BY DEF Request
<1>2. ASSUME NEW i \in 0 .. rq.len - 1
      PROVE  [domain |-> d, reg |-> rq.pos + i, byte |-> i] \in Moves(d, rq.pos, rq.pos .. rq.pos + rq.len - 1)
  <2>1. rq.pos + i \in rq.pos .. rq.pos + rq.len - 1 /\ (rq.pos + i) - rq.pos = i
    BY <1>1
  <2>2. QED
    BY <2>1 DEF Moves
<1>3. ASSUME NEW r \in rq.pos .. rq.pos + rq.len - 1
      PROVE  [domain |-> d, reg |-> r, byte |-> r - rq.pos] \in Straight(d, rq)
  <2>1. r - rq.pos \in 0 .. rq.len - 1 /\ rq.pos + (r - rq.pos) = r
    BY <1>1
  <2>2. QED
    BY <2>1 DEF Straight
<1>4. QED
  BY <1>2, <1>3 DEF Straight, Moves

\* The bytes of an access that was asked for at its length's multiple.
LEMMA LanesStraight ==
  ASSUME NEW d, NEW rq \in Request, rq.len \in {1, 2, 4}, rq.pos % rq.len = 0
  PROVE  Lanes(d, rq, rq.pos % 4) = Straight(d, rq)
<1>1. rq.pos \in Nat
  BY DEF Request
<1>2. (rq.pos % 4) + rq.len <= 4
  <2>1. CASE rq.len = 1
    BY <1>1, <2>1
  <2>2. CASE rq.len = 2
    <3>1. rq.pos % 2 = 0
      BY <2>2
    <3>2. QED
      BY <1>1, <2>2, <3>1
  <2>3. CASE rq.len = 4
    <3>1. rq.pos % 4 = 0
      BY <2>3
    <3>2. QED
      BY <1>1, <2>3, <3>1
  <2>4. QED
    BY <2>1, <2>2, <2>3
<1>3. {j \in 0 .. rq.len - 1 : (rq.pos % 4) + j < 4} = 0 .. rq.len - 1
  BY <1>1, <1>2
<1>4. ASSUME NEW i \in 0 .. rq.len - 1
      PROVE  rq.pos - (rq.pos % 4) + (rq.pos % 4) + i = rq.pos + i /\ (rq.pos % 4) + i < 4
  BY <1>1, <1>2
<1>5. ASSUME NEW i \in 0 .. rq.len - 1
      PROVE  [domain |-> d, reg |-> rq.pos + i, byte |-> i] \in Lanes(d, rq, rq.pos % 4)
  BY <1>4 DEF Lanes
<1>6. ASSUME NEW m \in Lanes(d, rq, rq.pos % 4)
      PROVE  m \in Straight(d, rq)
  <2>1. PICK i \in 0 .. rq.len - 1 :
          m = [domain |-> d, reg |-> rq.pos - (rq.pos % 4) + (rq.pos % 4) + i, byte |-> i]
    BY DEF Lanes
  <2>2. m = [domain |-> d, reg |-> rq.pos + i, byte |-> i]
    BY <2>1, <1>4
  <2>3. QED
    BY <2>2 DEF Straight
<1>7. QED
  BY <1>5, <1>6 DEF Straight

\* A limit at a multiple of every length cuts no access.
LEMMA LimitsCut ==
  ASSUME NEW pos \in Nat, NEW len \in {1, 2, 4}, pos % len = 0, NEW top \in {256, 4096}
  PROVE  pos < top => pos + len <= top
<1>1. pos < top => pos + len <= top
  <2>1. CASE len = 1
    BY <2>1
  <2>2. CASE len = 2
    <3>1. pos % 2 = 0
      BY <2>2
    <3>2. QED
      BY <2>2, <3>1
  <2>3. CASE len = 4
    <3>1. pos % 4 = 0
      BY <2>3
    <3>2. QED
      BY <2>3, <3>1
  <2>4. QED
    BY <2>1, <2>2, <2>3
<1>2. QED
  BY <1>1

\* Refusing is right where the first byte could not be transferred either.
LEMMA RefusedExact ==
  ASSUME NEW d, NEW pos \in Nat, NEW len \in Nat, NEW L, len > 0 => pos \notin L
  PROVE  Exact(Refused, d, pos, len, L)
<1>1. pos .. pos + 0 - 1 = {} /\ 0 \in 0 .. len
  OBVIOUS
<1>2. Moves(d, pos, pos .. pos + 0 - 1) = {}
  BY <1>1 DEF Moves
<1>3. len > 0 => pos \in pos .. pos + len - 1
  OBVIOUS
<1>4. QED
  BY <1>1, <1>2, <1>3 DEF Exact, Refused

\* Doing all is right where every byte could be transferred.
LEMMA DoneExact ==
  ASSUME NEW d, NEW rq \in Request, NEW L,
         rq.len > 0 => rq.pos .. rq.pos + rq.len - 1 \subseteq L
  PROVE  Exact(Done(Straight(d, rq)), d, rq.pos, rq.len, L)
<1>1. rq.len \in Nat /\ rq.len \in 0 .. rq.len
  BY DEF Request
<1>2. Straight(d, rq) = Moves(d, rq.pos, rq.pos .. rq.pos + rq.len - 1)
  BY StraightMoves
<1>3. QED
  BY <1>1, <1>2 DEF Exact, Done

\* As many bytes are moved as there are registers.
LEMMA MovesCount ==
  ASSUME NEW d, NEW pos \in Nat, NEW n \in Nat
  PROVE  Cardinality(Moves(d, pos, pos .. pos + n - 1)) = n
<1> DEFINE I == pos .. pos + n - 1
           f == [r \in I |-> [domain |-> d, reg |-> r, byte |-> r - pos]]
<1>1. f \in Bijection(I, Moves(d, pos, I))
  <2>1. \A r \in I : f[r] \in Moves(d, pos, I)
    BY DEF Moves
  <2>2. \A r, t \in I : f[r] = f[t] => r = t
    <3>1. \A r \in I : f[r].reg = r
      OBVIOUS
    <3> HIDE DEF f
    <3>2. QED
      BY <3>1
  <2>3. \A m \in Moves(d, pos, I) : \E r \in I : f[r] = m
    BY DEF Moves
  <2>4. f \in [I -> Moves(d, pos, I)]
    BY <2>1
  <2> HIDE DEF f, I
  <2>5. QED
    BY <2>2, <2>3, <2>4 DEF Bijection, Injection, Surjection, IsInjective
<1>2. IsFiniteSet(I) /\ Cardinality(I) = n
  BY FS_Interval
<1>3. QED
  BY <1>1, <1>2, FS_Bijection DEF ExistsBijection

\* A transfer of no more than there is.
LEMMA UpToExact ==
  ASSUME NEW d, NEW rq \in Request
  PROVE  Exact(UpTo(d, rq), d, rq.pos, rq.len, 0 .. rq.size - 1)
<1> DEFINE pos == rq.pos
           len == rq.len
           size == rq.size
           n == IF pos + len <= size THEN len ELSE IF pos >= size THEN 0 ELSE size - pos
           moved == {m \in Straight(d, rq) : m.reg < size}
<1>1. pos \in Nat /\ len \in Nat /\ size \in Nat
  BY DEF Request
<1>2. n \in 0 .. len
  BY <1>1
<1>3. \A r \in Int : r \in pos .. pos + n - 1 <=> r \in pos .. pos + len - 1 /\ r < size
  BY <1>1
<1>4. moved = Moves(d, pos, pos .. pos + n - 1)
  <2> HIDE DEF pos, len, size, n
  <2>1. Straight(d, rq) = Moves(d, pos, pos .. pos + len - 1)
    BY StraightMoves DEF pos, len
  <2>2. ASSUME NEW m \in moved
        PROVE  m \in Moves(d, pos, pos .. pos + n - 1)
    <3>1. PICK r \in pos .. pos + len - 1 : m = [domain |-> d, reg |-> r, byte |-> r - pos]
      BY <2>1 DEF Moves
    <3>2. m.reg = r /\ r < size /\ r \in Int
      BY <1>1, <3>1
    <3>3. r \in pos .. pos + n - 1
      BY <1>3, <3>2
    <3>4. QED
      BY <3>1, <3>3 DEF Moves
  <2>3. ASSUME NEW m \in Moves(d, pos, pos .. pos + n - 1)
        PROVE  m \in moved
    <3>1. PICK r \in pos .. pos + n - 1 : m = [domain |-> d, reg |-> r, byte |-> r - pos]
      BY DEF Moves
    <3>2. r \in pos .. pos + len - 1 /\ m.reg < size
      BY <1>1, <1>2, <1>3, <3>1
    <3>3. m \in Straight(d, rq)
      BY <2>1, <3>1, <3>2 DEF Moves
    <3>4. QED
      BY <3>2, <3>3
  <2>4. QED
    BY <2>2, <2>3
<1> HIDE DEF moved
<1>5. Cardinality(moved) = n
  <2> HIDE DEF pos, len, size, n
  <2>1. n \in Nat
    BY <1>1, <1>2
  <2>2. QED
    BY <1>1, <1>4, <2>1, MovesCount
<1>6. UpTo(d, rq) = [ok |-> n = len, moved |-> moved]
  BY <1>5 DEF UpTo, moved
<1>7. len > 0 => (n = len <=> pos .. pos + len - 1 \subseteq 0 .. size - 1)
  <2>1. ASSUME len > 0
        PROVE  pos .. pos + len - 1 \subseteq 0 .. size - 1 => pos + len <= size
    <3>1. pos + len - 1 \in pos .. pos + len - 1
      BY <1>1, <2>1
    <3>2. QED
      BY <1>1, <3>1
  <2>2. ASSUME len > 0
        PROVE  n = len <=> pos + len <= size
    BY <1>1, <2>2
  <2>3. pos + len <= size => pos .. pos + len - 1 \subseteq 0 .. size - 1
    BY <1>1
  <2> HIDE DEF pos, len, size, n
  <2>4. QED
    BY <2>1, <2>2, <2>3
<1> HIDE DEF n, pos, len, size
<1>8. Exact([ok |-> n = len, moved |-> moved], d, pos, len, 0 .. size - 1)
  BY <1>2, <1>4, <1>7 DEF Exact
<1>9. QED
  BY <1>6, <1>8 DEF pos, len, size

\* A request for one of the chunks.
IsPiece(r, rq) ==
  /\ r \in Request
  /\ r.len \in {1, 2, 4} /\ r.pos % r.len = 0
  /\ <<r.op, r.domain, r.dev, r.size, r.rw, r.twin>> = <<rq.op, rq.domain, rq.dev, rq.size, rq.rw, rq.twin>>

\* The pieces pci_generic_block_op makes of a block are its chunks, inside of it.
LEMMA PiecesFit ==
  ASSUME NEW rq \in Request
  PROVE  LET p == Pieces(rq)
             s == Chunks(rq.pos, rq.len)
         IN  /\ Tiles(s, rq.pos, rq.pos + rq.len)
             /\ DOMAIN p = DOMAIN s /\ DOMAIN s = 1 .. Len(s) /\ Len(s) \in Nat
             /\ \A i \in DOMAIN p :
                  /\ IsPiece(p[i], rq) /\ p[i] \in Accesses(rq)
                  /\ p[i].pos = s[i].pos /\ p[i].len = s[i].len
                  /\ rq.pos <= p[i].pos /\ p[i].pos + p[i].len <= rq.pos + rq.len
<1> DEFINE p == Pieces(rq)
           s == Chunks(rq.pos, rq.len)
<1>1. rq.pos \in Nat /\ rq.len \in Nat
  BY DEF Request
<1>2. Tiles(s, rq.pos, rq.pos + rq.len)
  BY <1>1, ChunksTile
<1>3. s \in Seq(Chunk)
  BY <1>2 DEF Tiles
<1>4. p = [i \in DOMAIN s |-> [rq EXCEPT !.pos = s[i].pos, !.len = s[i].len]]
  BY DEF Pieces
<1> HIDE DEF s, p
<1>5. DOMAIN p = DOMAIN s /\ DOMAIN s = 1 .. Len(s) /\ Len(s) \in Nat
  <2>1. DOMAIN p = DOMAIN s
    BY <1>4
  <2>2. DOMAIN s = 1 .. Len(s) /\ Len(s) \in Nat
    BY <1>3
  <2>3. QED
    BY <2>1, <2>2
<1>6. ASSUME NEW i \in DOMAIN p
      PROVE  /\ IsPiece(p[i], rq) /\ p[i] \in Accesses(rq)
             /\ p[i].pos = s[i].pos /\ p[i].len = s[i].len
             /\ rq.pos <= p[i].pos /\ p[i].pos + p[i].len <= rq.pos + rq.len
  <2>1. s[i] \in Chunk
    BY <1>3, <1>5
  <2>2. s[i].pos \in Nat /\ s[i].len \in {1, 2, 4} /\ s[i].len \in Nat
    BY <2>1 DEF Chunk
  <2>3. p[i] = [rq EXCEPT !.pos = s[i].pos, !.len = s[i].len]
    BY <1>4, <1>5
  <2>4. /\ p[i] \in Request /\ p[i].pos = s[i].pos /\ p[i].len = s[i].len
        /\ p[i].op = rq.op /\ p[i].domain = rq.domain /\ p[i].dev = rq.dev /\ p[i].size = rq.size
        /\ p[i].rw = rq.rw /\ p[i].twin = rq.twin
    BY <2>2, <2>3 DEF Request
  <2>5. s[i].pos % s[i].len = 0 /\ rq.pos <= s[i].pos /\ s[i].pos + s[i].len <= rq.pos + rq.len
    BY <1>2, <1>5 DEF Tiles
  <2>6. p[i] \in Accesses(rq)
    BY DEF Accesses, p
  <2>7. QED
    BY <2>2, <2>4, <2>5, <2>6 DEF IsPiece
<1>7. QED
  BY <1>2, <1>5, <1>6 DEF p, s

\* The bytes of a piece that begins at pos, as bytes of the whole.
Shifted(M, pos, from) == {[m EXCEPT !.byte = @ + pos - from] : m \in M}

\* The moves of a piece, seen from the buffer of the block.
LEMMA MovesShift ==
  ASSUME NEW d, NEW from \in Nat, NEW pos \in Nat, NEW I \in SUBSET Int
  PROVE  Shifted(Moves(d, pos, I), pos, from) = Moves(d, from, I)
<1> DEFINE M == Moves(d, pos, I)
<1>1. ASSUME NEW r \in I
      PROVE  [[domain |-> d, reg |-> r, byte |-> r - pos] EXCEPT !.byte = @ + pos - from]
               = [domain |-> d, reg |-> r, byte |-> r - from]
  OBVIOUS
<1>2. ASSUME NEW r \in I
      PROVE  [domain |-> d, reg |-> r, byte |-> r - from] \in Shifted(M, pos, from)
  <2>1. [domain |-> d, reg |-> r, byte |-> r - pos] \in M
    BY DEF Moves
  <2>2. QED
    BY <1>1, <2>1 DEF Shifted
<1>3. ASSUME NEW m \in M
      PROVE  [m EXCEPT !.byte = @ + pos - from] \in Moves(d, from, I)
  <2>1. PICK r \in I : m = [domain |-> d, reg |-> r, byte |-> r - pos]
    BY DEF Moves
  <2>2. [m EXCEPT !.byte = @ + pos - from] = [domain |-> d, reg |-> r, byte |-> r - from]
    BY <1>1, <2>1
  <2>3. QED
    BY <2>2 DEF Moves
<1>4. ASSUME NEW x \in Moves(d, from, I)
      PROVE  x \in Shifted(M, pos, from)
  BY <1>2 DEF Moves
<1>5. \A x \in Shifted(M, pos, from) : x \in Moves(d, from, I)
  BY <1>3 DEF Shifted
<1>6. QED
  BY <1>4, <1>5

\* Moves of two sets of registers add up.
LEMMA MovesUnion ==
  ASSUME NEW d, NEW from, NEW B, NEW C
  PROVE  Moves(d, from, B \cup C) = Moves(d, from, B) \cup Moves(d, from, C)
  BY DEF Moves

\* Where a chunk begins the ones before it end, and the last ends with the block.
LEMMA TilesNext ==
  ASSUME NEW from \in Nat, NEW to \in Nat, NEW s, Tiles(s, from, to)
  PROVE  /\ \A k \in 1 .. Len(s) : s[k].pos = Until(s, from, k - 1)
         /\ Until(s, from, Len(s)) = to
<1>1. s \in Seq(Chunk) /\ Len(s) \in Nat
  BY DEF Tiles
<1>2. ASSUME NEW k \in 1 .. Len(s)
      PROVE  s[k].pos = Until(s, from, k - 1)
  <2>1. CASE k = 1
    BY <2>1 DEF Tiles, Until
  <2>2. CASE k > 1
    <3>1. k - 1 \in 1 .. Len(s) - 1 /\ (k - 1) + 1 = k
      BY <2>2
    <3>2. s[(k - 1) + 1].pos = s[k - 1].pos + s[k - 1].len
      BY <3>1 DEF Tiles
    <3>3. QED
      BY <3>1, <3>2 DEF Until
  <2>3. QED
    BY <2>1, <2>2
<1>3. Until(s, from, Len(s)) = to
  BY <1>1 DEF Tiles, Until
<1>4. QED
  BY <1>2, <1>3

\* pci_generic_block_op over accesses that do what they should does what it should.
LEMMA SplitExact ==
  ASSUME NEW rq \in Request, NEW once, NEW d, NEW L,
         \A i \in DOMAIN Pieces(rq) :
           Exact(once[Pieces(rq)[i]], d, Pieces(rq)[i].pos, Pieces(rq)[i].len, L)
  PROVE  Exact(Split(rq, once), d, rq.pos, rq.len, L)
<1> DEFINE p == Pieces(rq)
           s == Chunks(rq.pos, rq.len)
           from == rq.pos
           to == rq.pos + rq.len
           N == Len(s)
           I(i) == p[i].pos .. p[i].pos + p[i].len - 1
           good(i) == once[p[i]].ok
           shift(i) == Shifted(once[p[i]].moved, p[i].pos, from)
           made == {i \in DOMAIN p : \A j \in 1 .. i - 1 : once[p[j]].ok}
<1>1. from \in Nat /\ rq.len \in Nat /\ to \in Nat /\ to - from = rq.len
  BY DEF Request
<1>2. /\ Tiles(s, from, to) /\ DOMAIN p = 1 .. N /\ N \in Nat
      /\ \A i \in 1 .. N : /\ p[i].pos = s[i].pos /\ p[i].len = s[i].len
                           /\ p[i].pos \in Nat /\ p[i].len \in {1, 2, 4}
                           /\ from <= p[i].pos /\ p[i].pos + p[i].len <= to
  BY PiecesFit DEF IsPiece, Request
<1>3. \A i \in 1 .. N : Exact(once[p[i]], d, p[i].pos, p[i].len, L)
  BY <1>2
<1>4. Split(rq, once) = [ok |-> \A i \in 1 .. N : good(i), moved |-> UNION {shift(i) : i \in made}]
  BY <1>2 DEF Split, Shifted
<1>5. made = {i \in 1 .. N : \A j \in 1 .. i - 1 : good(j)}
  BY <1>2
<1> HIDE DEF p, s, from, to, N, made
<1>6. ASSUME NEW i \in 1 .. N
      PROVE  /\ good(i) \in BOOLEAN
             /\ \E n \in 0 .. p[i].len :
                  shift(i) = Moves(d, from, p[i].pos .. p[i].pos + n - 1) /\ (good(i) => n = p[i].len)
             /\ good(i) <=> I(i) \subseteq L
  <2>1. Exact(once[p[i]], d, p[i].pos, p[i].len, L) /\ p[i].pos \in Nat /\ p[i].len \in {1, 2, 4}
    BY <1>2, <1>3
  <2>2. PICK n \in 0 .. p[i].len :
          once[p[i]].moved = Moves(d, p[i].pos, p[i].pos .. p[i].pos + n - 1) /\ (good(i) => n = p[i].len)
    BY <2>1 DEF Exact
  <2>3. shift(i) = Moves(d, from, p[i].pos .. p[i].pos + n - 1)
    <3>1. p[i].pos .. p[i].pos + n - 1 \in SUBSET Int
      BY <2>1
    <3>2. Shifted(Moves(d, p[i].pos, p[i].pos .. p[i].pos + n - 1), p[i].pos, from)
            = Moves(d, from, p[i].pos .. p[i].pos + n - 1)
      BY <1>1, <2>1, <3>1, MovesShift
    <3>3. QED
      BY <2>2, <3>2, Zenon
  <2>4. \E m \in 0 .. p[i].len :
          shift(i) = Moves(d, from, p[i].pos .. p[i].pos + m - 1) /\ (good(i) => m = p[i].len)
    BY <2>2, <2>3, Zenon
  <2>5. good(i) \in BOOLEAN /\ (good(i) <=> I(i) \subseteq L)
    <3>1. good(i) \in BOOLEAN /\ (p[i].len > 0 => (good(i) <=> I(i) \subseteq L))
      BY <2>1, Zenon DEF Exact
    <3>2. p[i].len > 0
      BY <2>1
    <3>3. QED
      BY <3>1, <3>2, Zenon
  <2>6. QED
    BY <2>4, <2>5, Zenon
<1>7. ASSUME NEW k \in 0 .. N, \A i \in 1 .. k : good(i)
      PROVE  UNION {shift(i) : i \in 1 .. k} = Moves(d, from, from .. Until(s, from, k) - 1)
  <2>1. ASSUME NEW i \in 1 .. k
        PROVE  shift(i) = Moves(d, from, I(i))
    <3>1. i \in 1 .. N /\ good(i)
      BY <1>2, <1>7
    <3>2. PICK n \in 0 .. p[i].len :
            shift(i) = Moves(d, from, p[i].pos .. p[i].pos + n - 1) /\ (good(i) => n = p[i].len)
      BY <1>6, <3>1, Zenon
    <3>3. QED
      BY <3>1, <3>2, Zenon
  <2>2. \A r \in Int : r \in from .. Until(s, from, k) - 1 <=> \E i \in 1 .. k : r \in I(i)
    <3>1. \A r \in Int : r \in from .. Until(s, from, k) - 1
                          <=> \E i \in 1 .. k : r \in s[i].pos .. s[i].pos + s[i].len - 1
      <4>1. k \in 0 .. Len(s) /\ Tiles(s, from, to)
        BY <1>2 DEF N
      <4> HIDE DEF shift, good, I
      <4>2. QED
        BY <1>1, <4>1, TilesPrefix
    <3>2. \A i \in 1 .. k : s[i].pos = p[i].pos /\ s[i].len = p[i].len
      BY <1>2
    <3>3. QED
      BY <3>1, <3>2
  <2> HIDE DEF shift
  <2>3. ASSUME NEW i \in 1 .. k, NEW m \in shift(i)
        PROVE  m \in Moves(d, from, from .. Until(s, from, k) - 1)
    <3>1. PICK r \in I(i) : m = [domain |-> d, reg |-> r, byte |-> r - from]
      BY <2>1, <2>3 DEF Moves
    <3>2. r \in from .. Until(s, from, k) - 1
      BY <1>2, <2>2, <3>1
    <3>3. QED
      BY <3>1, <3>2 DEF Moves
  <2>4. ASSUME NEW m \in Moves(d, from, from .. Until(s, from, k) - 1)
        PROVE  \E i \in 1 .. k : m \in shift(i)
    <3>1. PICK r \in from .. Until(s, from, k) - 1 : m = [domain |-> d, reg |-> r, byte |-> r - from]
      BY <2>4 DEF Moves
    <3>2. PICK i \in 1 .. k : r \in I(i)
      BY <2>2, <3>1
    <3>3. m \in Moves(d, from, I(i))
      BY <3>1, <3>2 DEF Moves
    <3>4. QED
      BY <2>1, <3>3
  <2>5. QED
    BY <2>3, <2>4
<1>8. \A k \in 1 .. N : s[k].pos = Until(s, from, k - 1)
  BY <1>1, <1>2, TilesNext DEF N
<1>9. Until(s, from, N) = to
  BY <1>1, <1>2, TilesNext DEF N
<1>10. CASE \A i \in 1 .. N : good(i)
  <2>1. made = 1 .. N
    BY <1>2, <1>5, <1>10
  <2>2. UNION {shift(i) : i \in made} = Moves(d, from, from .. from + rq.len - 1)
    <3>1. N \in 0 .. N /\ to - 1 = from + rq.len - 1
      BY <1>1, <1>2
    <3>2. QED
      BY <1>7, <1>9, <1>10, <2>1, <3>1
  <2>3. from .. from + rq.len - 1 \subseteq L
    <3>1. \A r \in Int : r \in from .. to - 1 <=> \E i \in 1 .. N : r \in s[i].pos .. s[i].pos + s[i].len - 1
      <4>1. N \in 0 .. Len(s) /\ Tiles(s, from, to)
        BY <1>2 DEF N
      <4> HIDE DEF shift, good, I
      <4>2. \A r \in Int : r \in from .. Until(s, from, N) - 1
                          <=> \E i \in 1 .. N : r \in s[i].pos .. s[i].pos + s[i].len - 1
        BY <1>1, <4>1, TilesPrefix
      <4>3. QED
        BY <1>9, <4>2
    <3>2. \A i \in 1 .. N : s[i].pos .. s[i].pos + s[i].len - 1 \subseteq L
      BY <1>2, <1>6, <1>10
    <3>3. QED
      BY <1>1, <3>1, <3>2
  <2> HIDE DEF shift, good
  <2>4. Split(rq, once) = [ok |-> TRUE, moved |-> Moves(d, from, from .. from + rq.len - 1)]
    BY <1>4, <1>10, <2>2
  <2>5. QED
    BY <1>1, <2>3, <2>4 DEF Exact, from
<1>11. CASE \E i \in 1 .. N : ~good(i)
  <2> DEFINE Bad == {i \in 1 .. N : ~good(i)}
  <2>1. PICK k \in Bad : \A i \in Bad : k <= i
    <3>1. Bad \subseteq Nat /\ Bad # {}
      BY <1>2, <1>11
    <3> HIDE DEF Bad
    <3>2. QED
      BY <3>1, LeastElement
  <2>2. k \in 1 .. N /\ ~good(k) /\ \A i \in 1 .. k - 1 : good(i)
    <3>1. \A i \in 1 .. k - 1 : i \notin Bad /\ i \in 1 .. N
      BY <1>2, <2>1
    <3>2. QED
      BY <2>1, <3>1, <1>6
  <2>3. made = (1 .. k - 1) \cup {k}
    BY <1>2, <1>5, <2>2
  <2>4. PICK n \in 0 .. p[k].len : shift(k) = Moves(d, from, p[k].pos .. p[k].pos + n - 1)
    BY <1>6, <2>2
  <2>5. p[k].pos = Until(s, from, k - 1) /\ p[k].pos \in Nat /\ p[k].len \in {1, 2, 4}
        /\ from <= p[k].pos /\ p[k].pos + p[k].len <= to
    BY <1>2, <1>8, <2>2
  <2>6. UNION {shift(i) : i \in 1 .. k - 1} = Moves(d, from, from .. p[k].pos - 1)
    <3>1. k - 1 \in 0 .. N
      BY <1>2, <2>2
    <3> HIDE DEF shift, good
    <3>2. QED
      BY <1>7, <2>2, <2>5, <3>1
  <2> DEFINE all == p[k].pos - from + n
  <2>7. UNION {shift(i) : i \in made} = (UNION {shift(i) : i \in 1 .. k - 1}) \cup shift(k)
    <3> HIDE DEF shift
    <3>1. \A m : m \in UNION {shift(i) : i \in made} <=> \E i \in made : m \in shift(i)
      OBVIOUS
    <3>2. \A m : m \in UNION {shift(i) : i \in 1 .. k - 1} <=> \E i \in 1 .. k - 1 : m \in shift(i)
      OBVIOUS
    <3>3. QED
      BY <2>3, <3>1, <3>2
  <2>8. UNION {shift(i) : i \in made} = Moves(d, from, from .. from + all - 1)
    <3>1. \A r \in Int : r \in from .. from + all - 1
                          <=> r \in from .. p[k].pos - 1 \/ r \in p[k].pos .. p[k].pos + n - 1
      BY <1>1, <2>5
    <3>2. Moves(d, from, from .. from + all - 1)
            = Moves(d, from, from .. p[k].pos - 1) \cup Moves(d, from, p[k].pos .. p[k].pos + n - 1)
      <4> DEFINE A == from .. from + all - 1
                 B == from .. p[k].pos - 1
                 C == p[k].pos .. p[k].pos + n - 1
      <4>1. A = B \cup C
        BY <1>1, <2>5, <3>1
      <4> HIDE DEF A, B, C
      <4>2. Moves(d, from, B \cup C) = Moves(d, from, B) \cup Moves(d, from, C)
        BY MovesUnion
      <4>3. Moves(d, from, A) = Moves(d, from, B) \cup Moves(d, from, C)
        BY <4>1, <4>2, Zenon
      <4>4. QED
        BY <4>3 DEF A, B, C
    <3> HIDE DEF shift, all
    <3>3. QED
      BY <2>4, <2>6, <2>7, <3>2, Zenon
  <2>9. all \in 0 .. rq.len
    BY <1>1, <2>5
  <2>10. rq.len > 0 /\ ~(from .. from + rq.len - 1 \subseteq L)
    <3>1. I(k) \subseteq from .. from + rq.len - 1
      BY <1>1, <2>5
    <3>2. ~(I(k) \subseteq L)
      BY <1>6, <2>2
    <3>3. QED
      BY <1>1, <2>5, <3>1, <3>2
  <2> HIDE DEF shift, good, all
  <2>11. Split(rq, once) = [ok |-> FALSE, moved |-> Moves(d, from, from .. from + all - 1)]
    BY <1>4, <1>11, <2>8
  <2>12. QED
    BY <1>1, <2>9, <2>10, <2>11 DEF Exact, from
<1>12. QED
  BY <1>6, <1>10, <1>11

\* All that an outcome moved is of the device in domain d.
Homed(res, d) == res.moved \subseteq [domain : {d}, reg : Int, byte : Int]

\* Of the device that was asked for: a buffer taken as it is,
LEMMA StraightHomed ==
  ASSUME NEW d, NEW rq \in Request
  PROVE  Homed(Done(Straight(d, rq)), d)
<1>1. rq.pos \in Nat /\ rq.len \in Nat
  BY DEF Request
<1>2. \A i \in 0 .. rq.len - 1 : [domain |-> d, reg |-> rq.pos + i, byte |-> i] \in [domain : {d}, reg : Int, byte : Int]
  BY <1>1
<1>3. QED
  BY <1>2 DEF Homed, Done, Straight

\* one taken by lanes,
LEMMA LanesHomed ==
  ASSUME NEW d, NEW rq \in Request, NEW o \in Int
  PROVE  Homed(Done(Lanes(d, rq, o)), d)
<1>1. rq.pos \in Nat /\ rq.len \in Nat /\ rq.pos % 4 \in Int
  BY DEF Request
<1>2. \A i \in 0 .. rq.len - 1 :
        [domain |-> d, reg |-> rq.pos - (rq.pos % 4) + o + i, byte |-> i] \in [domain : {d}, reg : Int, byte : Int]
  BY <1>1
<1>3. QED
  BY <1>2 DEF Homed, Done, Lanes

\* one transferred up to the end of the registers,
LEMMA UpToHomed ==
  ASSUME NEW d, NEW rq \in Request
  PROVE  Homed(UpTo(d, rq), d)
  BY StraightHomed DEF Homed, Done, UpTo

\* nothing at all,
LEMMA RefusedHomed ==
  ASSUME NEW d
  PROVE  Homed(Refused, d)
  BY DEF Homed, Refused

\* and a block whose pieces are.
LEMMA SplitHomed ==
  ASSUME NEW rq \in Request, NEW once, NEW d,
         \A i \in DOMAIN Pieces(rq) : Homed(once[Pieces(rq)[i]], d)
  PROVE  Homed(Split(rq, once), d)
<1> DEFINE p == Pieces(rq)
<1>1. \A i \in DOMAIN p : p[i].pos \in Int /\ rq.pos \in Int
  BY PiecesFit DEF IsPiece, Request
<1> HIDE DEF p
<1>2. ASSUME NEW i \in DOMAIN p, NEW m \in once[p[i]].moved
      PROVE  [m EXCEPT !.byte = @ + p[i].pos - rq.pos] \in [domain : {d}, reg : Int, byte : Int]
  <2>1. m \in [domain : {d}, reg : Int, byte : Int]
    BY <1>2 DEF Homed, p
  <2>2. QED
    BY <1>1, <2>1
<1>3. ASSUME NEW x \in Split(rq, once).moved
      PROVE  x \in [domain : {d}, reg : Int, byte : Int]
  <2>1. PICK i \in DOMAIN p : x \in {[m EXCEPT !.byte = @ + p[i].pos - rq.pos] : m \in once[p[i]].moved}
    BY <1>3 DEF Split, p
  <2>2. QED
    BY <1>2, <2>1
<1>4. QED
  BY <1>3 DEF Homed

\* The registers a method can transfer, whatever the request begins with.
Reached(b, rq) ==
  LET low(top) == 0 .. top - 1
      home     == rq.domain = 0
  IN  CASE b = "proc"    -> IF rq.op = "write" /\ ~rq.rw THEN {} ELSE low(rq.size)
        [] b = "dump"    -> IF rq.op = "write" THEN {} ELSE low(rq.size)
        [] b = "conf1"   -> IF home THEN low(256) ELSE {}
        [] b = "conf2"   -> IF home /\ rq.dev < 16 THEN low(256) ELSE {}
        [] b = "fbsd"    -> IF rq.rw THEN low(4096) ELSE {}
        [] b = "obsd"    -> IF home THEN low(256) ELSE {}
        [] b = "nbsd"    -> IF home THEN low(IF rq.op = "read" THEN 4096 ELSE 256) ELSE {}
        [] b = "aix"     -> IF home THEN low(256) ELSE {}
        [] b = "darwin"  -> Nat
        [] b = "hurd"    -> low(rq.size)
        [] b = "sylixos" -> low(256)

\* The domain whose device a method reaches.
Home(b, rq) == IF b = "sylixos" \/ (b = "proc" /\ rq.twin) THEN 0 ELSE rq.domain

\* A method does what it should.
Right(b, rq) ==
  /\ Homed(Transfer(b, rq), Home(b, rq))
  /\ Proper(rq) => Exact(Transfer(b, rq), Home(b, rq), rq.pos, rq.len, Reached(b, rq))

\* A method with a limit.
Limited(d, r, top) == IF r.pos >= top THEN Refused ELSE Done(Straight(d, r))

\* An access that a method with a limit does below it and refuses above.
LEMMA LimitExact ==
  ASSUME NEW rq \in Request, NEW r, IsPiece(r, rq), NEW d, NEW top \in {256, 4096}
  PROVE  Exact(Limited(d, r, top), d, r.pos, r.len, 0 .. top - 1)
<1>1. r \in Request /\ r.pos \in Nat /\ r.len \in {1, 2, 4} /\ r.len \in Nat /\ r.pos % r.len = 0
  BY DEF IsPiece, Request
<1>2. r.pos < top => r.pos + r.len <= top
  BY <1>1, LimitsCut
<1>3. CASE r.pos >= top
  <2>1. r.pos \notin 0 .. top - 1
    BY <1>1, <1>3
  <2>2. QED
    BY <1>1, <1>3, <2>1, RefusedExact DEF Limited
<1>4. CASE ~(r.pos >= top)
  <2>1. r.pos .. r.pos + r.len - 1 \subseteq 0 .. top - 1
    BY <1>1, <1>2, <1>4
  <2>2. ASSUME NEW L, r.pos .. r.pos + r.len - 1 \subseteq L
        PROVE  Exact(Done(Straight(d, r)), d, r.pos, r.len, L)
    <3>1. r \in Request
      BY <1>1
    <3>2. QED
      BY <2>2, <3>1, DoneExact
  <2>3. QED
    BY <1>4, <2>1, <2>2 DEF Limited
<1>5. QED
  BY <1>3, <1>4

\* A method that splits what it cannot do at once.
LEMMA ByPieces ==
  ASSUME NEW rq \in Request, NEW once, NEW d, NEW L,
         \A r \in Accesses(rq) : IsPiece(r, rq) => Exact(once[r], d, r.pos, r.len, L)
  PROVE  /\ Exact(Split(rq, once), d, rq.pos, rq.len, L)
         /\ Single(rq) /\ Proper(rq) => Exact(once[rq], d, rq.pos, rq.len, L)
<1>1. \A i \in DOMAIN Pieces(rq) : IsPiece(Pieces(rq)[i], rq) /\ Pieces(rq)[i] \in Accesses(rq)
  BY PiecesFit
<1>2. Exact(Split(rq, once), d, rq.pos, rq.len, L)
  BY <1>1, SplitExact
<1>3. Single(rq) /\ Proper(rq) => IsPiece(rq, rq) /\ rq \in Accesses(rq)
  BY DEF Single, Proper, IsPiece, Accesses
<1>4. QED
  BY <1>2, <1>3

\* A method that keeps to a device keeps to it with blocks.
LEMMA PiecesHomed ==
  ASSUME NEW rq \in Request, NEW once, NEW d,
         \A r \in Accesses(rq) : r \in Request /\ r.domain = rq.domain => Homed(once[r], d)
  PROVE  Homed(Split(rq, once), d) /\ Homed(once[rq], d)
<1>1. \A i \in DOMAIN Pieces(rq) :
        Pieces(rq)[i] \in Request /\ Pieces(rq)[i].domain = rq.domain /\ Pieces(rq)[i] \in Accesses(rq)
  BY PiecesFit DEF IsPiece
<1>2. rq \in Accesses(rq)
  BY DEF Accesses
<1>3. QED
  BY <1>1, <1>2, SplitHomed

\* proc_read and proc_write: blocks of any length, up to the end of the registers.
LEMMA ProcRight ==
  ASSUME NEW rq \in Request
  PROVE  Right("proc", rq)
<1> DEFINE d == IF rq.twin THEN 0 ELSE rq.domain
<1>1. Home("proc", rq) = d
  BY DEF Home, Request
<1>2. rq.pos \in Nat /\ rq.len \in Nat
  BY DEF Request
<1>3. CASE rq.op = "write" /\ ~rq.rw
  <2>1. Transfer("proc", rq) = Refused /\ Reached("proc", rq) = {}
    BY <1>3 DEF Transfer, Proc, Reached
  <2>2. Exact(Refused, d, rq.pos, rq.len, {}) /\ Homed(Refused, d)
    BY <1>2, RefusedExact, RefusedHomed
  <2>3. QED
    BY <1>1, <2>1, <2>2 DEF Right
<1>4. CASE ~(rq.op = "write" /\ ~rq.rw)
  <2>1. Transfer("proc", rq) = UpTo(d, rq) /\ Reached("proc", rq) = 0 .. rq.size - 1
    BY <1>4 DEF Transfer, Proc, Reached
  <2>2. Exact(UpTo(d, rq), d, rq.pos, rq.len, 0 .. rq.size - 1) /\ Homed(UpTo(d, rq), d)
    BY UpToExact, UpToHomed
  <2>3. QED
    BY <1>1, <2>1, <2>2 DEF Right
<1>5. QED
  BY <1>3, <1>4

\* dump_read, and dump_write, which refuses.
LEMMA DumpRight ==
  ASSUME NEW rq \in Request
  PROVE  Right("dump", rq)
<1> DEFINE d == rq.domain
<1>1. Home("dump", rq) = d
  BY DEF Home
<1>2. rq.pos \in Nat /\ rq.len \in Nat /\ rq.size \in Nat
  BY DEF Request
<1>3. CASE rq.op = "write" \/ rq.pos + rq.len > rq.size
  <2>1. Transfer("dump", rq) = Refused
    BY <1>3 DEF Transfer, Dump
  <2>2. rq.len > 0 => ~(rq.pos .. rq.pos + rq.len - 1 \subseteq Reached("dump", rq))
    <3>1. SUFFICES ASSUME rq.len > 0
                   PROVE  rq.pos + rq.len - 1 \notin Reached("dump", rq)
      BY <1>2
    <3>2. QED
      BY <1>2, <1>3 DEF Reached
  <2>3. Exact(Refused, d, rq.pos, rq.len, Reached("dump", rq)) /\ Homed(Refused, d)
    <3>1. 0 \in 0 .. rq.len /\ rq.pos .. rq.pos + 0 - 1 = {}
      BY <1>2
    <3>2. Moves(d, rq.pos, rq.pos .. rq.pos + 0 - 1) = {}
      BY <3>1 DEF Moves
    <3>3. QED
      BY <2>2, <3>1, <3>2, RefusedHomed DEF Exact, Refused
  <2>4. QED
    BY <1>1, <2>1, <2>3 DEF Right
<1>4. CASE ~(rq.op = "write" \/ rq.pos + rq.len > rq.size)
  <2>1. Transfer("dump", rq) = Done(Straight(d, rq))
    BY <1>4 DEF Transfer, Dump
  <2>2. rq.pos .. rq.pos + rq.len - 1 \subseteq Reached("dump", rq)
    <3>1. Reached("dump", rq) = 0 .. rq.size - 1
      BY <1>4 DEF Reached
    <3>2. QED
      BY <1>2, <1>4, <3>1
  <2>3. Exact(Done(Straight(d, rq)), d, rq.pos, rq.len, Reached("dump", rq)) /\ Homed(Done(Straight(d, rq)), d)
    BY <2>2, DoneExact, StraightHomed
  <2>4. QED
    BY <1>1, <2>1, <2>3 DEF Right
<1>5. QED
  BY <1>3, <1>4

\* aix_read and aix_write: blocks of any length inside 256 registers.
LEMMA AixRight ==
  ASSUME NEW rq \in Request
  PROVE  Right("aix", rq)
<1> DEFINE d == rq.domain
<1>1. Home("aix", rq) = d
  BY DEF Home
<1>2. rq.pos \in Nat /\ rq.len \in Nat
  BY DEF Request
<1>3. CASE rq.domain # 0 \/ rq.pos + rq.len > 256
  <2>1. Transfer("aix", rq) = Refused
    BY <1>3 DEF Transfer, Aix
  <2>2. rq.len > 0 => ~(rq.pos .. rq.pos + rq.len - 1 \subseteq Reached("aix", rq))
    <3>1. SUFFICES ASSUME rq.len > 0
                   PROVE  rq.pos + rq.len - 1 \notin Reached("aix", rq)
      BY <1>2
    <3>2. QED
      BY <1>2, <1>3 DEF Reached
  <2>3. Exact(Refused, d, rq.pos, rq.len, Reached("aix", rq)) /\ Homed(Refused, d)
    <3>1. 0 \in 0 .. rq.len /\ rq.pos .. rq.pos + 0 - 1 = {}
      BY <1>2
    <3>2. Moves(d, rq.pos, rq.pos .. rq.pos + 0 - 1) = {}
      BY <3>1 DEF Moves
    <3>3. QED
      BY <2>2, <3>1, <3>2, RefusedHomed DEF Exact, Refused
  <2>4. QED
    BY <1>1, <2>1, <2>3 DEF Right
<1>4. CASE ~(rq.domain # 0 \/ rq.pos + rq.len > 256)
  <2>1. Transfer("aix", rq) = Done(Straight(d, rq))
    BY <1>4 DEF Transfer, Aix
  <2>2. rq.pos .. rq.pos + rq.len - 1 \subseteq Reached("aix", rq)
    <3>1. Reached("aix", rq) = 0 .. 255
      BY <1>4 DEF Reached
    <3>2. QED
      BY <1>2, <1>4, <3>1
  <2>3. Exact(Done(Straight(d, rq)), d, rq.pos, rq.len, Reached("aix", rq)) /\ Homed(Done(Straight(d, rq)), d)
    BY <2>2, DoneExact, StraightHomed
  <2>4. QED
    BY <1>1, <2>1, <2>3 DEF Right
<1>5. QED
  BY <1>3, <1>4

\* conf1_read and conf1_write: pieces below register 256, by lanes.
LEMMA Conf1Right ==
  ASSUME NEW rq \in Request
  PROVE  Right("conf1", rq)
<1> DEFINE Once == [r \in Accesses(rq) |->
                      IF r.domain # 0 \/ r.pos >= 256 THEN Refused ELSE Done(Lanes(0, r, r.pos % 4))]
           d == rq.domain
           L == Reached("conf1", rq)
<1>1. Home("conf1", rq) = d
  BY DEF Home
<1>2. Transfer("conf1", rq) = IF Single(rq) \/ ~Once[rq].ok THEN Once[rq] ELSE Split(rq, Once)
  BY DEF Transfer, Conf1
<1>3. ASSUME NEW r \in Accesses(rq), IsPiece(r, rq)
      PROVE  Exact(Once[r], d, r.pos, r.len, L)
  <2>1. r \in Request /\ r.domain = d /\ r.pos \in Nat /\ r.len \in Nat
    BY <1>3 DEF IsPiece, Request
  <2>2. CASE d # 0
    <3>1. Once[r] = Refused /\ L = {}
      BY <2>1, <2>2 DEF Reached
    <3>2. QED
      BY <2>1, <3>1, RefusedExact
  <2>3. CASE d = 0
    <3>1. Lanes(0, r, r.pos % 4) = Straight(d, r)
      BY <1>3, <2>1, <2>3, LanesStraight DEF IsPiece
    <3>2. Once[r] = Limited(d, r, 256)
      BY <2>1, <2>3, <3>1 DEF Limited
    <3>3. L = 0 .. 256 - 1
      BY <2>3 DEF Reached
    <3>4. Exact(Limited(d, r, 256), d, r.pos, r.len, 0 .. 256 - 1)
      BY <1>3, LimitExact
    <3> HIDE DEF L, Once
    <3>5. QED
      BY <3>2, <3>3, <3>4
  <2>4. QED
    BY <2>2, <2>3
<1>4. ASSUME NEW r \in Accesses(rq), r \in Request, r.domain = rq.domain
      PROVE  Homed(Once[r], d)
  <2>1. r.pos % 4 \in Int
    BY <1>4 DEF Request
  <2>2. Homed(Done(Lanes(0, r, r.pos % 4)), 0) /\ Homed(Refused, d)
    BY <1>4, <2>1, LanesHomed, RefusedHomed
  <2>3. QED
    BY <1>4, <2>2
<1>5. ~Once[rq].ok => Exact(Once[rq], d, rq.pos, rq.len, L)
  <2>1. rq \in Accesses(rq) /\ rq.pos \in Nat /\ rq.len \in Nat
    BY DEF Accesses, Request
  <2>2. SUFFICES ASSUME ~Once[rq].ok PROVE Exact(Once[rq], d, rq.pos, rq.len, L)
    OBVIOUS
  <2>3. Once[rq] = Refused /\ (rq.domain # 0 \/ rq.pos >= 256)
    BY <2>1, <2>2 DEF Done
  <2>4. rq.pos \notin L
    BY <2>1, <2>3 DEF Reached
  <2> HIDE DEF Once, L
  <2>5. QED
    BY <2>1, <2>3, <2>4, RefusedExact
<1> HIDE DEF Once, d, L
<1>6. /\ Exact(Split(rq, Once), d, rq.pos, rq.len, L)
      /\ Single(rq) /\ Proper(rq) => Exact(Once[rq], d, rq.pos, rq.len, L)
  BY <1>3, ByPieces
<1>7. Homed(Split(rq, Once), d) /\ Homed(Once[rq], d)
  BY <1>4, PiecesHomed
<1>8. QED
  BY <1>1, <1>2, <1>5, <1>6, <1>7 DEF Right, L

\* conf2_read and conf2_write: the same, of 16 devices.
LEMMA Conf2Right ==
  ASSUME NEW rq \in Request
  PROVE  Right("conf2", rq)
<1> DEFINE Once == [r \in Accesses(rq) |->
                      IF r.domain # 0 \/ r.pos >= 256 \/ r.dev >= 16 THEN Refused ELSE Done(Straight(0, r))]
           d == rq.domain
           L == Reached("conf2", rq)
<1>1. Home("conf2", rq) = d
  BY DEF Home
<1>2. Transfer("conf2", rq) = IF Single(rq) \/ ~Once[rq].ok THEN Once[rq] ELSE Split(rq, Once)
  BY DEF Transfer, Conf2
<1>3. ASSUME NEW r \in Accesses(rq), IsPiece(r, rq)
      PROVE  Exact(Once[r], d, r.pos, r.len, L)
  <2>1. r \in Request /\ r.domain = d /\ r.dev = rq.dev /\ r.pos \in Nat /\ r.len \in Nat /\ r.dev \in Nat
    BY <1>3 DEF IsPiece, Request
  <2>2. CASE d # 0 \/ rq.dev >= 16
    <3>1. Once[r] = Refused
      BY <2>1, <2>2
    <3>2. r.pos \notin L
      BY <2>1, <2>2 DEF Reached
    <3> HIDE DEF Once, L
    <3>3. QED
      BY <2>1, <3>1, <3>2, RefusedExact
  <2>3. CASE d = 0 /\ ~(rq.dev >= 16)
    <3>1. Once[r] = Limited(d, r, 256)
      BY <2>1, <2>3 DEF Limited
    <3>2. L = 0 .. 256 - 1
      BY <2>1, <2>3 DEF Reached
    <3>3. Exact(Limited(d, r, 256), d, r.pos, r.len, 0 .. 256 - 1)
      BY <1>3, LimitExact
    <3> HIDE DEF L, Once
    <3>4. QED
      BY <3>1, <3>2, <3>3
  <2>4. QED
    BY <2>2, <2>3
<1>4. ASSUME NEW r \in Accesses(rq), r \in Request, r.domain = rq.domain
      PROVE  Homed(Once[r], d)
  <2>1. Homed(Done(Straight(0, r)), 0) /\ Homed(Refused, d)
    BY <1>4, StraightHomed, RefusedHomed
  <2>2. QED
    BY <1>4, <2>1
<1>5. ~Once[rq].ok => Exact(Once[rq], d, rq.pos, rq.len, L)
  <2>1. rq \in Accesses(rq) /\ rq.pos \in Nat /\ rq.len \in Nat /\ rq.dev \in Nat
    BY DEF Accesses, Request
  <2>2. SUFFICES ASSUME ~Once[rq].ok PROVE Exact(Once[rq], d, rq.pos, rq.len, L)
    OBVIOUS
  <2>3. Once[rq] = Refused /\ (rq.domain # 0 \/ rq.pos >= 256 \/ rq.dev >= 16)
    BY <2>1, <2>2 DEF Done
  <2>4. rq.pos \notin L
    BY <2>1, <2>3 DEF Reached
  <2> HIDE DEF Once, L
  <2>5. QED
    BY <2>1, <2>3, <2>4, RefusedExact
<1> HIDE DEF Once, d, L
<1>6. /\ Exact(Split(rq, Once), d, rq.pos, rq.len, L)
      /\ Single(rq) /\ Proper(rq) => Exact(Once[rq], d, rq.pos, rq.len, L)
  BY <1>3, ByPieces
<1>7. Homed(Split(rq, Once), d) /\ Homed(Once[rq], d)
  BY <1>4, PiecesHomed
<1>8. QED
  BY <1>1, <1>2, <1>5, <1>6, <1>7 DEF Right, L

\* fbsd_read and fbsd_write: pieces below register 4096.
LEMMA FbsdRight ==
  ASSUME NEW rq \in Request
  PROVE  Right("fbsd", rq)
<1> DEFINE Once == [r \in Accesses(rq) |-> IF r.pos >= 4096 THEN Refused ELSE Done(Straight(r.domain, r))]
           d == rq.domain
           L == Reached("fbsd", rq)
<1>1. Home("fbsd", rq) = d /\ rq.pos \in Nat /\ rq.len \in Nat /\ rq.rw \in BOOLEAN
  BY DEF Home, Request
<1>2. CASE ~rq.rw
  <2>1. Transfer("fbsd", rq) = Refused /\ L = {}
    BY <1>2 DEF Transfer, Fbsd, Reached
  <2>2. Exact(Refused, d, rq.pos, rq.len, {}) /\ Homed(Refused, d)
    BY <1>1, RefusedExact, RefusedHomed
  <2>3. QED
    BY <1>1, <2>1, <2>2 DEF Right
<1>3. CASE rq.rw
  <2>1. Transfer("fbsd", rq) = IF Single(rq) THEN Once[rq] ELSE Split(rq, Once)
    BY <1>3 DEF Transfer, Fbsd, Single
  <2>2. ASSUME NEW r \in Accesses(rq), IsPiece(r, rq)
        PROVE  Exact(Once[r], d, r.pos, r.len, L)
    <3>1. r.domain = d
      BY <2>2 DEF IsPiece
    <3>2. Once[r] = Limited(d, r, 4096)
      BY <3>1 DEF Limited
    <3>3. L = 0 .. 4096 - 1
      BY <1>3 DEF Reached
    <3>4. Exact(Limited(d, r, 4096), d, r.pos, r.len, 0 .. 4096 - 1)
      BY <2>2, LimitExact
    <3> HIDE DEF L, Once
    <3>5. QED
      BY <3>2, <3>3, <3>4
  <2>3. ASSUME NEW r \in Accesses(rq), r \in Request, r.domain = rq.domain
        PROVE  Homed(Once[r], d)
    <3>1. Homed(Done(Straight(d, r)), d) /\ Homed(Refused, d)
      BY <2>3, StraightHomed, RefusedHomed
    <3>2. QED
      BY <2>3, <3>1
  <2> HIDE DEF Once, d, L
  <2>4. /\ Exact(Split(rq, Once), d, rq.pos, rq.len, L)
        /\ Single(rq) /\ Proper(rq) => Exact(Once[rq], d, rq.pos, rq.len, L)
    BY <2>2, ByPieces
  <2>5. Homed(Split(rq, Once), d) /\ Homed(Once[rq], d)
    BY <2>3, PiecesHomed
  <2>6. QED
    BY <1>1, <2>1, <2>4, <2>5 DEF Right, L
<1>4. QED
  BY <1>1, <1>2, <1>3

\* obsd_read, by lanes, and obsd_write: pieces below register 256.
LEMMA ObsdRight ==
  ASSUME NEW rq \in Request
  PROVE  Right("obsd", rq)
<1> DEFINE From(r) == CASE r.len = 1 -> r.pos % 4
                         [] r.len = 2 -> 2 * ((r.pos % 4) \div 2)
                         [] OTHER -> 0
           Once == [r \in Accesses(rq) |->
                      IF r.domain # 0 \/ r.pos >= 256 THEN Refused
                      ELSE Done(IF r.op = "read" THEN Lanes(0, r, From(r)) ELSE Straight(0, r))]
           d == rq.domain
           L == Reached("obsd", rq)
<1>1. Home("obsd", rq) = d
  BY DEF Home
<1>2. Transfer("obsd", rq) = IF Single(rq) THEN Once[rq] ELSE Split(rq, Once)
  BY DEF Transfer, Obsd
<1>3. ASSUME NEW r \in Accesses(rq), IsPiece(r, rq)
      PROVE  Exact(Once[r], d, r.pos, r.len, L)
  <2>1. r \in Request /\ r.domain = d /\ r.pos \in Nat /\ r.len \in Nat
    BY <1>3 DEF IsPiece, Request
  <2>2. CASE d # 0
    <3>1. Once[r] = Refused /\ L = {}
      BY <2>1, <2>2 DEF Reached
    <3>2. QED
      BY <2>1, <3>1, RefusedExact
  <2>3. CASE d = 0
    <3>1. From(r) = r.pos % 4
      <4>1. r.len \in {1, 2, 4} /\ r.pos % r.len = 0
        BY <1>3 DEF IsPiece
      <4>2. CASE r.len = 1
        BY <4>2
      <4>3. CASE r.len = 2
        <5>1. r.pos % 2 = 0
          BY <4>1, <4>3
        <5>2. 2 * ((r.pos % 4) \div 2) = r.pos % 4
          BY <2>1, <5>1
        <5>3. QED
          BY <4>3, <5>2
      <4>4. CASE r.len = 4
        BY <4>1, <4>4
      <4>5. QED
        BY <4>1, <4>2, <4>3, <4>4
    <3>2. Lanes(0, r, r.pos % 4) = Straight(d, r)
      BY <1>3, <2>1, <2>3, LanesStraight DEF IsPiece
    <3>3. Once[r] = Limited(d, r, 256)
      <4> HIDE DEF From
      <4>1. QED
        BY <2>1, <2>3, <3>1, <3>2 DEF Limited
    <3>4. L = 0 .. 256 - 1
      BY <2>3 DEF Reached
    <3>5. Exact(Limited(d, r, 256), d, r.pos, r.len, 0 .. 256 - 1)
      BY <1>3, LimitExact
    <3> HIDE DEF L, Once
    <3>6. QED
      BY <3>3, <3>4, <3>5
  <2>4. QED
    BY <2>2, <2>3
<1>4. ASSUME NEW r \in Accesses(rq), r \in Request, r.domain = rq.domain
      PROVE  Homed(Once[r], d)
  <2>1. From(r) \in Int
    <3>1. r.pos \in Nat /\ r.pos % 4 \in Int
      BY <1>4 DEF Request
    <3>2. QED
      BY <3>1
  <2> HIDE DEF From
  <2>2. Homed(Done(Lanes(0, r, From(r))), 0) /\ Homed(Done(Straight(0, r)), 0) /\ Homed(Refused, d)
    BY <1>4, <2>1, LanesHomed, StraightHomed, RefusedHomed
  <2>3. QED
    BY <1>4, <2>2
<1> HIDE DEF Once, d, L
<1>5. /\ Exact(Split(rq, Once), d, rq.pos, rq.len, L)
      /\ Single(rq) /\ Proper(rq) => Exact(Once[rq], d, rq.pos, rq.len, L)
  BY <1>3, ByPieces
<1>6. Homed(Split(rq, Once), d) /\ Homed(Once[rq], d)
  BY <1>4, PiecesHomed
<1>7. QED
  BY <1>1, <1>2, <1>5, <1>6 DEF Right, L

\* nbsd_read and nbsd_write: pieces by lanes; the writes end before the reads.
LEMMA NbsdRight ==
  ASSUME NEW rq \in Request
  PROVE  Right("nbsd", rq)
<1> DEFINE top == IF rq.op = "read" THEN 4096 ELSE 256
           Once == [r \in Accesses(rq) |->
                      IF r.domain # 0 \/ r.pos >= (IF r.op = "read" THEN 4096 ELSE 256) THEN Refused
                      ELSE Done(Lanes(0, r, IF r.len = 4 THEN 0 ELSE r.pos % 4))]
           d == rq.domain
           L == Reached("nbsd", rq)
<1>1. Home("nbsd", rq) = d
  BY DEF Home
<1>2. Transfer("nbsd", rq) = IF Single(rq) THEN Once[rq] ELSE Split(rq, Once)
  BY DEF Transfer, Nbsd
<1>3. ASSUME NEW r \in Accesses(rq), IsPiece(r, rq)
      PROVE  Exact(Once[r], d, r.pos, r.len, L)
  <2>1. r \in Request /\ r.domain = d /\ r.op = rq.op /\ r.pos \in Nat /\ r.len \in Nat
    BY <1>3 DEF IsPiece, Request
  <2>2. CASE d # 0
    <3>1. Once[r] = Refused /\ L = {}
      BY <2>1, <2>2 DEF Reached
    <3>2. QED
      BY <2>1, <3>1, RefusedExact
  <2>3. CASE d = 0
    <3>1. (IF r.len = 4 THEN 0 ELSE r.pos % 4) = r.pos % 4
      BY <1>3 DEF IsPiece
    <3>2. Lanes(0, r, r.pos % 4) = Straight(d, r)
      BY <1>3, <2>1, <2>3, LanesStraight DEF IsPiece
    <3>3. Once[r] = Limited(d, r, top)
      <4> DEFINE o == IF r.len = 4 THEN 0 ELSE r.pos % 4
      <4>1. Once[r] = IF r.pos >= top THEN Refused ELSE Done(Lanes(0, r, o))
        BY <2>1, <2>3
      <4>2. o = r.pos % 4
        BY <3>1
      <4> HIDE DEF o, Once, top
      <4>3. QED
        BY <2>3, <3>2, <4>1, <4>2 DEF Limited
    <3>4. L = 0 .. top - 1
      BY <2>3 DEF Reached
    <3>5. PICK n \in {256, 4096} : n = top
      OBVIOUS
    <3>6. Exact(Limited(d, r, n), d, r.pos, r.len, 0 .. n - 1)
      <4>1. CASE n = 256
        <5>1. Exact(Limited(d, r, 256), d, r.pos, r.len, 0 .. 256 - 1)
          BY <1>3, LimitExact
        <5> HIDE DEF d, top
        <5>2. QED
          BY <4>1, <5>1
      <4>2. CASE n = 4096
        <5>1. Exact(Limited(d, r, 4096), d, r.pos, r.len, 0 .. 4096 - 1)
          BY <1>3, LimitExact
        <5> HIDE DEF d, top
        <5>2. QED
          BY <4>2, <5>1
      <4>3. QED
        BY <4>1, <4>2
    <3>7. Once[r] = Limited(d, r, n) /\ L = 0 .. n - 1
      <4> HIDE DEF L, Once, d, top
      <4>1. QED
        BY <3>3, <3>4, <3>5
    <3> HIDE DEF L, Once, d, top
    <3>8. QED
      BY <3>6, <3>7
  <2>4. QED
    BY <2>2, <2>3
<1>4. ASSUME NEW r \in Accesses(rq), r \in Request, r.domain = rq.domain
      PROVE  Homed(Once[r], d)
  <2> DEFINE o == IF r.len = 4 THEN 0 ELSE r.pos % 4
  <2>1. o \in Int
    BY <1>4 DEF Request
  <2>2. Once[r] = IF r.domain # 0 \/ r.pos >= (IF r.op = "read" THEN 4096 ELSE 256) THEN Refused ELSE Done(Lanes(0, r, o))
    OBVIOUS
  <2> HIDE DEF o, Once
  <2>3. Homed(Done(Lanes(0, r, o)), 0) /\ Homed(Refused, d)
    BY <1>4, <2>1, LanesHomed, RefusedHomed
  <2>4. QED
    BY <1>4, <2>2, <2>3
<1> HIDE DEF Once, d, L
<1>5. /\ Exact(Split(rq, Once), d, rq.pos, rq.len, L)
      /\ Single(rq) /\ Proper(rq) => Exact(Once[rq], d, rq.pos, rq.len, L)
  BY <1>3, ByPieces
<1>6. Homed(Split(rq, Once), d) /\ Homed(Once[rq], d)
  BY <1>4, PiecesHomed
<1>7. QED
  BY <1>1, <1>2, <1>5, <1>6 DEF Right, L

\* darwin_read and darwin_write: pieces anywhere.
LEMMA DarwinRight ==
  ASSUME NEW rq \in Request
  PROVE  Right("darwin", rq)
<1> DEFINE Once == [r \in Accesses(rq) |->
                      Done(Straight(r.domain, r))]
           d == rq.domain
           L == Reached("darwin", rq)
<1>1. Home("darwin", rq) = d
  BY DEF Home
<1>2. Transfer("darwin", rq) = IF Single(rq) THEN Once[rq] ELSE Split(rq, Once)
  BY DEF Transfer, Darwin
<1>3. ASSUME NEW r \in Accesses(rq), IsPiece(r, rq)
      PROVE  Exact(Once[r], d, r.pos, r.len, L)
  <2>1. r \in Request /\ r.domain = d /\ r.pos \in Nat /\ r.len \in Nat
    BY <1>3 DEF IsPiece, Request
  <2>2. Once[r] = Done(Straight(d, r)) /\ r \in Request
    BY <2>1
  <2>3. r.pos .. r.pos + r.len - 1 \subseteq L
    BY <2>1 DEF Reached
  <2> HIDE DEF Once, L, d
  <2>4. QED
    BY <2>2, <2>3, DoneExact
<1>4. ASSUME NEW r \in Accesses(rq), r \in Request, r.domain = rq.domain
      PROVE  Homed(Once[r], d)
  BY <1>4, StraightHomed
<1> HIDE DEF Once, d, L
<1>5. /\ Exact(Split(rq, Once), d, rq.pos, rq.len, L)
      /\ Single(rq) /\ Proper(rq) => Exact(Once[rq], d, rq.pos, rq.len, L)
  BY <1>3, ByPieces
<1>6. Homed(Split(rq, Once), d) /\ Homed(Once[rq], d)
  BY <1>4, PiecesHomed
<1>7. QED
  BY <1>1, <1>2, <1>5, <1>6 DEF Right, L

\* hurd_read and hurd_write: pieces up to the end of the registers.
LEMMA HurdRight ==
  ASSUME NEW rq \in Request
  PROVE  Right("hurd", rq)
<1> DEFINE Once == [r \in Accesses(rq) |->
                      UpTo(r.domain, r)]
           d == rq.domain
           L == Reached("hurd", rq)
<1>1. Home("hurd", rq) = d
  BY DEF Home
<1>2. Transfer("hurd", rq) = IF rq.len <= 4 THEN Once[rq] ELSE Split(rq, Once)
  BY DEF Transfer, Hurd
<1>3. ASSUME NEW r \in Accesses(rq), IsPiece(r, rq)
      PROVE  Exact(Once[r], d, r.pos, r.len, L)
  <2>1. r \in Request /\ Once[r] = UpTo(d, r) /\ L = 0 .. r.size - 1
    BY <1>3 DEF IsPiece, Reached
  <2> HIDE DEF Once, L, d
  <2>2. QED
    BY <2>1, UpToExact
<1>4. ASSUME NEW r \in Accesses(rq), r \in Request, r.domain = rq.domain
      PROVE  Homed(Once[r], d)
  BY <1>4, UpToHomed
<1>5. Exact(Once[rq], d, rq.pos, rq.len, L)
  <2>1. Once[rq] = UpTo(d, rq) /\ L = 0 .. rq.size - 1
    BY DEF Accesses, Reached
  <2> HIDE DEF Once, L, d
  <2>2. QED
    BY <2>1, UpToExact
<1> HIDE DEF Once, d, L
<1>6. /\ Exact(Split(rq, Once), d, rq.pos, rq.len, L)
      /\ Single(rq) /\ Proper(rq) => Exact(Once[rq], d, rq.pos, rq.len, L)
  BY <1>3, ByPieces
<1>7. Homed(Split(rq, Once), d) /\ Homed(Once[rq], d)
  BY <1>4, PiecesHomed
<1>8. QED
  BY <1>1, <1>2, <1>5, <1>6, <1>7 DEF Right, L

\* sylixos_read and sylixos_write: pieces below register 256, in domain 0.
LEMMA SylixosRight ==
  ASSUME NEW rq \in Request
  PROVE  Right("sylixos", rq)
<1> DEFINE Once == [r \in Accesses(rq) |->
                      IF r.pos >= 256 THEN Refused ELSE Done(Straight(0, r))]
           d == 0
           L == Reached("sylixos", rq)
<1>1. Home("sylixos", rq) = d
  BY DEF Home
<1>2. Transfer("sylixos", rq) = IF Single(rq) THEN Once[rq] ELSE Split(rq, Once)
  BY DEF Transfer, Sylixos
<1>3. ASSUME NEW r \in Accesses(rq), IsPiece(r, rq)
      PROVE  Exact(Once[r], d, r.pos, r.len, L)
  <2>1. Once[r] = Limited(0, r, 256)
    BY DEF Limited
  <2>2. L = 0 .. 256 - 1
    BY DEF Reached
  <2>3. Exact(Limited(0, r, 256), 0, r.pos, r.len, 0 .. 256 - 1)
    BY <1>3, LimitExact
  <2> HIDE DEF L, Once
  <2>4. QED
    BY <2>1, <2>2, <2>3
<1>4. ASSUME NEW r \in Accesses(rq), r \in Request, r.domain = rq.domain
      PROVE  Homed(Once[r], d)
  <2>1. Homed(Done(Straight(0, r)), 0) /\ Homed(Refused, 0)
    BY <1>4, StraightHomed, RefusedHomed
  <2>2. QED
    BY <2>1
<1> HIDE DEF Once, d, L
<1>5. /\ Exact(Split(rq, Once), d, rq.pos, rq.len, L)
      /\ Single(rq) /\ Proper(rq) => Exact(Once[rq], d, rq.pos, rq.len, L)
  BY <1>3, ByPieces
<1>6. Homed(Split(rq, Once), d) /\ Homed(Once[rq], d)
  BY <1>4, PiecesHomed
<1>7. QED
  BY <1>1, <1>2, <1>5, <1>6 DEF Right, L

\* Every method does what it should.
LEMMA TransferRight ==
  ASSUME NEW b \in Backend, NEW rq \in Request
  PROVE  Right(b, rq)
  BY ProcRight, DumpRight, Conf1Right, Conf2Right, FbsdRight, ObsdRight, NbsdRight, AixRight,
     DarwinRight, HurdRight, SylixosRight DEF Backend

(***************************************************************************)
(* Every behaviour.                                                        *)
(***************************************************************************)

\* The print of a map makes a call of its own.
LEMMA PrintMaps ==
  ASSUME MapPrint
  PROVE  /\ call.fn = "map" /\ MapEnded
         /\ call'.fn = "mapped" /\ "fn" \in DOMAIN call'
         /\ call'.fns = call.fns /\ call'.via = call.via
         /\ \E held \in [AllBridges(call.fns) -> 0 .. 2] :
              call'.printed = Printed(call, AllBridges(call.fns), held)
  BY DEF MapPrint

\* A turn of a walk leaves the call what it is.
LEMMA TurnsKeepCall ==
  ASSUME "fn" \in DOMAIN call
  PROVE  /\ ScanTurn => call.fn = "scan" /\ call'.fn = "scan" /\ "fn" \in DOMAIN call'
         /\ MapTurn => call.fn = "map" /\ call'.fn = "map" /\ "fn" \in DOMAIN call'
         /\ VpdTurn => call.fn = "vpd" /\ call'.fn = "vpd" /\ "fn" \in DOMAIN call'
<1> DEFINE Keeps(c, d) == d.fn = c.fn /\ DOMAIN d = DOMAIN c
           Kept(d) == d.fn = call.fn /\ DOMAIN d = DOMAIN call
<1>1. \A c : "fn" \in DOMAIN c => Keeps(c, Counted(c))
  BY DEF Counted
<1>2. ASSUME ScanTurn
      PROVE  call.fn = "scan" /\ call'.fn = "scan" /\ "fn" \in DOMAIN call'
  <2>1. \A c, bus : "fn" \in DOMAIN c => Keeps(c, ScanBus(c, bus))
    BY DEF ScanBus
  <2>2. Kept(ScanRoot(call))
    <3> DEFINE t == [call EXCEPT !.roots = Tail(@)]
    <3>1. Keeps(call, t) /\ "fn" \in DOMAIN t
      OBVIOUS
    <3> HIDE DEF t, Keeps
    <3>2. Keeps(t, ScanBus(t, Head(call.roots)))
      BY <2>1, <3>1
    <3>3. QED
      BY <3>1, <3>2 DEF ScanRoot, t, Keeps
  <2>3. Kept(ScanFunction(call))
    <3> DEFINE f == Earliest(Head(call.loops))
               t == [call EXCEPT !.list = Append(@, f), !.loops[1] = @ \ {f}]
    <3>1. Keeps(call, t) /\ "fn" \in DOMAIN t
      OBVIOUS
    <3>2. ScanFunction(call) = IF f.sec = None THEN t ELSE ScanBus(t, f.sec)
      BY DEF ScanFunction
    <3> HIDE DEF t, f, Keeps
    <3>3. Keeps(t, ScanBus(t, f.sec))
      BY <2>1, <3>1
    <3>4. QED
      BY <3>1, <3>2, <3>3 DEF Keeps
  <2>4. Kept(ScanReturn(call))
    BY DEF ScanReturn
  <2> HIDE DEF Kept
  <2>5. PICK d : Kept(d) /\ call' = Counted(d) /\ call.fn = "scan"
    BY <1>2, <2>2, <2>3, <2>4 DEF ScanTurn
  <2>6. QED
    BY <1>1, <2>5 DEF Kept
<1>3. ASSUME MapTurn
      PROVE  call.fn = "map" /\ call'.fn = "map" /\ "fn" \in DOMAIN call'
  <2>1. \A c, bus, min, max : "fn" \in DOMAIN c => Keeps(c, Walk(c, bus, min, max))
    BY DEF Walk
  <2>2. Kept(MapBus(call, LastBus))
    <3> DEFINE t == [call EXCEPT !.bus = @ + 1]
    <3>1. Keeps(call, t) /\ "fn" \in DOMAIN t
      OBVIOUS
    <3>2. MapBus(call, LastBus) = t \/ MapBus(call, LastBus) = Walk(t, call.bus, 0, LastBus)
      BY DEF MapBus
    <3> HIDE DEF t, Keeps
    <3>3. Keeps(t, Walk(t, call.bus, 0, LastBus))
      BY <2>1, <3>1
    <3>4. QED
      BY <3>1, <3>2, <3>3 DEF Keeps
  <2>3. Kept(MapBridge(call))
    <3> DEFINE r == Head(call.loops)
               b == Latest(r.left)
               rest == [call EXCEPT !.loops[1].left = @ \ {b}]
               t == [rest EXCEPT !.via = @ \cup {b}]
    <3>1. Keeps(call, rest) /\ Keeps(call, t) /\ "fn" \in DOMAIN t
      OBVIOUS
    <3>2. Keeps(call, [rest EXCEPT !.bug = @ \cup {<<b, 1>>}]) /\ Keeps(call, [rest EXCEPT !.bug = @ \cup {<<b, 2>>}])
      OBVIOUS
    <3>3. \/ MapBridge(call) = [rest EXCEPT !.bug = @ \cup {<<b, 1>>}]
          \/ MapBridge(call) = [rest EXCEPT !.bug = @ \cup {<<b, 2>>}]
          \/ MapBridge(call) = Walk(t, b.first, b.first, b.last)
      BY DEF MapBridge
    <3> HIDE DEF t, rest, b, r, Keeps
    <3>4. Keeps(t, Walk(t, b.first, b.first, b.last))
      BY <2>1, <3>1
    <3>5. QED
      BY <3>1, <3>2, <3>3, <3>4 DEF Keeps
  <2>4. Kept(MapReturn(call))
    BY DEF MapReturn
  <2> HIDE DEF Kept
  <2>5. PICK d : Kept(d) /\ call' = Counted(d) /\ call.fn = "map"
    BY <1>3, <2>2, <2>3, <2>4 DEF MapTurn
  <2>6. QED
    BY <1>1, <2>5 DEF Kept
<1>4. ASSUME VpdTurn
      PROVE  call.fn = "vpd" /\ call'.fn = "vpd" /\ "fn" \in DOMAIN call'
  <2>1. \A c, pos, len : "fn" \in DOMAIN c => Keeps(c, VpdRead(c, pos, len))
    BY DEF VpdRead
  <2>2. \A c : "fn" \in DOMAIN c => Keeps(c, EndWalk(c)) /\ Keeps(c, NextResource(c)) /\ Keeps(c, Verdict(c))
    BY DEF EndWalk, NextResource, Verdict
  <2>3. \A c, m, a, l, p : "fn" \in DOMAIN c => Keeps(c, [c EXCEPT !.mode = m, !.at = a, !.len = l, !.part = p])
    OBVIOUS
  <2>4. \A c, n : "fn" \in DOMAIN c => Keeps(c, [c EXCEPT !.part = @ + n])
    OBVIOUS
  <2>5. \A c, n : "fn" \in DOMAIN c => Keeps(c, [c EXCEPT !.part = @ + 3 + n])
    OBVIOUS
  <2> HIDE DEF Keeps
  <2>6. Kept(VpdResource(call))
    <3> DEFINE v == call
               a == v.at
               large == v.vpd[a] >= 128
               tag == IF large THEN v.vpd[a] ELSE v.vpd[a] \div 8
               len == IF large THEN Word16(v.vpd, a + 1) ELSE v.vpd[a] % 8
               at == IF large THEN a + 3 ELSE a + 1
               first == VpdRead(v, a, 1)
               head == IF large THEN VpdRead(first, a + 1, 2) ELSE first
               last == [head EXCEPT !.mode = IF tag = NameTag THEN "name" ELSE "fields",
                                    !.at = at, !.len = len, !.part = 0]
    <3>1. VpdResource(call) \in {EndWalk(v), EndWalk(first), EndWalk(head), last}
      BY DEF VpdResource
    <3>2. Keeps(v, first) /\ "fn" \in DOMAIN first
      BY <2>1 DEF Keeps
    <3>3. Keeps(v, head) /\ "fn" \in DOMAIN head
      BY <2>1, <3>2 DEF Keeps
    <3> HIDE DEF first, head, tag, len, at, large
    <3>4. Keeps(head, last)
      BY <2>3, <3>3
    <3> HIDE DEF last
    <3>5. QED
      BY <2>2, <3>1, <3>2, <3>3, <3>4 DEF Keeps
  <2>7. Kept(VpdName(call))
    <3> DEFINE left == call.len - call.part
               n == IF left > VpdBuffer THEN VpdBuffer ELSE left
               t == VpdRead(call, call.at + call.part, n)
    <3>1. VpdName(call) \in {NextResource(call), [t EXCEPT !.part = @ + n]}
      BY DEF VpdName
    <3>2. Keeps(call, t) /\ "fn" \in DOMAIN t
      BY <2>1 DEF Keeps
    <3> HIDE DEF t, n
    <3>3. Keeps(t, [t EXCEPT !.part = @ + n])
      BY <2>4, <3>2
    <3>4. QED
      BY <2>2, <3>1, <3>2, <3>3 DEF Keeps
  <2>8. Kept(VpdField(call))
    <3> DEFINE v == call
               p == v.at + v.part
               id == <<v.vpd[p], v.vpd[p + 1]>>
               size == v.vpd[p + 2]
               n == FieldRead(id, size)
               head == VpdRead(v, p, 3)
               data == VpdRead(head, p + 3, n)
               last == IF id = RV THEN Verdict(data) ELSE data
    <3>1. VpdField(call) \in {NextResource(v), NextResource(head), [last EXCEPT !.part = @ + 3 + size]}
      BY DEF VpdField
    <3>2. Keeps(v, head) /\ "fn" \in DOMAIN head
      BY <2>1 DEF Keeps
    <3>3. Keeps(head, data) /\ "fn" \in DOMAIN data
      BY <2>1, <3>2 DEF Keeps
    <3>4. Keeps(data, last) /\ "fn" \in DOMAIN last
      BY <2>2, <3>3 DEF Keeps
    <3> HIDE DEF head, data, last, id, size, n
    <3>5. Keeps(last, [last EXCEPT !.part = @ + 3 + size])
      BY <2>5, <3>4
    <3>6. QED
      BY <2>2, <3>1, <3>2, <3>3, <3>4, <3>5 DEF Keeps
  <2> HIDE DEF Kept
  <2>9. Kept(call') /\ call.fn = "vpd"
    BY <1>4, <2>6, <2>7, <2>8 DEF VpdTurn
  <2>10. QED
    BY <2>9 DEF Kept
<1>5. QED
  BY <1>2, <1>3, <1>4

\* What a call returned is the function of its arguments.
Returned ==
  /\ "fn" \in DOMAIN call
  /\ call.fn = "transfer" =>
       /\ call.by \in Backend
       /\ call.rq \in Request
       /\ call.result = Transfer(call.by, call.rq)
  /\ call.fn = "bases" => call.bars \in Seq(BarKind) /\ call.bases = Bases(call.bars)
  /\ call.fn = "port" => \E d \in Devices, m \in Filters : call.device = d /\ call.filter = FilterOf(m, d)
  /\ call.fn = "slot" =>
       /\ call.f \in Filters /\ call.text \in SlotStrings
       /\ call.result = ParseSlot(call.f, call.text)
       /\ call.old = ParseSlotOld(Export(call.f), call.text)
  /\ call.fn = "id" =>
       /\ call.f \in Filters /\ call.text \in IdStrings
       /\ call.result = ParseId(call.f, call.text)
       /\ call.old = ParseIdOld(Export(call.f), call.text)

\* It is so in every state.
LEMMA AlwaysReturned == Spec => []Returned
<1>1. Init => Returned
  BY DEF Init, NoCall, Returned
<1>2. Returned /\ [Next]_call => Returned'
  <2>1. SUFFICES ASSUME Returned, [Next]_call
                 PROVE  Returned'
    OBVIOUS
  <2>2. CASE SlotFilter
    BY <2>2 DEF SlotFilter, Returned
  <2>3. CASE IdFilter
    BY <2>3 DEF IdFilter, Returned
  <2>4. CASE PortFilter
    <3>1. PICK d \in Devices, m \in Filters : call' = [fn |-> "port", device |-> d, filter |-> FilterOf(m, d)]
      BY <2>4 DEF PortFilter
    <3>2. "fn" \in DOMAIN call' /\ call'.fn = "port"
      BY <3>1
    <3>3. call'.device = d /\ call'.filter = FilterOf(m, d)
      BY <3>1
    <3>4. QED
      BY <3>2, <3>3 DEF Returned
  <2>5. CASE BlockTransfer
    <3>1. PICK b \in Backend, rq \in Requests :
            call' = [fn |-> "transfer", by |-> b, rq |-> rq, result |-> Transfer(b, rq)]
      BY <2>5 DEF BlockTransfer
    <3>2. rq \in Request
      BY RequestsAssumption DEF Request
    <3>3. QED
      BY <3>1, <3>2 DEF Returned
  <2>6. CASE BusScan
    BY <2>6 DEF BusScan, Returned
  <2>7. CASE FillBases
    BY <2>7, BarListsAssumption DEF FillBases, Returned
  <2>8. CASE OpParse
    BY <2>8 DEF OpParse, Returned
  <2>9. CASE OpExec
    BY <2>9 DEF OpExec, Returned
  <2>10. CASE SetpciRun
    BY <2>10 DEF SetpciRun, Returned
  <2>11. CASE MapTheBus
    BY <2>11 DEF MapTheBus, Returned
  <2>12. CASE VpdRun
    BY <2>12 DEF VpdRun, Returned
  <2>13. CASE ScanTurn \/ MapTurn \/ MapPrint \/ VpdTurn
    <3>1. "fn" \in DOMAIN call
      BY <2>1 DEF Returned
    <3>2. "fn" \in DOMAIN call' /\ call'.fn \in {"scan", "map", "mapped", "vpd"}
      BY <2>13, <3>1, TurnsKeepCall, PrintMaps
    <3>3. QED
      BY <3>2 DEF Returned
  <2>14. CASE call' = call
    BY <2>1, <2>14 DEF Returned
  <2>15. QED
    BY <2>1, <2>2, <2>3, <2>4, <2>5, <2>6, <2>7, <2>8, <2>9, <2>10, <2>11, <2>12, <2>13, <2>14 DEF Next, Call
<1>3. QED
  BY <1>1, <1>2, PTL DEF Spec

\* A byte of a request reaches what the request reaches.
LEMMA BytesReached ==
  ASSUME NEW b \in Backend, NEW rq \in Request, NEW i \in 0 .. rq.len - 1
  PROVE  LET byte == [rq EXCEPT !.pos = @ + i, !.len = 1]
         IN  byte \in Request /\ Home(b, byte) = Home(b, rq) /\ Reached(b, byte) = Reached(b, rq)
<1> DEFINE byte == [rq EXCEPT !.pos = @ + i, !.len = 1]
<1>1. byte \in Request
  <2>1. rq.pos + i \in Nat /\ 1 \in Nat
    BY DEF Request
  <2>2. QED
    BY <2>1 DEF Request
<1>2. /\ byte.op = rq.op /\ byte.domain = rq.domain /\ byte.dev = rq.dev /\ byte.size = rq.size
      /\ byte.rw = rq.rw /\ byte.twin = rq.twin
  BY DEF Request
<1> HIDE DEF byte
<1>3. Home(b, byte) = Home(b, rq)
  BY <1>2 DEF Home
<1>4. Reached(b, byte) = Reached(b, rq)
  <2>1. CASE b \in {"proc", "dump", "hurd"}
    BY <2>1, <1>2 DEF Reached
  <2>2. CASE b \in {"conf1", "conf2", "fbsd", "obsd"}
    BY <2>2, <1>2 DEF Reached
  <2>3. CASE b \in {"nbsd", "aix", "darwin", "sylixos"}
    BY <2>3, <1>2 DEF Reached
  <2>4. QED
    BY <2>1, <2>2, <2>3 DEF Backend
<1>5. QED
  BY <1>1, <1>3, <1>4 DEF byte

\* What the properties of transfers say of one transfer.
MovesAFirstPart(t, rq) ==
  \E n \in 0 .. rq.len :
    /\ {<<m.reg, m.byte>> : m \in t.moved} = {<<rq.pos + i, i>> : i \in 0 .. n - 1}
    /\ t.ok => n = rq.len

FailsWithItsBytes(t, b, rq) ==
  t.ok <=> \A i \in 0 .. rq.len - 1 : Transfer(b, [rq EXCEPT !.pos = @ + i, !.len = 1]).ok

KeepsItsHome(t, b, rq) == \A m \in t.moved : m.domain = Home(b, rq)

\* What the methods do is what the properties of transfers say.
LEMMA RightIsExact ==
  ASSUME NEW b \in Backend, NEW rq \in Request, NEW t, t = Transfer(b, rq)
  PROVE  /\ Proper(rq) => MovesAFirstPart(t, rq)
         /\ Proper(rq) /\ rq.len > 0 => FailsWithItsBytes(t, b, rq)
         /\ KeepsItsHome(t, b, rq)
<1> DEFINE Byte(i) == [rq EXCEPT !.pos = @ + i, !.len = 1]
<1>1. Right(b, rq)
  BY TransferRight
<1>2. Proper(rq) => Exact(t, Home(b, rq), rq.pos, rq.len, Reached(b, rq))
  BY <1>1 DEF Right
<1>3. KeepsItsHome(t, b, rq)
  BY <1>1 DEF Right, Homed, KeepsItsHome
<1>4. ASSUME Proper(rq)
      PROVE  MovesAFirstPart(t, rq)
  <2>1. PICK n \in 0 .. rq.len : t.moved = Moves(Home(b, rq), rq.pos, rq.pos .. rq.pos + n - 1) /\ (t.ok => n = rq.len)
    BY <1>2, <1>4 DEF Exact
  <2>2. rq.pos \in Nat /\ n \in Nat
    BY DEF Request
  <2>3. ASSUME NEW m \in t.moved
        PROVE  <<m.reg, m.byte>> \in {<<rq.pos + i, i>> : i \in 0 .. n - 1}
    <3>1. PICK r \in rq.pos .. rq.pos + n - 1 : m.reg = r /\ m.byte = r - rq.pos
      BY <2>1 DEF Moves
    <3>2. r - rq.pos \in 0 .. n - 1 /\ rq.pos + (r - rq.pos) = r
      BY <2>2
    <3>3. QED
      BY <3>1, <3>2
  <2>4. ASSUME NEW i \in 0 .. n - 1
        PROVE  \E m \in t.moved : <<m.reg, m.byte>> = <<rq.pos + i, i>>
    <3>1. PICK r \in rq.pos .. rq.pos + n - 1 : r = rq.pos + i /\ r - rq.pos = i
      BY <2>2
    <3>2. [domain |-> Home(b, rq), reg |-> r, byte |-> r - rq.pos] \in t.moved
      BY <2>1 DEF Moves
    <3>3. QED
      BY <3>1, <3>2
  <2>5. {<<m.reg, m.byte>> : m \in t.moved} = {<<rq.pos + i, i>> : i \in 0 .. n - 1}
    <3> DEFINE Went == {<<m.reg, m.byte>> : m \in t.moved}
               Asked == {<<rq.pos + i, i>> : i \in 0 .. n - 1}
    <3>1. Went \subseteq Asked
      BY <2>3
    <3>2. Asked \subseteq Went
      BY <2>4
    <3> HIDE DEF Went, Asked
    <3>3. Went = Asked
      BY <3>1, <3>2
    <3>4. QED
      BY <3>3 DEF Went, Asked
  <2>6. QED
    BY <2>1, <2>5, Zenon DEF MovesAFirstPart
<1>5. ASSUME Proper(rq), rq.len > 0
      PROVE  FailsWithItsBytes(t, b, rq)
  <2>1. t.ok <=> rq.pos .. rq.pos + rq.len - 1 \subseteq Reached(b, rq)
    BY <1>2, <1>5 DEF Exact
  <2>2. ASSUME NEW i \in 0 .. rq.len - 1
        PROVE  Transfer(b, Byte(i)).ok <=> rq.pos + i \in Reached(b, rq)
    <3>1. Byte(i) \in Request /\ Reached(b, Byte(i)) = Reached(b, rq)
      BY BytesReached
    <3>2. Byte(i).pos = rq.pos + i /\ Byte(i).len = 1 /\ rq.pos + i \in Nat
      BY DEF Request
    <3> HIDE DEF Byte
    <3>3. Proper(Byte(i))
      BY <3>2 DEF Proper
    <3>4. Exact(Transfer(b, Byte(i)), Home(b, Byte(i)), Byte(i).pos, 1, Reached(b, rq))
      BY <3>1, <3>2, <3>3, TransferRight DEF Right
    <3>5. Transfer(b, Byte(i)).ok <=> Byte(i).pos .. Byte(i).pos + 1 - 1 \subseteq Reached(b, rq)
      BY <3>4 DEF Exact
    <3>6. QED
      BY <3>2, <3>5
  <2>3. rq.pos \in Nat /\ rq.len \in Nat
    BY DEF Request
  <2> HIDE DEF Byte
  <2>4. (\A i \in 0 .. rq.len - 1 : rq.pos + i \in Reached(b, rq))
          <=> rq.pos .. rq.pos + rq.len - 1 \subseteq Reached(b, rq)
    <3>1. \A r \in rq.pos .. rq.pos + rq.len - 1 : r - rq.pos \in 0 .. rq.len - 1 /\ rq.pos + (r - rq.pos) = r
      BY <2>3
    <3>2. \A i \in 0 .. rq.len - 1 : rq.pos + i \in rq.pos .. rq.pos + rq.len - 1
      BY <2>3
    <3>3. QED
      BY <3>1, <3>2
  <2>5. t.ok <=> \A i \in 0 .. rq.len - 1 : Transfer(b, Byte(i)).ok
    BY <2>1, <2>2, <2>4
  <2>6. QED
    BY <2>5, Zenon DEF FailsWithItsBytes, Byte
<1>6. QED
  BY <1>3, <1>4, <1>5, Zenon

\* By every method, of every block, a first part of the bytes goes with its own
\* registers, all of it if each byte could go alone, to the device asked for.
THEOREM TransfersExact == Spec => []TransfersAreExact
<1>1. Returned => TransfersAreExact
  <2>1. SUFFICES ASSUME Returned, call.fn = "transfer"
                 PROVE  TransfersAreExact
    BY DEF TransfersAreExact, BytesMeetTheirRegisters, BlocksFailWithTheirBytes, DomainsAreKept
  <2>2. call.by \in Backend /\ call.rq \in Request /\ call.result = Transfer(call.by, call.rq)
    BY <2>1 DEF Returned
  <2>3. BytesMeetTheirRegisters
    <3>1. Proper(call.rq) => MovesAFirstPart(call.result, call.rq)
      BY <2>2, RightIsExact
    <3>2. QED
      BY <3>1, Zenon DEF BytesMeetTheirRegisters, MovesAFirstPart
  <2>4. BlocksFailWithTheirBytes
    <3>1. Proper(call.rq) /\ call.rq.len > 0 => FailsWithItsBytes(call.result, call.by, call.rq)
      BY <2>2, RightIsExact
    <3>2. QED
      BY <3>1, Zenon DEF BlocksFailWithTheirBytes, FailsWithItsBytes
  <2>5. DomainsAreKept
    <3>1. KeepsItsHome(call.result, call.by, call.rq)
      BY <2>2, RightIsExact
    <3>2. Home(call.by, call.rq) =
            IF call.by = "sylixos" \/ (call.by = "proc" /\ call.rq.twin) THEN 0 ELSE call.rq.domain
      BY DEF Home
    <3>3. QED
      BY <3>1, <3>2 DEF DomainsAreKept, KeepsItsHome
  <2>6. QED
    BY <2>3, <2>4, <2>5 DEF TransfersAreExact
<1>2. QED
  BY <1>1, AlwaysReturned, PTL

(***************************************************************************)
(* Base registers.                                                         *)
(***************************************************************************)

\* A register is an upper half if the one before it is of 64 bits and none.
LEMMA UpperHalfNext ==
  ASSUME NEW bars \in Seq(BarKind), NEW i \in 1 .. Len(bars)
  PROVE  UpperHalf(bars, i + 1) <=> bars[i] = "mem64" /\ ~UpperHalf(bars, i)
<1>1. ASSUME UpperHalf(bars, i + 1)
      PROVE  bars[i] = "mem64" /\ ~UpperHalf(bars, i)
  <2>1. PICK n \in 1 .. (i + 1) - 1 :
          /\ n % 2 = 1
          /\ \A j \in (i + 1) - n .. (i + 1) - 1 : bars[j] = "mem64"
          /\ n = (i + 1) - 1 \/ bars[(i + 1) - n - 1] # "mem64"
    BY <1>1 DEF UpperHalf
  <2>2. n \in 1 .. i /\ n % 2 = 1
    BY <2>1
  <2>3. \A j \in i + 1 - n .. i : bars[j] = "mem64"
    BY <2>1
  <2>4. n = i \/ bars[i - n] # "mem64"
    <3>1. (i + 1) - n - 1 = i - n /\ (i + 1) - 1 = i
      BY <2>2
    <3>2. QED
      BY <2>1, <3>1
  <2>5. ASSUME UpperHalf(bars, i)
        PROVE  FALSE
    <3>1. PICK m \in 1 .. i - 1 :
            /\ m % 2 = 1
            /\ \A j \in i - m .. i - 1 : bars[j] = "mem64"
            /\ m = i - 1 \/ bars[i - m - 1] # "mem64"
      BY <2>5 DEF UpperHalf
    <3>2. CASE n < m + 1
      <4>1. i - n \in i - m .. i - 1 /\ n # i
        BY <2>2, <3>1, <3>2
      <4>2. QED
        BY <4>1, <2>4, <3>1
    <3>3. CASE n > m + 1
      <4>1. i - m - 1 \in i + 1 - n .. i /\ m # i - 1
        BY <2>2, <3>1, <3>3
      <4>2. QED
        BY <4>1, <2>3, <3>1
    <3>4. CASE n = m + 1
      <4>1. m \in Nat /\ m % 2 = 1 /\ (m + 1) % 2 = 1
        BY <2>2, <3>1, <3>4
      <4>2. QED
        BY <4>1
    <3>5. QED
      BY <2>2, <3>1, <3>2, <3>3, <3>4
  <2>6. i \in i + 1 - n .. i
    BY <2>2
  <2>7. QED
    BY <2>3, <2>5, <2>6
<1>2. ASSUME bars[i] = "mem64", ~UpperHalf(bars, i)
      PROVE  UpperHalf(bars, i + 1)
  <2> DEFINE Run(n) == \A j \in i + 1 - n .. i : bars[j] = "mem64"
             T == {k \in 0 .. i - 1 : Run(i - k)}
  <2>1. i - 1 \in T
    BY <1>2
  <2>2. PICK k \in T : \A y \in T : k <= y
    <3>1. T \subseteq Nat /\ T # {}
      <4> HIDE DEF Run
      <4>1. \A y \in 0 .. i - 1 : y \in Nat
        OBVIOUS
      <4>2. T \subseteq Nat
        BY <4>1
      <4>3. QED
        BY <2>1, <4>2, Zenon
    <3> HIDE DEF T
    <3>2. QED
      BY <3>1, LeastElement
  <2>3. PICK n \in 1 .. i : n = i - k
    BY <2>2
  <2>4. Run(n)
    BY <2>2, <2>3
  <2>5. n = i \/ bars[i - n] # "mem64"
    <3>1. SUFFICES ASSUME n # i, bars[i - n] = "mem64"
                   PROVE  FALSE
      OBVIOUS
    <3>2. k - 1 \in 0 .. i - 1 /\ i - (k - 1) = n + 1
      BY <2>2, <2>3, <3>1
    <3>3. Run(n + 1)
      <4>1. \A j \in i + 1 - (n + 1) .. i : j = i - n \/ j \in i + 1 - n .. i
        OBVIOUS
      <4>2. QED
        BY <4>1, <2>4, <3>1
    <3>4. k - 1 \in T
      BY <3>2, <3>3
    <3>5. QED
      BY <2>2, <2>3, <3>4
  <2> HIDE DEF T
  <2>6. CASE n % 2 = 1
    <3>1. (i + 1) - n - 1 = i - n /\ (i + 1) - 1 = i
      BY <2>3
    <3>2. \A j \in (i + 1) - n .. (i + 1) - 1 : bars[j] = "mem64"
      BY <2>4
    <3>3. QED
      BY <2>5, <2>6, <3>1, <3>2 DEF UpperHalf
  <2>7. CASE n % 2 # 1
    <3>1. n - 1 \in 1 .. i - 1 /\ (n - 1) % 2 = 1
      BY <2>7
    <3>2. PICK m \in 1 .. i - 1 : m = n - 1 /\ m % 2 = 1
      BY <3>1
    <3>3. \A j \in i - m .. i - 1 : bars[j] = "mem64"
      BY <2>4, <3>2
    <3>4. m = i - 1 \/ bars[i - m - 1] # "mem64"
      <4>1. i - m - 1 = i - n
        BY <3>2
      <4>2. QED
        BY <4>1, <3>2, <2>5
    <3>5. UpperHalf(bars, i)
      BY <3>2, <3>3, <3>4 DEF UpperHalf
    <3>6. QED
      BY <1>2, <3>5
  <2>8. QED
    BY <2>6, <2>7
<1>3. QED
  BY <1>1, <1>2

\* The addresses so far, and the register to be looked at next.
BaseState(bars) == [base : [1 .. Len(bars) -> SUBSET Nat], next : Nat]

\* A turn of the loop over the registers.
BaseTurn(bars, s, i) ==
  IF i < s.next \/ bars[i] \in {"zero", "ones"} THEN s
  ELSE IF bars[i] # "mem64" THEN [s EXCEPT !.base[i] = {i}]
  ELSE IF i = Len(bars) THEN s
  ELSE [base |-> [s.base EXCEPT ![i] = {i, i + 1}], next |-> i + 2]

\* Before the first register.
BaseStart(bars) == [base |-> [j \in 1 .. Len(bars) |-> {}], next |-> 1]

\* The loop takes these turns.
LEMMA BasesTurn ==
  ASSUME NEW bars \in Seq(BarKind)
  PROVE  \E f \in [0 .. Len(bars) -> BaseState(bars)] :
           /\ f[0] = BaseStart(bars)
           /\ \A i \in 1 .. Len(bars) : f[i] = BaseTurn(bars, f[i - 1], i)
           /\ Bases(bars) = f[Len(bars)].base
<1> DEFINE n == Len(bars)
           V == BaseState(bars)
           Def(f) == f = [i \in 0 .. n |-> IF i = 0 THEN BaseStart(bars) ELSE BaseTurn(bars, f[i - 1], i)]
           loop == CHOOSE f : Def(f)
           G == [i \in 1 .. n |-> [s \in V |-> BaseTurn(bars, s, i)]]
<1>1. n \in Nat
  OBVIOUS
<1>2. BaseStart(bars) \in V
  BY DEF BaseStart, BaseState
<1>3. G \in [1 .. n -> [V -> V]]
  <2>1. ASSUME NEW i \in 1 .. n, NEW s \in V
        PROVE  BaseTurn(bars, s, i) \in V
    <3>1. s.base \in [1 .. n -> SUBSET Nat] /\ s.next \in Nat /\ i \in Nat
      BY DEF BaseState
    <3>2. {i} \in SUBSET Nat /\ {i, i + 1} \in SUBSET Nat /\ i + 2 \in Nat
      BY <3>1
    <3>3. [s EXCEPT !.base[i] = {i}] \in V
      BY <3>1, <3>2 DEF BaseState
    <3>4. [base |-> [s.base EXCEPT ![i] = {i, i + 1}], next |-> i + 2] \in V
      BY <3>1, <3>2 DEF BaseState
    <3> HIDE DEF V
    <3>5. QED
      BY <3>3, <3>4 DEF BaseTurn
  <2> HIDE DEF V
  <2>2. QED
    BY <2>1
<1>4. PICK h \in [0 .. n -> V] : Recursively(h, n, BaseStart(bars), G)
  <2> HIDE DEF G, V, n
  <2>1. QED
    BY <1>1, <1>2, <1>3, RecursionExists
<1>5. ASSUME NEW i \in 1 .. n
      PROVE  h[i] = BaseTurn(bars, h[i - 1], i)
  <2>1. h[i] = G[i][h[i - 1]] /\ i - 1 \in 0 .. n
    BY <1>4 DEF Recursively
  <2>2. h[i - 1] \in V
    BY <2>1
  <2> HIDE DEF V
  <2>3. QED
    BY <2>1, <2>2
<1>6. h[0] = BaseStart(bars)
  BY <1>4 DEF Recursively
<1>7. Def(h)
  BY <1>5, <1>6
<1>8. Def(loop)
  <2> HIDE DEF Def
  <2>1. QED
    BY <1>7
<1>9. BasesLoop(bars) = loop
  BY DEF BasesLoop, BaseTurn, BaseStart
<1> HIDE DEF loop
<1>10. \A i \in 0 .. n : loop[i] = h[i]
  <2> DEFINE S == {i \in 0 .. n : loop[i] = h[i]}
  <2>1. 0 \in S
    BY <1>1, <1>6, <1>8
  <2>2. ASSUME NEW i \in 1 .. n, i - 1 \in S
        PROVE  i \in S
    BY <2>2, <1>5, <1>8
  <2> HIDE DEF S, n
  <2>3. 0 .. n \subseteq S
    BY <1>1, <2>1, <2>2, UpToInduct
  <2>4. QED
    BY <2>3 DEF S
<1>11. Bases(bars) = h[n].base
  BY <1>1, <1>9, <1>10 DEF Bases
<1>12. QED
  BY <1>5, <1>6, <1>11

\* What the registers from i on are to give.
BaseOf(bars, i) ==
  IF UpperHalf(bars, i) \/ bars[i] \in {"zero", "ones"} THEN {}
  ELSE IF bars[i] # "mem64" THEN {i}
  ELSE IF i = Len(bars) THEN {} ELSE {i, i + 1}

\* The addresses up to i are right, those behind are empty, and the register
\* behind i is left out exactly if it is an upper half.
BasesRight(bars, s, i) ==
  /\ \A j \in 1 .. Len(bars) : s.base[j] = IF j <= i THEN BaseOf(bars, j) ELSE {}
  /\ i < Len(bars) => (i + 1 < s.next <=> UpperHalf(bars, i + 1))
  /\ s.next <= i + 2

\* One turn of the loop over the registers keeps the bases right.
LEMMA BasesStep ==
  ASSUME NEW bars \in Seq(BarKind), NEW i \in 1 .. Len(bars), NEW s \in BaseState(bars),
         BasesRight(bars, s, i - 1)
  PROVE  BasesRight(bars, BaseTurn(bars, s, i), i)
<1> DEFINE t == BaseTurn(bars, s, i)
           n == Len(bars)
           up(j) == UpperHalf(bars, j)
<1>1. s.base \in [1 .. n -> SUBSET Nat] /\ s.next \in Nat /\ n \in Nat
  BY DEF BaseState
<1>2. i < s.next <=> up(i)
  BY DEF BasesRight
<1>3. s.next <= i + 1
  BY DEF BasesRight
<1>4. up(i + 1) <=> bars[i] = "mem64" /\ ~up(i)
  BY UpperHalfNext
<1>5. \A j \in 1 .. n : s.base[j] = IF j < i THEN BaseOf(bars, j) ELSE {}
  BY DEF BasesRight
<1>6. t.base[i] = BaseOf(bars, i)
  <2>1. s.base[i] = {}
    BY <1>5
  <2>2. CASE i < s.next \/ bars[i] \in {"zero", "ones"}
    BY <2>1, <2>2, <1>2 DEF BaseTurn, BaseOf
  <2>3. CASE ~(i < s.next \/ bars[i] \in {"zero", "ones"}) /\ bars[i] # "mem64"
    <3>1. t = [s EXCEPT !.base[i] = {i}]
      BY <2>3 DEF BaseTurn
    <3>2. t.base[i] = {i}
      BY <3>1, <1>1 DEF BaseState
    <3>3. QED
      BY <2>3, <3>2, <1>2 DEF BaseOf
  <2>4. CASE ~(i < s.next) /\ bars[i] = "mem64" /\ i = n
    BY <2>1, <2>4, <1>2 DEF BaseTurn, BaseOf
  <2>5. CASE ~(i < s.next) /\ bars[i] = "mem64" /\ i # n
    <3>1. t.base = [s.base EXCEPT ![i] = {i, i + 1}]
      BY <2>5 DEF BaseTurn
    <3>2. t.base[i] = {i, i + 1}
      BY <3>1, <1>1
    <3>3. QED
      BY <2>5, <3>2, <1>2 DEF BaseOf
  <2>6. QED
    BY <2>2, <2>3, <2>4, <2>5
<1>7. ASSUME NEW j \in 1 .. n, j # i
      PROVE  t.base[j] = s.base[j]
  BY <1>1, <1>7 DEF BaseTurn, BaseState
<1>8. t.next = IF ~(i < s.next) /\ bars[i] = "mem64" /\ i # n THEN i + 2 ELSE s.next
  BY <1>1 DEF BaseTurn, BaseState
<1> HIDE DEF t
<1>9. \A j \in 1 .. n : t.base[j] = IF j <= i THEN BaseOf(bars, j) ELSE {}
  <2>1. ASSUME NEW j \in 1 .. n
        PROVE  t.base[j] = IF j <= i THEN BaseOf(bars, j) ELSE {}
    <3>1. CASE j = i
      BY <3>1, <1>6
    <3>2. CASE j < i
      BY <3>2, <1>5, <1>7
    <3>3. CASE j > i
      BY <3>3, <1>5, <1>7
    <3>4. QED
      BY <3>1, <3>2, <3>3
  <2>2. QED
    BY <2>1
<1>10. i < n => (i + 1 < t.next <=> up(i + 1))
  BY <1>1, <1>2, <1>3, <1>4, <1>8
<1>11. t.next <= i + 2
  BY <1>1, <1>3, <1>8
<1>12. QED
  BY <1>9, <1>10, <1>11 DEF BasesRight, t

\* Each register gets its addresses.
LEMMA BasesExact ==
  ASSUME NEW bars \in Seq(BarKind)
  PROVE  \A i \in 1 .. Len(bars) : Bases(bars)[i] = BaseOf(bars, i)
<1>1. PICK f \in [0 .. Len(bars) -> BaseState(bars)] :
        /\ f[0] = BaseStart(bars)
        /\ \A i \in 1 .. Len(bars) : f[i] = BaseTurn(bars, f[i - 1], i)
        /\ Bases(bars) = f[Len(bars)].base
  BY BasesTurn
<1> DEFINE n == Len(bars)
           S == {i \in 0 .. n : BasesRight(bars, f[i], i)}
<1>2. n \in Nat
  OBVIOUS
<1>3. 0 \in S
  <2>1. ~UpperHalf(bars, 1)
    BY DEF UpperHalf
  <2>2. f[0].next = 1 /\ \A j \in 1 .. n : f[0].base[j] = {}
    BY <1>1 DEF BaseStart
  <2>3. QED
    BY <1>2, <2>1, <2>2 DEF BasesRight
<1>4. ASSUME NEW i \in 1 .. n, i - 1 \in S
      PROVE  i \in S
  <2>1. f[i - 1] \in BaseState(bars) /\ BasesRight(bars, f[i - 1], i - 1)
    BY <1>4
  <2>2. QED
    BY <1>1, <2>1, BasesStep
<1>5. BasesRight(bars, f[n], n)
  <2> HIDE DEF S
  <2>1. 0 .. n \subseteq S
    BY <1>2, <1>3, <1>4, UpToInduct
  <2>2. QED
    BY <2>1, <1>2 DEF S
<1>6. QED
  BY <1>1, <1>5 DEF BasesRight

\* pci_generic_fill_info gives every address to its register, of every list of
\* registers.
THEOREM AddressesExact == Spec => []AddressesTakeTheirRegisters
<1>1. Returned => AddressesTakeTheirRegisters
  <2>1. SUFFICES ASSUME Returned, call.fn = "bases"
                 PROVE  AddressesTakeTheirRegisters
    BY DEF AddressesTakeTheirRegisters
  <2>2. call.bars \in Seq(BarKind) /\ call.bases = Bases(call.bars)
    BY <2>1 DEF Returned
  <2>3. \A i \in 1 .. Len(call.bars) : call.bases[i] = BaseOf(call.bars, i)
    BY <2>2, BasesExact
  <2>4. DOMAIN call.bars = 1 .. Len(call.bars)
    BY <2>2
  <2>5. QED
    BY <2>3, <2>4, Zenon DEF AddressesTakeTheirRegisters, BaseOf
<1>2. QED
  BY <1>1, AlwaysReturned, PTL

(***************************************************************************)
(* The generic scan.                                                       *)
(***************************************************************************)

\* A function of the machine that is scanned.
Fn == [bus : Nat, dev : Nat, fn : Nat, multi : BOOLEAN, sec : Nat \cup {None}]

\* The buses a scan starts from can be reached.
LEMMA RootsReached ==
  ASSUME NEW fns, NEW roots, NEW b \in ToSet(roots)
  PROVE  b \in Reachable(fns, roots)
  BY DEF Reachable, Buses

\* The bus behind a bridge that can be reached can be reached.
LEMMA BehindReached ==
  ASSUME NEW fns, NEW roots, NEW b \in Reachable(fns, roots), NEW f \in Visible(fns, b), f.sec # None
  PROVE  f.sec \in Reachable(fns, roots)
<1>1. f \in fns
  BY DEF Visible
<1>2. f.sec \in Buses(fns, roots)
  BY <1>1 DEF Buses
<1>3. QED
  BY <1>2 DEF Reachable

\* Nothing can be reached outside a set with the roots that no bridge leads out
\* of.
LEMMA ReachedLeast ==
  ASSUME NEW fns, NEW roots, NEW S, S \subseteq Buses(fns, roots), ToSet(roots) \subseteq S,
         \A c \in S : \A f \in Visible(fns, c) : f.sec # None => f.sec \in S
  PROVE  Reachable(fns, roots) \subseteq S
  BY DEF Reachable

\* There is a function that no other comes before.
LEMMA EarliestThere ==
  ASSUME NEW S, S \subseteq Fn, S # {}
  PROVE  Earliest(S) \in S
<1> DEFINE D == {f.dev : f \in S}
<1>1. D \subseteq Nat /\ D # {}
  BY DEF Fn
<1>2. PICK d \in D : \A y \in D : d <= y
  <2> HIDE DEF D
  <2>1. QED
    BY <1>1, LeastElement
<1> DEFINE F == {g.fn : g \in {h \in S : h.dev = d}}
<1>3. F \subseteq Nat /\ F # {}
  BY <1>2 DEF Fn
<1>4. PICK n \in F : \A y \in F : n <= y
  <2> HIDE DEF F
  <2>1. QED
    BY <1>3, LeastElement
<1>5. PICK f \in S : f.dev = d /\ f.fn = n
  BY <1>4
<1>6. \A g \in S : ~Before(g, f)
  <2>1. SUFFICES ASSUME NEW g \in S, Before(g, f)
                 PROVE  FALSE
    OBVIOUS
  <2>2. d <= g.dev /\ g.dev \in Nat /\ g.fn \in Nat /\ f.dev \in Nat /\ f.fn \in Nat
    BY <1>2, <1>5 DEF Fn
  <2>3. g.dev = d /\ g.fn < n
    BY <1>5, <2>1, <2>2 DEF Before
  <2>4. g.fn \in F
    BY <2>3
  <2>5. QED
    BY <1>4, <1>5, <2>2, <2>3, <2>4
<1>7. QED
  BY <1>6 DEF Earliest

\* The states of a scan.
ScanState ==
  [fn : {"scan"}, fns : SUBSET Fn, from : Seq(Nat), roots : Seq(Nat), busmap : SUBSET Nat,
   list : Seq(Fn), loops : Seq(SUBSET Fn), turns : Nat]

\* A function that is there to be seen on a bus the scan has been at.
Seen(s, f) == f \in Visible(s.fns, f.bus) /\ f.bus \in s.busmap

\* What the loops are still to come to and what is linked is seen, in one place
\* each; nothing seen is missing; and only what can be reached has been reached.
ScanCore(s) ==
  /\ s \in ScanState
  /\ \A k \in DOMAIN s.loops : \A f \in s.loops[k] :
       /\ Seen(s, f)
       /\ \A l \in DOMAIN s.loops : f \in s.loops[l] => l = k
       /\ \A i \in DOMAIN s.list : s.list[i] # f
  /\ \A i \in DOMAIN s.list :
       Seen(s, s.list[i]) /\ \A j \in DOMAIN s.list : s.list[i] = s.list[j] => i = j
  /\ \A b \in s.busmap : \A f \in Visible(s.fns, b) :
       (\E i \in DOMAIN s.list : s.list[i] = f) \/ (\E k \in DOMAIN s.loops : f \in s.loops[k])
  /\ s.busmap \subseteq Reachable(s.fns, s.from)

\* What scan_bus does and leaves alone.
BusScanned(s, bus, t) ==
  /\ ScanCore(t)
  /\ t.fns = s.fns /\ t.from = s.from /\ t.roots = s.roots /\ t.list = s.list /\ t.turns = s.turns
  /\ t.busmap = s.busmap \cup {bus}
  /\ Len(t.loops) <= Len(s.loops) + 1

\* Scanning a bus changes the buses it has been at and the loops.
LEMMA ScanBusKeeps ==
  ASSUME NEW s, ScanCore(s), NEW bus \in Reachable(s.fns, s.from), bus \in Nat
  PROVE  BusScanned(s, bus, ScanBus(s, bus))
<1> DEFINE t == ScanBus(s, bus)
           V == Visible(s.fns, bus)
<1>1. /\ s \in ScanState /\ s.fns \subseteq Fn /\ s.loops \in Seq(SUBSET Fn) /\ s.busmap \in SUBSET Nat
      /\ s.list \in Seq(Fn)
  BY DEF ScanCore, ScanState
<1>2. V \subseteq Fn /\ \A f \in V : f.bus = bus
  BY <1>1 DEF Visible
<1>3. CASE bus \in s.busmap
  <2>1. t = s /\ s.busmap = s.busmap \cup {bus} /\ Len(s.loops) \in Nat
    BY <1>1, <1>3 DEF ScanBus
  <2>2. QED
    BY <2>1 DEF BusScanned
<1>4. CASE bus \notin s.busmap
  <2> DEFINE loops == <<V>> \o s.loops
  <2>1. t = [s EXCEPT !.busmap = s.busmap \cup {bus}, !.loops = loops]
    BY <1>4 DEF ScanBus
  <2>2. loops \in Seq(SUBSET Fn) /\ Len(loops) = Len(s.loops) + 1
    BY <1>1, <1>2
  <2>3. loops[1] = V /\ \A k \in DOMAIN s.loops : loops[k + 1] = s.loops[k]
    BY <1>1
  <2>4. \A k \in DOMAIN loops : k = 1 \/ \E l \in DOMAIN s.loops : k = l + 1
    <3>1. \A k \in DOMAIN loops : k = 1 \/ (k - 1 \in DOMAIN s.loops /\ k = (k - 1) + 1)
      BY <1>1
    <3>2. QED
      BY <3>1
  <2>5. \A l \in DOMAIN s.loops : l + 1 \in DOMAIN loops /\ 1 \in DOMAIN loops /\ l \in Nat
    BY <1>1
  <2>6. 1 \in DOMAIN loops
    BY <1>1
  <2> HIDE DEF loops
  <2>7. /\ t \in ScanState
        /\ t.fn = s.fn /\ t.fns = s.fns /\ t.from = s.from /\ t.roots = s.roots /\ t.list = s.list
        /\ t.turns = s.turns /\ t.busmap = s.busmap \cup {bus} /\ t.loops = loops
    <3> DEFINE bm == s.busmap \cup {bus}
    <3>1. bm \in SUBSET Nat /\ loops \in Seq(SUBSET Fn) /\ s \in ScanState
      BY <1>1, <2>2
    <3>2. t = [s EXCEPT !.busmap = bm, !.loops = loops]
      BY <2>1
    <3> HIDE DEF t, bm
    <3>3. t \in ScanState
      BY <3>1, <3>2 DEF ScanState
    <3>4. /\ t.fn = s.fn /\ t.fns = s.fns /\ t.from = s.from /\ t.roots = s.roots /\ t.list = s.list
          /\ t.turns = s.turns /\ t.busmap = bm /\ t.loops = loops
      BY <3>1, <3>2 DEF ScanState
    <3>5. QED
      BY <3>3, <3>4 DEF bm
  <2> HIDE DEF t, V
  <2>8. \A f : Seen(s, f) => Seen(t, f) /\ f.bus # bus
    BY <1>4, <2>7 DEF Seen
  <2>9. \A f \in V : Seen(t, f) /\ f.bus = bus
    BY <1>2, <2>7 DEF Seen, V
  <2>10. ASSUME NEW k \in DOMAIN loops, NEW f \in loops[k]
         PROVE  /\ Seen(t, f)
                /\ \A l \in DOMAIN loops : f \in loops[l] => l = k
                /\ \A i \in DOMAIN s.list : s.list[i] # f
    <3>1. CASE k = 1
      <4>1. f \in V
        BY <2>3, <2>10, <3>1
      <4>2. Seen(t, f) /\ ~Seen(s, f)
        BY <4>1, <2>8, <2>9
      <4>3. \A l \in DOMAIN s.loops : f \notin s.loops[l]
        BY <4>2 DEF ScanCore
      <4>4. \A l \in DOMAIN loops : f \in loops[l] => l = k
        BY <2>3, <2>4, <3>1, <4>3
      <4>5. \A i \in DOMAIN s.list : s.list[i] # f
        BY <4>2 DEF ScanCore
      <4>6. QED
        BY <4>2, <4>4, <4>5
    <3>2. ASSUME NEW p \in DOMAIN s.loops, k = p + 1
          PROVE  /\ Seen(t, f)
                 /\ \A l \in DOMAIN loops : f \in loops[l] => l = k
                 /\ \A i \in DOMAIN s.list : s.list[i] # f
      <4>1. f \in s.loops[p]
        BY <2>3, <2>10, <3>2
      <4>2. /\ Seen(s, f)
            /\ \A l \in DOMAIN s.loops : f \in s.loops[l] => l = p
            /\ \A i \in DOMAIN s.list : s.list[i] # f
        BY <4>1 DEF ScanCore
      <4>3. f \notin V
        BY <4>2, <2>8, <2>9
      <4>4. \A l \in DOMAIN loops : f \in loops[l] => l = k
        BY <2>3, <2>4, <3>2, <4>2, <4>3
      <4>5. QED
        BY <2>8, <4>2, <4>4
    <3>3. QED
      BY <2>4, <3>1, <3>2
  <2>11. ASSUME NEW i \in DOMAIN s.list
         PROVE  Seen(t, s.list[i]) /\ \A j \in DOMAIN s.list : s.list[i] = s.list[j] => i = j
    BY <2>8 DEF ScanCore
  <2>12. ASSUME NEW b \in t.busmap, NEW f \in Visible(s.fns, b)
         PROVE  (\E i \in DOMAIN s.list : s.list[i] = f) \/ (\E k \in DOMAIN loops : f \in loops[k])
    <3>1. CASE b = bus
      BY <3>1, <2>12, <2>3, <2>6 DEF V
    <3>2. CASE b # bus
      <4>1. b \in s.busmap
        BY <2>7, <2>12, <3>2
      <4>2. (\E i \in DOMAIN s.list : s.list[i] = f) \/ (\E k \in DOMAIN s.loops : f \in s.loops[k])
        BY <4>1, <2>12 DEF ScanCore
      <4>3. QED
        BY <4>2, <2>3, <2>5
    <3>3. QED
      BY <3>1, <3>2
  <2>13. t.busmap \subseteq Reachable(t.fns, t.from)
    BY <2>7 DEF ScanCore
  <2>14. ScanCore(t)
    BY <2>7, <2>10, <2>11, <2>12, <2>13 DEF ScanCore
  <2>15. Len(t.loops) <= Len(s.loops) + 1
    <3>1. Len(s.loops) \in Nat
      BY <1>1
    <3>2. QED
      BY <2>2, <2>7, <3>1
  <2>16. QED
    BY <2>7, <2>14, <2>15 DEF t, BusScanned
<1>5. QED
  BY <1>3, <1>4

\* The first m buses it was to start from have been started from, and no turn
\* was in vain.
Started(s, m) ==
  /\ Len(s.roots) = Len(s.from) - m
  /\ \A j \in 1 .. Len(s.roots) : s.roots[j] = s.from[m + j]
  /\ \A i \in 1 .. m : s.from[i] \in s.busmap
  /\ s.turns + Len(s.loops) <= 2 * (Len(s.list) + m)

\* The inductive invariant of a scan, but for the turns.
ScanInv(s) ==
  /\ ScanCore(s)
  /\ \A i \in DOMAIN s.list : s.list[i].sec # None => s.list[i].sec \in s.busmap
  /\ \E m \in 0 .. Len(s.from) : Started(s, m)

\* Where the fields of a scan are, whatever its turns are.
LEMMA CountedScan ==
  ASSUME NEW s, ScanCore(s)
  PROVE  LET t == Counted(s)
         IN  /\ ScanCore(t)
             /\ t.fns = s.fns /\ t.from = s.from /\ t.roots = s.roots /\ t.list = s.list
             /\ t.busmap = s.busmap /\ t.loops = s.loops /\ t.turns = s.turns + 1
<1> DEFINE t == Counted(s)
<1>1. s \in ScanState /\ s.turns + 1 \in Nat
  BY DEF ScanCore, ScanState
<1>2. t \in ScanState
  BY <1>1 DEF Counted, ScanState
<1>3. /\ t.fns = s.fns /\ t.from = s.from /\ t.roots = s.roots /\ t.list = s.list
      /\ t.busmap = s.busmap /\ t.loops = s.loops /\ t.turns = s.turns + 1
  BY <1>1 DEF Counted, ScanState
<1> HIDE DEF t
<1>4. \A f : Seen(t, f) <=> Seen(s, f)
  BY <1>3 DEF Seen
<1>5. ScanCore(t)
  BY <1>2, <1>3, <1>4 DEF ScanCore
<1>6. QED
  BY <1>3, <1>5 DEF t

\* A new start.
LEMMA RootTurn ==
  ASSUME NEW s, ScanInv(s), s.loops = <<>>, s.roots # <<>>
  PROVE  ScanInv(Counted(ScanRoot(s))) /\ Counted(ScanRoot(s)).fns = s.fns
<1> DEFINE bus == Head(s.roots)
           r == [s EXCEPT !.roots = Tail(@)]
           u == ScanRoot(s)
           t == Counted(u)
<1>1. PICK m \in 0 .. Len(s.from) : Started(s, m)
  BY DEF ScanInv
<1>2. s \in ScanState /\ s.roots \in Seq(Nat) /\ s.from \in Seq(Nat) /\ s.list \in Seq(Fn)
  BY DEF ScanInv, ScanCore, ScanState
<1>3. Len(s.roots) >= 1 /\ Tail(s.roots) \in Seq(Nat) /\ bus = s.roots[1] /\ bus \in Nat
  BY <1>2
<1>4. r \in ScanState
  BY <1>2, <1>3 DEF ScanState
<1>5. /\ r.fns = s.fns /\ r.from = s.from /\ r.roots = Tail(s.roots) /\ r.list = s.list
      /\ r.turns = s.turns /\ r.busmap = s.busmap /\ r.loops = s.loops
  BY <1>2 DEF ScanState
<1> HIDE DEF r
<1>6. \A f : Seen(r, f) <=> Seen(s, f)
  BY <1>5 DEF Seen
<1>7. ScanCore(r)
  BY <1>4, <1>5, <1>6 DEF ScanInv, ScanCore
<1>8. m + 1 \in 1 .. Len(s.from) /\ s.from[m + 1] = bus
  BY <1>1, <1>2, <1>3 DEF Started
<1>9. bus \in Reachable(r.fns, r.from)
  BY <1>2, <1>5, <1>8, RootsReached DEF ToSet
<1>10. u = ScanBus(r, bus)
  BY DEF ScanRoot, r
<1> HIDE DEF bus, u
<1>11. /\ ScanCore(u)
       /\ u.fns = s.fns /\ u.from = s.from /\ u.roots = Tail(s.roots) /\ u.list = s.list /\ u.turns = s.turns
       /\ u.busmap = s.busmap \cup {bus} /\ Len(u.loops) <= Len(s.loops) + 1
  <2>1. BusScanned(r, bus, ScanBus(r, bus))
    BY <1>3, <1>7, <1>9, ScanBusKeeps
  <2>2. BusScanned(r, bus, u)
    BY <1>10, <2>1
  <2>3. QED
    BY <1>5, <2>2 DEF BusScanned
<1> HIDE DEF t
<1>12. /\ ScanCore(t)
       /\ t.fns = s.fns /\ t.from = s.from /\ t.roots = Tail(s.roots) /\ t.list = s.list
       /\ t.turns = s.turns + 1 /\ t.busmap = s.busmap \cup {bus} /\ t.loops = u.loops
  BY <1>11, CountedScan DEF t
<1>13. Started(t, m + 1)
  <2>1. Len(t.roots) = Len(s.roots) - 1 /\ \A j \in 1 .. Len(t.roots) : t.roots[j] = s.roots[j + 1]
    BY <1>2, <1>3, <1>12
  <2>2. Len(t.roots) = Len(t.from) - (m + 1)
    BY <2>1, <1>1, <1>2, <1>12 DEF Started
  <2>3. ASSUME NEW j \in 1 .. Len(t.roots)
        PROVE  t.roots[j] = t.from[(m + 1) + j]
    <3>1. j + 1 \in 1 .. Len(s.roots) /\ m + (j + 1) = (m + 1) + j
      BY <2>1, <1>2
    <3>2. s.roots[j + 1] = s.from[m + (j + 1)]
      BY <3>1, <1>1 DEF Started
    <3>3. QED
      BY <2>1, <3>1, <3>2, <1>12
  <2>4. \A i \in 1 .. m + 1 : t.from[i] \in t.busmap
    <3>1. \A i \in 1 .. m + 1 : i \in 1 .. m \/ i = m + 1
      OBVIOUS
    <3>2. \A i \in 1 .. m : s.from[i] \in s.busmap
      BY <1>1 DEF Started
    <3>3. QED
      BY <3>1, <3>2, <1>8, <1>12
  <2>5. t.turns + Len(t.loops) <= 2 * (Len(t.list) + (m + 1))
    <3>1. s.turns + Len(s.loops) <= 2 * (Len(s.list) + m)
      BY <1>1 DEF Started
    <3>2. s.turns \in Nat /\ Len(s.list) \in Nat /\ Len(s.loops) = 0 /\ Len(t.loops) \in Nat
      <4>1. s.turns \in Nat /\ Len(s.list) \in Nat /\ Len(s.loops) = 0
        BY <1>2 DEF ScanState
      <4>2. t.loops \in Seq(SUBSET Fn)
        BY <1>12 DEF ScanState, ScanCore
      <4>3. QED
        BY <4>1, <4>2
    <3>3. Len(t.loops) <= Len(s.loops) + 1
      BY <1>11, <1>12
    <3>4. t.turns = s.turns + 1 /\ Len(t.list) = Len(s.list) /\ m \in Nat
      BY <1>12
    <3>5. s.turns <= 2 * (Len(s.list) + m) /\ Len(t.loops) <= 1
      BY <3>1, <3>2, <3>3
    <3>6. ASSUME NEW a \in Nat, NEW b \in Nat, NEW c \in Nat, a <= 2 * (b + m), c <= 1
          PROVE  (a + 1) + c <= 2 * (b + (m + 1))
      BY <3>4, <3>6
    <3>7. QED
      BY <3>2, <3>4, <3>5, <3>6
  <2>6. QED
    BY <2>2, <2>3, <2>4, <2>5 DEF Started
<1>14. \A i \in DOMAIN t.list : t.list[i].sec # None => t.list[i].sec \in t.busmap
  BY <1>12 DEF ScanInv
<1>15. m + 1 \in 0 .. Len(t.from)
  BY <1>8, <1>12
<1>16. ScanInv(t)
  BY <1>12, <1>13, <1>14, <1>15 DEF ScanInv
<1>17. QED
  BY <1>12, <1>16 DEF t, u

\* A loop that is done.
LEMMA ReturnTurn ==
  ASSUME NEW s, ScanInv(s), s.loops # <<>>, Head(s.loops) = {}
  PROVE  ScanInv(Counted(ScanReturn(s))) /\ Counted(ScanReturn(s)).fns = s.fns
<1> DEFINE u == ScanReturn(s)
           t == Counted(u)
<1>1. PICK m \in 0 .. Len(s.from) : Started(s, m)
  BY DEF ScanInv
<1>2. s \in ScanState /\ s.loops \in Seq(SUBSET Fn) /\ s.turns \in Nat /\ s.list \in Seq(Fn)
  BY DEF ScanInv, ScanCore, ScanState
<1>3. Tail(s.loops) \in Seq(SUBSET Fn) /\ Len(s.loops) >= 1 /\ s.loops[1] = {}
  BY <1>2
<1>4. u \in ScanState
  BY <1>2, <1>3 DEF ScanState, ScanReturn
<1>5. /\ u.fns = s.fns /\ u.from = s.from /\ u.roots = s.roots /\ u.list = s.list
      /\ u.turns = s.turns /\ u.busmap = s.busmap /\ u.loops = Tail(s.loops)
  BY <1>2 DEF ScanState, ScanReturn
<1> HIDE DEF u
<1>6. \A f : Seen(u, f) <=> Seen(s, f)
  BY <1>5 DEF Seen
<1>7. Len(u.loops) = Len(s.loops) - 1
  BY <1>2, <1>3, <1>5
<1>8. \A k \in DOMAIN u.loops : k + 1 \in DOMAIN s.loops /\ u.loops[k] = s.loops[k + 1] /\ k \in Nat
  BY <1>2, <1>3, <1>5
<1>9. \A k \in DOMAIN s.loops : \A f \in s.loops[k] : \E l \in DOMAIN u.loops : k = l + 1 /\ f \in u.loops[l]
  <2>1. SUFFICES ASSUME NEW k \in DOMAIN s.loops, NEW f \in s.loops[k]
                 PROVE  \E l \in DOMAIN u.loops : k = l + 1 /\ f \in u.loops[l]
    OBVIOUS
  <2>2. k # 1
    BY <1>3, <2>1
  <2>3. k - 1 \in DOMAIN u.loops /\ k = (k - 1) + 1
    BY <1>2, <1>3, <1>5, <2>2
  <2>4. PICK l \in DOMAIN u.loops : k = l + 1
    BY <2>3
  <2>5. QED
    BY <2>1, <2>4, <1>8
<1>10. ScanCore(u)
  <2>1. ASSUME NEW k \in DOMAIN u.loops, NEW f \in u.loops[k]
        PROVE  /\ Seen(u, f)
               /\ \A l \in DOMAIN u.loops : f \in u.loops[l] => l = k
               /\ \A i \in DOMAIN u.list : u.list[i] # f
    <3>1. k + 1 \in DOMAIN s.loops /\ f \in s.loops[k + 1]
      BY <1>8, <2>1
    <3>2. /\ Seen(s, f)
          /\ \A l \in DOMAIN s.loops : f \in s.loops[l] => l = k + 1
          /\ \A i \in DOMAIN s.list : s.list[i] # f
      BY <3>1 DEF ScanInv, ScanCore
    <3>3. \A l \in DOMAIN u.loops : f \in u.loops[l] => l = k
      <4>1. \A l \in DOMAIN u.loops : f \in u.loops[l] => l + 1 = k + 1
        BY <1>8, <3>2
      <4>2. QED
        BY <4>1, <1>8
    <3>4. QED
      BY <3>2, <3>3, <1>5, <1>6
  <2>2. ASSUME NEW i \in DOMAIN u.list
        PROVE  Seen(u, u.list[i]) /\ \A j \in DOMAIN u.list : u.list[i] = u.list[j] => i = j
    BY <1>5, <1>6 DEF ScanInv, ScanCore
  <2>3. ASSUME NEW b \in u.busmap, NEW f \in Visible(u.fns, b)
        PROVE  (\E i \in DOMAIN u.list : u.list[i] = f) \/ (\E k \in DOMAIN u.loops : f \in u.loops[k])
    <3>1. (\E i \in DOMAIN s.list : s.list[i] = f) \/ (\E k \in DOMAIN s.loops : f \in s.loops[k])
      BY <1>5 DEF ScanInv, ScanCore
    <3>2. QED
      BY <1>5, <1>9, <3>1
  <2>4. u.busmap \subseteq Reachable(u.fns, u.from)
    BY <1>5 DEF ScanInv, ScanCore
  <2>5. QED
    BY <1>4, <2>1, <2>2, <2>3, <2>4 DEF ScanCore
<1> HIDE DEF t
<1>11. /\ ScanCore(t)
       /\ t.fns = s.fns /\ t.from = s.from /\ t.roots = s.roots /\ t.list = s.list
       /\ t.turns = s.turns + 1 /\ t.busmap = s.busmap /\ t.loops = u.loops
  BY <1>5, <1>10, CountedScan DEF t
<1>12. t.turns + Len(t.loops) <= 2 * (Len(t.list) + m)
  <2>1. Len(s.loops) \in Nat /\ Len(s.list) \in Nat
    BY <1>2
  <2>2. s.turns + Len(s.loops) <= 2 * (Len(s.list) + m)
    BY <1>1 DEF Started
  <2>3. QED
    BY <1>2, <1>7, <1>11, <2>1, <2>2
<1>13. Started(t, m) /\ m \in 0 .. Len(t.from)
  BY <1>1, <1>11, <1>12 DEF Started
<1>14. \A i \in DOMAIN t.list : t.list[i].sec # None => t.list[i].sec \in t.busmap
  BY <1>11 DEF ScanInv
<1>15. ScanInv(t)
  BY <1>11, <1>13, <1>14 DEF ScanInv
<1>16. QED
  BY <1>11, <1>15 DEF t, u

\* Linking a function takes it out of the loops.
Linked(s) ==
  [s EXCEPT !.list = Append(@, Earliest(Head(s.loops))), !.loops[1] = @ \ {Earliest(Head(s.loops))}]

\* Linking a function into the list keeps the core of the invariant.
LEMMA LinkKeeps ==
  ASSUME NEW s, ScanCore(s), s.loops # <<>>, Head(s.loops) # {}
  PROVE  LET p == Linked(s)
             f == Earliest(Head(s.loops))
         IN  /\ ScanCore(p)
             /\ p.fns = s.fns /\ p.from = s.from /\ p.roots = s.roots /\ p.turns = s.turns
             /\ p.busmap = s.busmap /\ p.list = Append(s.list, f) /\ Len(p.loops) = Len(s.loops)
             /\ f \in Fn /\ Seen(s, f)
<1> DEFINE p == Linked(s)
           f == Earliest(Head(s.loops))
           loops == [s.loops EXCEPT ![1] = @ \ {f}]
           list == Append(s.list, f)
<1>1. s \in ScanState /\ s.loops \in Seq(SUBSET Fn) /\ s.list \in Seq(Fn)
  BY DEF ScanCore, ScanState
<1>2. 1 \in DOMAIN s.loops /\ Head(s.loops) = s.loops[1] /\ s.loops[1] \in SUBSET Fn
  BY <1>1
<1>3. f \in s.loops[1]
  BY <1>2, EarliestThere
<1>4. f \in Fn /\ Seen(s, f)
  BY <1>2, <1>3 DEF ScanCore
<1> HIDE DEF f
<1>5. loops \in Seq(SUBSET Fn) /\ Len(loops) = Len(s.loops) /\ DOMAIN loops = DOMAIN s.loops
  BY <1>1, <1>2
<1>6. loops[1] = s.loops[1] \ {f} /\ \A k \in DOMAIN s.loops : k # 1 => loops[k] = s.loops[k]
  BY <1>1, <1>2
<1>7. list \in Seq(Fn) /\ Len(list) = Len(s.list) + 1
  BY <1>1, <1>4
<1>8. list[Len(s.list) + 1] = f /\ \A i \in DOMAIN s.list : list[i] = s.list[i] /\ i \in DOMAIN list
  BY <1>1, <1>4
<1>9. \A i \in DOMAIN list : i \in DOMAIN s.list \/ i = Len(s.list) + 1
  BY <1>1, <1>7
<1>10. p = [s EXCEPT !.list = list, !.loops = loops]
  BY <1>1, <1>2 DEF Linked, f, ScanState
<1>11. Len(s.list) + 1 \in DOMAIN list /\ Len(s.list) + 1 \notin DOMAIN s.list
  BY <1>1, <1>7
<1> HIDE DEF p, loops, list
<1>12. p \in ScanState
  BY <1>1, <1>5, <1>7, <1>10 DEF ScanState
<1>13. /\ p.fns = s.fns /\ p.from = s.from /\ p.roots = s.roots /\ p.list = list
       /\ p.turns = s.turns /\ p.busmap = s.busmap /\ p.loops = loops
  BY <1>1, <1>10 DEF ScanState
<1>14. \A g : Seen(p, g) <=> Seen(s, g)
  BY <1>13 DEF Seen
<1>15. \A k \in DOMAIN loops : \A g \in loops[k] : g \in s.loops[k] /\ g # f
  <2>1. \A l \in DOMAIN s.loops : f \in s.loops[l] => l = 1
    BY <1>2, <1>3 DEF ScanCore
  <2>2. QED
    BY <2>1, <1>2, <1>5, <1>6
<1>16. ASSUME NEW k \in DOMAIN loops, NEW g \in loops[k]
       PROVE  /\ Seen(s, g)
              /\ \A l \in DOMAIN loops : g \in loops[l] => l = k
              /\ \A i \in DOMAIN list : list[i] # g
  <2>1. k \in DOMAIN s.loops /\ g \in s.loops[k] /\ g # f
    BY <1>5, <1>15, <1>16
  <2>2. /\ Seen(s, g)
        /\ \A l \in DOMAIN s.loops : g \in s.loops[l] => l = k
        /\ \A i \in DOMAIN s.list : s.list[i] # g
    BY <2>1 DEF ScanCore
  <2>3. \A l \in DOMAIN loops : g \in loops[l] => l = k
    BY <1>5, <1>15, <2>2
  <2>4. \A i \in DOMAIN list : list[i] # g
    BY <1>8, <1>9, <2>1, <2>2
  <2>5. QED
    BY <2>2, <2>3, <2>4
<1>17. ASSUME NEW i \in DOMAIN list
       PROVE  Seen(s, list[i]) /\ \A j \in DOMAIN list : list[i] = list[j] => i = j
  <2>1. \A j \in DOMAIN s.list : s.list[j] # f
    BY <1>2, <1>3 DEF ScanCore
  <2>2. CASE i \in DOMAIN s.list
    <3>1. list[i] = s.list[i] /\ Seen(s, s.list[i])
      BY <1>8, <2>2 DEF ScanCore
    <3>2. \A j \in DOMAIN s.list : s.list[i] = s.list[j] => i = j
      BY <2>2 DEF ScanCore
    <3>3. QED
      BY <1>8, <1>9, <2>1, <2>2, <3>1, <3>2
  <2>3. CASE i = Len(s.list) + 1
    BY <1>4, <1>8, <1>9, <2>1, <2>3
  <2>4. QED
    BY <1>9, <2>2, <2>3
<1>18. ASSUME NEW b \in s.busmap, NEW g \in Visible(s.fns, b)
       PROVE  (\E i \in DOMAIN list : list[i] = g) \/ (\E k \in DOMAIN loops : g \in loops[k])
  <2>1. (\E i \in DOMAIN s.list : s.list[i] = g) \/ (\E k \in DOMAIN s.loops : g \in s.loops[k])
    BY DEF ScanCore
  <2>2. \A k \in DOMAIN s.loops : g \in s.loops[k] => g = f \/ g \in loops[k]
    BY <1>2, <1>6
  <2>3. QED
    BY <1>5, <1>8, <1>11, <2>1, <2>2
<1>19. s.busmap \subseteq Reachable(s.fns, s.from)
  BY DEF ScanCore
<1>20. ScanCore(p)
  BY <1>12, <1>13, <1>14, <1>16, <1>17, <1>18, <1>19 DEF ScanCore
<1>21. QED
  BY <1>4, <1>5, <1>13, <1>20 DEF p, f, list

\* A turn of the loops.
LEMMA FunctionTurn ==
  ASSUME NEW s, ScanInv(s), s.loops # <<>>, Head(s.loops) # {}
  PROVE  ScanInv(Counted(ScanFunction(s))) /\ Counted(ScanFunction(s)).fns = s.fns
<1> DEFINE f == Earliest(Head(s.loops))
           p == Linked(s)
           u == ScanFunction(s)
           t == Counted(u)
<1>1. PICK m \in 0 .. Len(s.from) : Started(s, m)
  BY DEF ScanInv
<1>2. ScanCore(s) /\ s \in ScanState /\ s.list \in Seq(Fn) /\ s.turns \in Nat /\ Len(s.loops) \in Nat
  <2>1. ScanCore(s) /\ s \in ScanState
    BY DEF ScanInv, ScanCore
  <2>2. s.list \in Seq(Fn) /\ s.turns \in Nat /\ s.loops \in Seq(SUBSET Fn)
    BY <2>1 DEF ScanState
  <2>3. Len(s.loops) \in Nat
    BY <2>2
  <2>4. QED
    BY <2>1, <2>2, <2>3
<1>3. /\ ScanCore(p)
      /\ p.fns = s.fns /\ p.from = s.from /\ p.roots = s.roots /\ p.turns = s.turns
      /\ p.busmap = s.busmap /\ p.list = Append(s.list, f) /\ Len(p.loops) = Len(s.loops)
      /\ f \in Fn /\ Seen(s, f)
  BY <1>2, LinkKeeps
<1>4. u = IF f.sec = None THEN p ELSE ScanBus(p, f.sec)
  BY DEF ScanFunction, Linked
<1> HIDE DEF p, u, f
<1>5. /\ ScanCore(u)
      /\ u.fns = s.fns /\ u.from = s.from /\ u.roots = s.roots /\ u.turns = s.turns
      /\ u.list = Append(s.list, f) /\ Len(u.loops) <= Len(s.loops) + 1
      /\ s.busmap \subseteq u.busmap /\ (f.sec # None => f.sec \in u.busmap)
  <2>1. CASE f.sec = None
    BY <1>2, <1>3, <1>4, <2>1
  <2>2. CASE f.sec # None
    <3>1. f.sec \in Nat
      BY <1>3, <2>2 DEF Fn
    <3>2. f.bus \in Reachable(p.fns, p.from) /\ f \in Visible(p.fns, f.bus)
      BY <1>3 DEF Seen, ScanCore
    <3>3. f.sec \in Reachable(p.fns, p.from)
      BY <2>2, <3>2, BehindReached
    <3>4. /\ ScanCore(u)
          /\ u.fns = p.fns /\ u.from = p.from /\ u.roots = p.roots /\ u.turns = p.turns
          /\ u.list = p.list /\ Len(u.loops) <= Len(p.loops) + 1 /\ u.busmap = p.busmap \cup {f.sec}
      <4>1. BusScanned(p, f.sec, ScanBus(p, f.sec))
        BY <1>3, <3>1, <3>3, ScanBusKeeps
      <4>2. BusScanned(p, f.sec, u)
        BY <1>4, <2>2, <4>1
      <4>3. QED
        BY <4>2 DEF BusScanned
    <3>5. QED
      BY <1>3, <3>4
  <2>3. QED
    BY <2>1, <2>2
<1> HIDE DEF t
<1>6. /\ ScanCore(t)
      /\ t.fns = s.fns /\ t.from = s.from /\ t.roots = s.roots /\ t.list = Append(s.list, f)
      /\ t.turns = s.turns + 1 /\ t.busmap = u.busmap /\ t.loops = u.loops
  BY <1>5, CountedScan DEF t
<1>7. Started(t, m)
  <2>1. t.turns + Len(t.loops) <= 2 * (Len(t.list) + m)
    <3>1. s.turns + Len(s.loops) <= 2 * (Len(s.list) + m)
      BY <1>1 DEF Started
    <3>2. Len(t.list) = Len(s.list) + 1 /\ Len(s.list) \in Nat
      BY <1>2, <1>3, <1>6
    <3>3. t.loops \in Seq(SUBSET Fn)
      BY <1>6 DEF ScanCore, ScanState
    <3>4. Len(t.loops) \in Nat /\ Len(t.loops) <= Len(s.loops) + 1 /\ t.turns = s.turns + 1
      BY <3>3, <1>5, <1>6
    <3>5. ASSUME NEW a \in Nat, NEW b \in Nat, NEW c \in Nat, NEW d \in Nat,
                 a + c <= 2 * (b + m), d <= c + 1
          PROVE  (a + 1) + d <= 2 * ((b + 1) + m)
      BY <1>1, <3>5
    <3>6. (s.turns + 1) + Len(t.loops) <= 2 * ((Len(s.list) + 1) + m)
      BY <1>2, <3>1, <3>2, <3>4, <3>5
    <3>7. QED
      BY <3>2, <3>4, <3>6
  <2>2. \A i \in 1 .. m : t.from[i] \in t.busmap
    BY <1>1, <1>5, <1>6 DEF Started
  <2>3. QED
    BY <1>1, <1>6, <2>1, <2>2 DEF Started
<1>8. ASSUME NEW i \in DOMAIN t.list, t.list[i].sec # None
      PROVE  t.list[i].sec \in t.busmap
  <2>1. i \in DOMAIN s.list \/ i = Len(s.list) + 1
    BY <1>2, <1>3, <1>6
  <2>2. CASE i \in DOMAIN s.list
    <3>1. t.list[i] = s.list[i]
      BY <1>2, <1>3, <1>6, <2>2
    <3>2. QED
      BY <3>1, <2>2, <1>5, <1>6, <1>8 DEF ScanInv
  <2>3. CASE i = Len(s.list) + 1
    <3>1. t.list[i] = f
      BY <1>2, <1>3, <1>6, <2>3
    <3>2. QED
      BY <3>1, <1>5, <1>6, <1>8
  <2>4. QED
    BY <2>1, <2>2, <2>3
<1>9. ScanInv(t)
  BY <1>1, <1>6, <1>7, <1>8 DEF ScanInv
<1>10. QED
  BY <1>6, <1>9 DEF t, u

\* A scan begins well.
LEMMA ScanBegins ==
  ASSUME NEW fns \in SUBSET Fn, NEW roots \in Seq(Nat)
  PROVE  ScanInv([fn |-> "scan", fns |-> fns, from |-> roots, roots |-> roots, busmap |-> {},
                  list |-> <<>>, loops |-> <<>>, turns |-> 0])
<1> DEFINE s == [fn |-> "scan", fns |-> fns, from |-> roots, roots |-> roots, busmap |-> {},
                 list |-> <<>>, loops |-> <<>>, turns |-> 0]
<1>1. s \in ScanState
  BY DEF ScanState
<1>2. s.busmap = {} /\ s.list = <<>> /\ s.loops = <<>> /\ s.roots = roots /\ s.from = roots /\ s.turns = 0
  OBVIOUS
<1> HIDE DEF s
<1>3. ScanCore(s)
  BY <1>1, <1>2 DEF ScanCore
<1>4. Started(s, 0)
  BY <1>2 DEF Started
<1>5. 0 \in 0 .. Len(s.from)
  BY <1>2
<1>6. ScanInv(s)
  BY <1>2, <1>3, <1>4, <1>5 DEF ScanInv
<1>7. QED
  BY <1>6 DEF s

\* A scan that is over has linked what can be reached, and every scan is over
\* soon.
LEMMA ScanIsRight ==
  ASSUME NEW s, ScanInv(s), IsFiniteSet(s.fns)
  PROVE  /\ IsInjective(s.list)
         /\ s.turns <= 2 * (Len(s.from) + Cardinality(s.fns))
         /\ s.loops = <<>> /\ s.roots = <<>> =>
              ToSet(s.list) = UNION {Visible(s.fns, b) : b \in Reachable(s.fns, s.from)}
<1>1. PICK m \in 0 .. Len(s.from) : Started(s, m)
  BY DEF ScanInv
<1>2. s \in ScanState /\ s.list \in Seq(Fn) /\ s.turns \in Nat /\ Len(s.loops) \in Nat /\ s.from \in Seq(Nat)
  BY DEF ScanInv, ScanCore, ScanState
<1>3. \A i, j \in DOMAIN s.list : s.list[i] = s.list[j] => i = j
  BY DEF ScanInv, ScanCore
<1>4. \A i \in DOMAIN s.list : Seen(s, s.list[i]) /\ s.list[i] \in s.fns
  BY DEF ScanInv, ScanCore, Seen, Visible
<1>5. IsInjective(s.list)
  BY <1>3 DEF IsInjective
<1>6. Len(s.list) <= Cardinality(s.fns)
  <2>1. s.list \in Injection(1 .. Len(s.list), s.fns)
    <3>1. s.list \in [1 .. Len(s.list) -> s.fns]
      BY <1>2, <1>4
    <3>2. QED
      BY <1>3, <3>1 DEF Injection, IsInjective
  <2>2. Len(s.list) \in Nat
    BY <1>2
  <2>3. IsFiniteSet(1 .. Len(s.list)) /\ Cardinality(1 .. Len(s.list)) = Len(s.list)
    <3>1. ASSUME NEW n \in Nat
          PROVE  IsFiniteSet(1 .. n) /\ Cardinality(1 .. n) = n
      <4>1. IsFiniteSet(1 .. n) /\ Cardinality(1 .. n) = IF 1 > n THEN 0 ELSE n - 1 + 1
        BY FS_Interval
      <4>2. QED
        BY <4>1
    <3>2. QED
      BY <2>2, <3>1
  <2> DEFINE I == 1 .. Len(s.list)
             F == s.fns
  <2>4. IsFiniteSet(I) /\ IsFiniteSet(F) /\ s.list \in Injection(I, F)
    BY <2>1, <2>3
  <2> HIDE DEF I, F
  <2>5. Cardinality(I) <= Cardinality(F)
    BY <2>4, FS_Injection
  <2>6. QED
    BY <2>3, <2>5 DEF I, F
<1>7. s.turns <= 2 * (Len(s.from) + Cardinality(s.fns))
  <2>1. s.turns + Len(s.loops) <= 2 * (Len(s.list) + m)
    BY <1>1 DEF Started
  <2>2. Cardinality(s.fns) \in Nat
    BY FS_CardinalityType
  <2>3. Len(s.list) \in Nat /\ Len(s.from) \in Nat
    BY <1>2
  <2>4. QED
    <3>1. ASSUME NEW a \in Nat, NEW b \in Nat, NEW c \in Nat, NEW d \in Nat, NEW e \in Nat, NEW g \in Nat,
                 a + b <= 2 * (c + e), c <= d, e <= g
          PROVE  a <= 2 * (g + d)
      BY <3>1
    <3>2. m \in Nat /\ m <= Len(s.from)
      BY <2>3
    <3>3. QED
      BY <1>2, <1>6, <2>1, <2>2, <2>3, <3>1, <3>2
<1>8. ASSUME s.loops = <<>>, s.roots = <<>>
      PROVE  ToSet(s.list) = UNION {Visible(s.fns, b) : b \in Reachable(s.fns, s.from)}
  <2>1. m = Len(s.from)
    BY <1>1, <1>2, <1>8 DEF Started
  <2>2. ToSet(s.from) \subseteq s.busmap
    BY <1>1, <1>2, <2>1 DEF Started, ToSet
  <2>3. \A c \in s.busmap : \A f \in Visible(s.fns, c) : \E i \in DOMAIN s.list : s.list[i] = f
    BY <1>8 DEF ScanInv, ScanCore
  <2>4. \A c \in s.busmap : \A f \in Visible(s.fns, c) : f.sec # None => f.sec \in s.busmap
    BY <2>3 DEF ScanInv
  <2>5. s.busmap \subseteq Reachable(s.fns, s.from)
    BY DEF ScanInv, ScanCore
  <2>6. s.busmap \subseteq Buses(s.fns, s.from)
    BY <2>5 DEF Reachable
  <2>7. Reachable(s.fns, s.from) = s.busmap
    BY <2>2, <2>4, <2>5, <2>6, ReachedLeast
  <2>8. ASSUME NEW f \in ToSet(s.list)
        PROVE  f \in UNION {Visible(s.fns, b) : b \in s.busmap}
    BY <1>4 DEF ToSet, Seen
  <2>9. ASSUME NEW f \in UNION {Visible(s.fns, b) : b \in s.busmap}
        PROVE  f \in ToSet(s.list)
    BY <2>3 DEF ToSet
  <2>10. QED
    BY <2>7, <2>8, <2>9
<1>9. QED
  BY <1>5, <1>7, <1>8

\* Every scan is as it should be.
Scans ==
  "fn" \in DOMAIN call /\ (call.fn = "scan" => call.fns \in Topologies /\ ScanInv(call))

\* What is no scan says nothing of one.
LEMMA NoScan ==
  ASSUME Call, ~BusScan
  PROVE  "fn" \in DOMAIN call' /\ call'.fn # "scan"
<1>1. CASE SlotFilter \/ IdFilter
  <2>1. CASE SlotFilter
    BY <2>1 DEF SlotFilter
  <2>2. CASE IdFilter
    BY <2>2 DEF IdFilter
  <2>3. QED
    BY <1>1, <2>1, <2>2
<1>2. CASE PortFilter \/ BlockTransfer
  <2>1. CASE PortFilter
    BY <2>1 DEF PortFilter
  <2>2. CASE BlockTransfer
    BY <2>2 DEF BlockTransfer
  <2>3. QED
    BY <1>2, <2>1, <2>2
<1>3. CASE FillBases \/ OpParse
  <2>1. CASE FillBases
    BY <2>1 DEF FillBases
  <2>2. CASE OpParse
    BY <2>2 DEF OpParse
  <2>3. QED
    BY <1>3, <2>1, <2>2
<1>4. CASE OpExec \/ SetpciRun
  <2>1. CASE OpExec
    BY <2>1 DEF OpExec
  <2>2. CASE SetpciRun
    BY <2>2 DEF SetpciRun
  <2>3. QED
    BY <1>4, <2>1, <2>2
<1>5. CASE MapTheBus \/ VpdRun
  <2>1. CASE MapTheBus
    BY <2>1 DEF MapTheBus
  <2>2. CASE VpdRun
    BY <2>2 DEF VpdRun
  <2>3. QED
    BY <1>5, <2>1, <2>2
<1>6. QED
  BY <1>1, <1>2, <1>3, <1>4, <1>5 DEF Call

\* It stays so.
LEMMA AlwaysScans == Spec => []Scans
<1>1. Init => Scans
  BY DEF Init, NoCall, Scans
<1>2. Scans /\ [Next]_call => Scans'
  <2>1. SUFFICES ASSUME Scans, [Next]_call
                 PROVE  Scans'
    OBVIOUS
  <2>2. CASE BusScan
    <3>1. PICK fns \in Topologies, roots \in Roots :
            call' = [fn |-> "scan", fns |-> fns, from |-> roots, roots |-> roots, busmap |-> {},
                     list |-> <<>>, loops |-> <<>>, turns |-> 0]
      BY <2>2 DEF BusScan
    <3>2. fns \in SUBSET Fn
      BY TopologiesAssumption DEF Fn
    <3>3. roots \in Seq(Nat)
      BY RootsAssumption
    <3>4. ScanInv(call')
      BY <3>1, <3>2, <3>3, ScanBegins
    <3>5. "fn" \in DOMAIN call' /\ call'.fns = fns
      BY <3>1
    <3>6. QED
      BY <3>4, <3>5 DEF Scans
  <2>3. CASE Call /\ ~BusScan
    BY <2>3, NoScan DEF Scans
  <2>4. CASE ScanTurn
    <3>1. "fn" \in DOMAIN call' /\ call.fn = "scan" /\ ScanInv(call) /\ call.fns \in Topologies
      BY <2>1, <2>4, TurnsKeepCall DEF Scans
    <3>2. CASE call.loops = <<>> /\ call.roots # <<>> /\ call' = Counted(ScanRoot(call))
      BY <3>1, <3>2, RootTurn DEF Scans
    <3>3. CASE call.loops # <<>> /\ Head(call.loops) # {} /\ call' = Counted(ScanFunction(call))
      BY <3>1, <3>3, FunctionTurn DEF Scans
    <3>4. CASE call.loops # <<>> /\ Head(call.loops) = {} /\ call' = Counted(ScanReturn(call))
      BY <3>1, <3>4, ReturnTurn DEF Scans
    <3>5. QED
      BY <2>4, <3>2, <3>3, <3>4 DEF ScanTurn
  <2>5. CASE MapTurn \/ MapPrint \/ VpdTurn
    <3>1. "fn" \in DOMAIN call' /\ call'.fn \in {"map", "mapped", "vpd"}
      BY <2>1, <2>5, TurnsKeepCall, PrintMaps DEF Scans
    <3>2. QED
      BY <3>1 DEF Scans
  <2>6. CASE call' = call
    BY <2>1, <2>6 DEF Scans
  <2>7. QED
    BY <2>1, <2>2, <2>3, <2>4, <2>5, <2>6 DEF Next
<1>3. QED
  BY <1>1, <1>2, PTL DEF Spec

\* The generic scan ends, of any machine, and lists every function on a bus that
\* can be reached, once; and it gives the addresses of a function to their
\* registers.
THEOREM ScanExact == Spec => []GenericScanIsExact
<1>1. Scans => ScanListsReachableOnce
  <2>1. SUFFICES ASSUME Scans, call.fn = "scan"
                 PROVE  ScanListsReachableOnce
    BY DEF ScanListsReachableOnce
  <2>2. ScanInv(call) /\ IsFiniteSet(call.fns)
    BY <2>1, TopologiesAssumption DEF Scans
  <2>3. /\ IsInjective(call.list)
        /\ call.turns <= 2 * (Len(call.from) + Cardinality(call.fns))
        /\ call.loops = <<>> /\ call.roots = <<>> =>
             ToSet(call.list) = UNION {Visible(call.fns, b) : b \in Reachable(call.fns, call.from)}
    BY <2>2, ScanIsRight
  <2>4. QED
    BY <2>3, Zenon DEF ScanListsReachableOnce, ScanEnded
<1>2. Scans /\ AddressesTakeTheirRegisters => GenericScanIsExact
  BY <1>1 DEF GenericScanIsExact
<1>3. QED
  BY <1>2, AlwaysScans, AddressesExact, PTL

(***************************************************************************)
(* The bus map.                                                            *)
(***************************************************************************)

\* A function of the machine whose buses are mapped.
MapFn ==
  [bus : 0 .. LastBus, dev : Nat, fn : Nat, multi : BOOLEAN,
   sec : (0 .. LastBus) \cup {None}, sub : (0 .. LastBus) \cup {None}]

\* What a machine may be.
Machine ==
  {fns \in SUBSET MapFn : IsFiniteSet(fns) /\ \A f \in fns : f.sec # None => f.sub # None}

\* A bridge, as the map keeps it.
Link == [bus : 0 .. LastBus, dev : Nat, fn : Nat, first : 0 .. LastBus, last : 0 .. LastBus]

\* Bridges and their buses are of the machine.
LEMMA LinkTyped ==
  ASSUME NEW fns \in Machine, NEW bus, NEW b \in BridgesOn(fns, bus)
  PROVE  b \in Link /\ b.bus = bus /\ Exists(fns, bus) /\ b \in AllBridges(fns) /\ b \in {Bridge(f) : f \in fns}
<1>1. PICK f \in Visible(fns, bus) : f.sec # None /\ b = Bridge(f)
  BY DEF BridgesOn
<1>2. f \in fns /\ f.bus = bus
  BY <1>1 DEF Visible
<1>3. f \in MapFn /\ f.sub # None
  BY <1>1, <1>2 DEF Machine
<1>4. f.bus \in 0 .. LastBus /\ f.sec \in 0 .. LastBus /\ f.sub \in 0 .. LastBus /\ f.dev \in Nat /\ f.fn \in Nat
  BY <1>1, <1>3 DEF MapFn
<1>5. b \in Link /\ b.bus = bus
  BY <1>1, <1>2, <1>4 DEF Bridge, Link
<1>6. Exists(fns, bus)
  BY <1>1 DEF Exists
<1>7. b \in AllBridges(fns)
  BY <1>2, <1>4 DEF AllBridges
<1>8. QED
  BY <1>1, <1>2, <1>5, <1>6, <1>7

\* A bridge comes from a function on its bus.
LEMMA BridgeTyped ==
  ASSUME NEW fns \in Machine, NEW b \in AllBridges(fns)
  PROVE  b \in Link /\ b \in BridgesOn(fns, b.bus) /\ Exists(fns, b.bus) /\ b \in {Bridge(f) : f \in fns}
<1>1. PICK bus \in 0 .. LastBus : b \in BridgesOn(fns, bus)
  BY DEF AllBridges
<1>2. QED
  BY <1>1, LinkTyped

\* There are finitely many.
LEMMA BridgesFinite ==
  ASSUME NEW fns \in Machine
  PROVE  IsFiniteSet(AllBridges(fns)) /\ Cardinality(AllBridges(fns)) \in Nat
<1> DEFINE I == {Bridge(f) : f \in fns}
           g == [f \in fns |-> Bridge(f)]
<1>1. IsFiniteSet(fns)
  BY DEF Machine
<1>2. g \in Surjection(fns, I)
  BY DEF Surjection
<1> HIDE DEF g
<1>3. IsFiniteSet(I)
  <2> HIDE DEF I
  <2>1. QED
    BY <1>1, <1>2, FS_Surjection
<1>4. AllBridges(fns) \in SUBSET I
  BY BridgeTyped
<1> HIDE DEF I
<1>5. IsFiniteSet(AllBridges(fns))
  BY <1>3, <1>4, FS_Subset
<1>6. QED
  BY <1>5, FS_CardinalityType

\* A finite set of numbers has a greatest one.
LEMMA GreatestElement ==
  ASSUME NEW T, T \subseteq Nat, T # {}, IsFiniteSet(T)
  PROVE  \E x \in T : \A y \in T : y <= x
<1> DEFINE n == Cardinality(T)
<1>1. n \in Nat /\ ExistsBijection(1 .. n, T)
  BY FS_CardinalityType
<1> HIDE DEF n
<1>2. PICK f : f \in [1 .. n -> T] /\ \A t \in T : \E i \in 1 .. n : f[i] = t
  BY <1>1 DEF ExistsBijection, Bijection, Surjection
<1> DEFINE S == {i \in 0 .. n : i > 0 => \E x \in T : \A j \in 1 .. i : f[j] <= x}
<1>3. 0 \in S
  BY <1>1
<1>4. ASSUME NEW i \in 1 .. n, i - 1 \in S
      PROVE  i \in S
  <2>1. f[i] \in T /\ f[i] \in Nat
    BY <1>2
  <2>2. CASE i = 1
    <3>1. \A j \in 1 .. i : f[j] <= f[i]
      BY <2>1, <2>2
    <3>2. QED
      BY <2>1, <3>1
  <2>3. CASE i > 1
    <3>1. PICK x \in T : \A j \in 1 .. i - 1 : f[j] <= x
      BY <1>4, <2>3
    <3>2. x \in Nat /\ \A j \in 1 .. i : f[j] \in Nat /\ (j = i \/ j \in 1 .. i - 1)
      <4>1. \A j \in 1 .. i : j \in 1 .. n /\ (j = i \/ j \in 1 .. i - 1)
        BY <1>1
      <4>2. \A j \in 1 .. n : f[j] \in Nat
        BY <1>2
      <4>3. QED
        BY <4>1, <4>2, <3>1
    <3>3. CASE f[i] <= x
      BY <3>1, <3>2, <3>3
    <3>4. CASE ~(f[i] <= x)
      <4>1. \A j \in 1 .. i : f[j] <= f[i]
        <5>1. SUFFICES ASSUME NEW j \in 1 .. i
                       PROVE  f[j] <= f[i]
          OBVIOUS
        <5>2. f[j] \in Nat /\ (j = i \/ f[j] <= x)
          BY <3>1, <3>2
        <5>3. QED
          BY <2>1, <3>2, <3>4, <5>2
      <4>2. QED
        BY <2>1, <4>1
    <3>5. QED
      BY <3>3, <3>4
  <2>4. QED
    BY <2>2, <2>3
<1>5. n \in S
  <2> HIDE DEF S
  <2>1. 0 .. n \subseteq S
    BY <1>1, <1>3, <1>4, UpToInduct
  <2>2. QED
    BY <1>1, <2>1
<1>6. n > 0
  <2>1. PICK t \in T : TRUE
    OBVIOUS
  <2>2. PICK i \in 1 .. n : f[i] = t
    BY <1>2
  <2>3. QED
    BY <1>1, <2>2
<1>7. PICK x \in T : \A j \in 1 .. n : f[j] <= x
  BY <1>5, <1>6
<1>8. QED
  BY <1>2, <1>7

\* There is a bridge that was found last.
LEMMA LatestThere ==
  ASSUME NEW S, S \subseteq Link, S # {}, IsFiniteSet(S)
  PROVE  Latest(S) \in S
<1> DEFINE D == {f.dev : f \in S}
           g == [f \in S |-> f.dev]
<1>1. D \subseteq Nat /\ D # {}
  BY DEF Link
<1>2. IsFiniteSet(D)
  <2>1. g \in Surjection(S, D)
    BY DEF Surjection
  <2> HIDE DEF g, D
  <2>2. QED
    BY <2>1, FS_Surjection
<1>3. PICK d \in D : \A y \in D : y <= d
  <2> HIDE DEF D
  <2>1. QED
    BY <1>1, <1>2, GreatestElement
<1> DEFINE H == {h \in S : h.dev = d}
           F == {h.fn : h \in H}
           e == [h \in H |-> h.fn]
<1>4. F \subseteq Nat /\ F # {}
  BY <1>3 DEF Link
<1>5. IsFiniteSet(F)
  <2>1. e \in Surjection(H, F)
    BY DEF Surjection
  <2>2. IsFiniteSet(H)
    <3>1. H \in SUBSET S
      OBVIOUS
    <3> HIDE DEF H
    <3>2. QED
      BY <3>1, FS_Subset
  <2> HIDE DEF e, F, H
  <2>3. QED
    BY <2>1, <2>2, FS_Surjection
<1>6. PICK n \in F : \A y \in F : y <= n
  <2> HIDE DEF F
  <2>1. QED
    BY <1>4, <1>5, GreatestElement
<1>7. PICK f \in S : f.dev = d /\ f.fn = n
  BY <1>6
<1>8. \A c \in S : ~Before(f, c)
  <2>1. SUFFICES ASSUME NEW c \in S, Before(f, c)
                 PROVE  FALSE
    OBVIOUS
  <2>2. c.dev <= d /\ c.dev \in Nat /\ c.fn \in Nat /\ f.dev \in Nat /\ f.fn \in Nat
    BY <1>3, <1>7 DEF Link
  <2>3. c.dev = d /\ n < c.fn
    BY <1>7, <2>1, <2>2 DEF Before
  <2>4. c.fn \in F
    BY <2>3
  <2>5. QED
    BY <1>6, <1>7, <2>2, <2>3, <2>4
<1>9. QED
  BY <1>8 DEF Latest

\* The loop over the bridges of a bus, and the range that was given to it.
Frame == [left : SUBSET Link, min : 0 .. LastBus, max : 0 .. LastBus]

\* The states of a walk of the buses.
MapState ==
  [fn : {"map"}, fns : Machine, bus : 0 .. LastBus + 1, guests : SUBSET (0 .. LastBus),
   via : SUBSET Link, bug : SUBSET (Link \X (1 .. 2)), loops : Seq(Frame), turns : Nat]

\* A bridge on the map or with a mark.
Settled(m, b) == b \in m.via \/ <<b, 1>> \in m.bug \/ <<b, 2>> \in m.bug

\* The range a bridge should be in is that of the bridge to its bus.
InFront(m, b, min, max) ==
  \/ min = 0 /\ max = LastBus /\ \A c \in m.via : c.first # b.bus
  \/ \E c \in m.via : c.first = b.bus /\ min = c.first /\ max = c.last

\* A bridge a loop is still to come to.
Waiting(m, b, k) ==
  /\ b \in AllBridges(m.fns) /\ b.bus \in m.guests
  /\ ~Settled(m, b)
  /\ \A l \in DOMAIN m.loops : b \in m.loops[l].left => l = k
  /\ InFront(m, b, m.loops[k].min, m.loops[k].max)

\* No bus is entered twice, ranges lie in one another, and no set of buses is led up to
\* by its own buses only.
Forest(via) ==
  /\ \A b, c \in via :
       /\ b.first = c.first => b = c
       /\ b.bus = c.first => c.first <= b.first /\ b.last <= c.last
  /\ ~\E S \in (SUBSET (0 .. LastBus)) \ {{}} :
        S \subseteq {b.bus : b \in {c \in via : c.first \in S}}

\* The parts of what holds between the turns of a map.
ViaRight(m) ==
  \A c \in m.via : c \in AllBridges(m.fns) /\ c.bus \in m.guests /\ <<c, 1>> \notin m.bug /\ <<c, 2>> \notin m.bug

\* A bridge has one mark at most, and that for leaving the range in front of it is right.
BugRight(m) ==
  /\ \A b \in Link : <<b, 1>> \in m.bug => b \in AllBridges(m.fns) /\ b.bus \in m.guests /\ <<b, 2>> \notin m.bug
  /\ \A b \in Link :
       <<b, 2>> \in m.bug =>
         /\ b \in AllBridges(m.fns) /\ b.bus \in m.guests
         /\ \E c \in m.via : c.first = b.bus /\ ~(c.first <= b.first /\ b.last <= c.last)

\* The bridges that are left in a loop wait for their turn there.
LoopsRight(m) == \A k \in DOMAIN m.loops : \A b \in m.loops[k].left : Waiting(m, b, k)

\* No bridge of a bus that was walked is forgotten.
AllPlaced(m) ==
  \A b \in AllBridges(m.fns) :
    b.bus \in m.guests => Settled(m, b) \/ \E k \in DOMAIN m.loops : b \in m.loops[k].left

\* A bus was entered by a bridge, or when the bridges below it were settled.
RootsRight(m) ==
  \A x \in m.guests :
    (\E c \in m.via : c.first = x) \/ \A b \in AllBridges(m.fns) : b.bus < x => Settled(m, b)

\* Of bridges that are set up well none is marked for an overlap.
NoOverlap(m) == SetUpWell(AllBridges(m.fns)) => \A b \in Link : <<b, 1>> \notin m.bug

\* What every step of a walk keeps.
MapCore(m) ==
  /\ m \in MapState
  /\ ViaRight(m) /\ BugRight(m) /\ LoopsRight(m) /\ AllPlaced(m)
  /\ Forest(m.via) /\ RootsRight(m) /\ NoOverlap(m)

\* The bridges that need no more turns.
SettledBridges(m) == {b \in AllBridges(m.fns) : Settled(m, b)}

\* The inductive invariant between turns: each turn settles a bridge, ends a loop or
\* goes on to the next bus, so their number is bounded.
MapInv(m) ==
  /\ MapCore(m)
  /\ \A c \in m.via : c.first \in m.guests
  /\ \A x \in 0 .. m.bus - 1 : Exists(m.fns, x) => x \in m.guests
  /\ m.turns + Len(m.loops) <= 2 * (m.bus + Cardinality(SettledBridges(m)))

\* A new bridge makes no cycle, as the bus behind it was not entered before.
LEMMA ForestGrows ==
  ASSUME NEW via, NEW guests, NEW b \in Link, Forest(via), via \subseteq Link,
         \A c \in via : c.first \in guests /\ c.bus \in guests,
         b.bus \in guests, b.first \notin guests,
         \A c \in via : c.first = b.bus => c.first <= b.first /\ b.last <= c.last
  PROVE  Forest(via \cup {b})
<1> DEFINE w == via \cup {b}
<1>1. ASSUME NEW c \in w, NEW d \in w
      PROVE  /\ c.first = d.first => c = d
             /\ c.bus = d.first => d.first <= c.first /\ c.last <= d.last
  <2>1. c.bus \in guests /\ (c = b \/ c.first \in guests)
    <3>1. c = b \/ c \in via
      BY <1>1
    <3>2. c \in via => c.bus \in guests /\ c.first \in guests
      OBVIOUS
    <3>3. c = b => c.bus \in guests
      OBVIOUS
    <3> HIDE DEF w
    <3>4. QED
      BY <3>1, <3>2, <3>3
  <2>2. d = b \/ (d \in via /\ d.first \in guests)
    OBVIOUS
  <2>3. CASE c \in via /\ d \in via
    <3>1. \A x, y \in via :
            /\ x.first = y.first => x = y
            /\ x.bus = y.first => y.first <= x.first /\ x.last <= y.last
      BY DEF Forest
    <3>2. QED
      BY <2>3, <3>1
  <2>4. CASE c = b /\ d \in via
    BY <2>2, <2>4
  <2>5. CASE d = b
    <3>1. c.bus # d.first
      BY <2>1, <2>5
    <3>2. c.first = d.first => c = d
      BY <2>1, <2>5
    <3>3. QED
      BY <3>1, <3>2
  <2>6. QED
    BY <1>1, <2>3, <2>4, <2>5
<1>2. ASSUME NEW S \in (SUBSET (0 .. LastBus)) \ {{}},
             S \subseteq {c.bus : c \in {d \in w : d.first \in S}}
      PROVE  FALSE
  <2>1. \A c \in w : c.bus \in guests
    OBVIOUS
  <2>2. S \subseteq guests
    BY <1>2, <2>1
  <2>3. b.first \notin S
    BY <2>2
  <2>4. S \subseteq {c.bus : c \in {d \in via : d.first \in S}}
    BY <1>2, <2>3
  <2>5. QED
    BY <2>4 DEF Forest
<1>3. QED
  BY <1>1, <1>2 DEF Forest

\* A loop settles the bridge it comes to: it goes on the map or gets a mark.
LEMMA SettleKeeps ==
  ASSUME NEW m, MapCore(m), \A c \in m.via : c.first \in m.guests,
         m.loops # <<>>, NEW b \in m.loops[1].left, NEW t \in MapState,
         t.fns = m.fns, t.guests = m.guests,
         t.loops = [m.loops EXCEPT ![1].left = @ \ {b}],
         \/ /\ t.via = m.via \cup {b} /\ t.bug = m.bug
            /\ b.first \notin m.guests /\ ~(b.first < m.loops[1].min \/ b.last > m.loops[1].max)
         \/ t.via = m.via /\ t.bug = m.bug \cup {<<b, 1>>} /\ b.first \in m.guests
         \/ /\ t.via = m.via /\ t.bug = m.bug \cup {<<b, 2>>}
            /\ b.first < m.loops[1].min \/ b.last > m.loops[1].max
  PROVE  /\ MapCore(t)
         /\ SettledBridges(t) = SettledBridges(m) \cup {b}
         /\ b \notin SettledBridges(m)
<1> DEFINE Entered == /\ t.via = m.via \cup {b} /\ t.bug = m.bug
                      /\ b.first \notin m.guests /\ ~(b.first < m.loops[1].min \/ b.last > m.loops[1].max)
           Over == t.via = m.via /\ t.bug = m.bug \cup {<<b, 1>>} /\ b.first \in m.guests
           Across == /\ t.via = m.via /\ t.bug = m.bug \cup {<<b, 2>>}
                     /\ b.first < m.loops[1].min \/ b.last > m.loops[1].max
           B == AllBridges(m.fns)
<1>1. Entered \/ Over \/ Across
  OBVIOUS
<1>2. /\ m \in MapState /\ ViaRight(m) /\ BugRight(m) /\ LoopsRight(m) /\ AllPlaced(m)
      /\ Forest(m.via) /\ RootsRight(m) /\ NoOverlap(m)
  BY DEF MapCore
<1>3. m.loops \in Seq(Frame) /\ m.fns \in Machine /\ m.via \subseteq Link /\ m.bug \subseteq Link \X (1 .. 2)
  BY <1>2 DEF MapState
<1>4. 1 \in DOMAIN m.loops /\ m.loops[1] \in Frame
  BY <1>3
<1>5. Waiting(m, b, 1)
  BY <1>2, <1>4 DEF LoopsRight
<1>6. b \in B /\ b.bus \in m.guests /\ ~Settled(m, b)
  BY <1>5 DEF Waiting
<1>7. b \in Link
  BY <1>3, <1>6, BridgeTyped
<1>8. b.bus \in 0 .. LastBus /\ b.first \in 0 .. LastBus /\ b.last \in 0 .. LastBus
  BY <1>7 DEF Link
<1>9. m.loops[1].min \in 0 .. LastBus /\ m.loops[1].max \in 0 .. LastBus
  BY <1>4 DEF Frame
<1>10. DOMAIN t.loops = DOMAIN m.loops
  OBVIOUS
<1>11. ASSUME NEW k \in DOMAIN m.loops
       PROVE  /\ t.loops[k].min = m.loops[k].min /\ t.loops[k].max = m.loops[k].max
              /\ \A x : x \in t.loops[k].left => x \in m.loops[k].left
              /\ \A x : x \in m.loops[k].left /\ x # b => x \in t.loops[k].left
              /\ b \notin t.loops[k].left
  <2>1. m.loops[k] \in Frame
    BY <1>3
  <2>2. b \in m.loops[k].left => k = 1
    BY <1>5 DEF Waiting
  <2>3. CASE k = 1
    <3>1. t.loops[k] = [m.loops[k] EXCEPT !.left = @ \ {b}]
      BY <1>4, <2>3
    <3>2. t.loops[k].min = m.loops[k].min /\ t.loops[k].max = m.loops[k].max /\ t.loops[k].left = m.loops[k].left \ {b}
      BY <2>1, <3>1 DEF Frame
    <3>3. QED
      BY <3>2
  <2>4. CASE k # 1
    <3>1. t.loops[k] = m.loops[k]
      BY <1>3, <2>4
    <3>2. QED
      BY <2>2, <2>4, <3>1
  <2>5. QED
    BY <2>3, <2>4
<1> HIDE DEF Entered, Over, Across, B
<1>12. \A x : Settled(t, x) <=> Settled(m, x) \/ x = b
  <2>1. CASE Entered
    BY <2>1 DEF Settled, Entered
  <2>2. CASE Over
    BY <2>2 DEF Settled, Over
  <2>3. CASE Across
    BY <2>3 DEF Settled, Across
  <2>4. QED
    BY <1>1, <2>1, <2>2, <2>3
<1>13. ASSUME NEW x, NEW min, NEW max, x.bus \in m.guests, InFront(m, x, min, max)
       PROVE  InFront(t, x, min, max)
  <2>1. t.via = m.via \/ (t.via = m.via \cup {b} /\ b.first \notin m.guests)
    BY <1>1 DEF Entered, Over, Across
  <2>2. QED
    BY <1>13, <2>1 DEF InFront
<1>14. LoopsRight(t)
  <2>1. SUFFICES ASSUME NEW k \in DOMAIN m.loops, NEW x \in t.loops[k].left
                 PROVE  Waiting(t, x, k)
    BY <1>10 DEF LoopsRight
  <2>2. x \in m.loops[k].left /\ x # b
    BY <1>11, <2>1
  <2>3. Waiting(m, x, k)
    BY <1>2, <2>2 DEF LoopsRight
  <2>4. x \in AllBridges(t.fns) /\ x.bus \in t.guests /\ ~Settled(t, x)
    BY <1>12, <2>2, <2>3 DEF Waiting
  <2>5. \A l \in DOMAIN t.loops : x \in t.loops[l].left => l = k
    BY <1>10, <1>11, <2>3 DEF Waiting
  <2>6. InFront(t, x, t.loops[k].min, t.loops[k].max)
    BY <1>11, <1>13, <2>3 DEF Waiting
  <2>7. QED
    BY <2>4, <2>5, <2>6 DEF Waiting
<1>15. AllPlaced(t)
  <2>1. SUFFICES ASSUME NEW x \in AllBridges(m.fns), x.bus \in m.guests
                 PROVE  Settled(t, x) \/ \E k \in DOMAIN m.loops : x \in t.loops[k].left
    BY <1>10 DEF AllPlaced
  <2>2. Settled(m, x) \/ \E k \in DOMAIN m.loops : x \in m.loops[k].left
    BY <1>2, <2>1 DEF AllPlaced
  <2>3. QED
    BY <1>11, <1>12, <2>2
<1>16. m.via \subseteq t.via
  BY <1>1 DEF Entered, Over, Across
<1>17. RootsRight(t)
  <2>1. SUFFICES ASSUME NEW x \in m.guests
                 PROVE  (\E c \in t.via : c.first = x) \/ \A d \in AllBridges(m.fns) : d.bus < x => Settled(t, d)
    BY DEF RootsRight
  <2>2. (\E c \in m.via : c.first = x) \/ \A d \in AllBridges(m.fns) : d.bus < x => Settled(m, d)
    BY <1>2 DEF RootsRight
  <2>3. QED
    BY <1>12, <1>16, <2>2
<1>18. \A n \in 1 .. 2 : <<b, n>> \notin m.bug
  BY <1>6 DEF Settled
<1>19. b \notin m.via
  BY <1>6 DEF Settled
<1>20. ViaRight(t)
  <2>1. SUFFICES ASSUME NEW c \in t.via
                 PROVE  c \in B /\ c.bus \in m.guests /\ <<c, 1>> \notin t.bug /\ <<c, 2>> \notin t.bug
    BY DEF ViaRight, B
  <2>2. c \in m.via => c \in B /\ c.bus \in m.guests /\ <<c, 1>> \notin m.bug /\ <<c, 2>> \notin m.bug
    BY <1>2 DEF ViaRight, B
  <2>3. CASE Entered
    BY <1>6, <1>18, <2>2, <2>3 DEF Entered
  <2>4. CASE Over
    BY <1>19, <2>2, <2>4 DEF Over
  <2>5. CASE Across
    BY <1>19, <2>2, <2>5 DEF Across
  <2>6. QED
    BY <1>1, <2>3, <2>4, <2>5
<1>21. BugRight(t)
  <2>1. ASSUME NEW x \in Link, <<x, 1>> \in t.bug
        PROVE  x \in B /\ x.bus \in m.guests /\ <<x, 2>> \notin t.bug
    <3>1. <<x, 1>> \in m.bug => x \in B /\ x.bus \in m.guests /\ <<x, 2>> \notin m.bug
      BY <1>2 DEF BugRight, B
    <3>2. CASE Entered
      BY <2>1, <3>1, <3>2 DEF Entered
    <3>3. CASE Over
      BY <1>6, <1>18, <2>1, <3>1, <3>3 DEF Over
    <3>4. CASE Across
      BY <1>18, <2>1, <3>1, <3>4 DEF Across
    <3>5. QED
      BY <1>1, <3>2, <3>3, <3>4
  <2>2. ASSUME NEW x \in Link, <<x, 2>> \in t.bug
        PROVE  /\ x \in B /\ x.bus \in m.guests
               /\ \E c \in t.via : c.first = x.bus /\ ~(c.first <= x.first /\ x.last <= c.last)
    <3>1. CASE <<x, 2>> \in m.bug
      BY <1>2, <1>16, <3>1 DEF BugRight, B
    <3>2. CASE <<x, 2>> \notin m.bug
      <4>1. Across /\ x = b
        BY <1>1, <2>2, <3>2 DEF Entered, Over, Across
      <4>2. InFront(m, b, m.loops[1].min, m.loops[1].max)
        BY <1>5 DEF Waiting
      <4>3. b.first < m.loops[1].min \/ b.last > m.loops[1].max
        BY <4>1 DEF Across
      <4>4. ~(m.loops[1].min = 0 /\ m.loops[1].max = LastBus)
        BY <1>8, <4>3, LastBusAssumption
      <4>5. PICK c \in m.via : c.first = b.bus /\ m.loops[1].min = c.first /\ m.loops[1].max = c.last
        BY <4>2, <4>4 DEF InFront
      <4>6. ~(c.first <= b.first /\ b.last <= c.last)
        BY <1>8, <1>9, <4>3, <4>5
      <4>7. QED
        BY <1>6, <1>16, <4>1, <4>5, <4>6
    <3>3. QED
      BY <3>1, <3>2
  <2>3. QED
    BY <2>1, <2>2 DEF BugRight, B
<1>22. Forest(t.via)
  <2>1. CASE t.via = m.via
    BY <1>2, <2>1
  <2>2. CASE Entered
    <3>1. \A c \in m.via : c.first \in m.guests /\ c.bus \in m.guests
      BY <1>2 DEF ViaRight
    <3>2. ASSUME NEW c \in m.via, c.first = b.bus
          PROVE  c.first <= b.first /\ b.last <= c.last
      <4>1. PICK d \in m.via : d.first = b.bus /\ m.loops[1].min = d.first /\ m.loops[1].max = d.last
        BY <1>5, <3>2 DEF Waiting, InFront
      <4>2. d = c
        BY <1>2, <3>2, <4>1 DEF Forest
      <4>3. QED
        BY <1>8, <1>9, <2>2, <4>1, <4>2 DEF Entered
    <3>3. Forest(m.via) /\ m.via \subseteq Link /\ b.bus \in m.guests /\ b.first \notin m.guests
      BY <1>2, <1>3, <1>6, <2>2 DEF Entered
    <3>4. Forest(m.via \cup {b})
      BY <1>7, <3>1, <3>2, <3>3, ForestGrows
    <3>5. t.via = m.via \cup {b}
      BY <2>2 DEF Entered
    <3>6. QED
      BY <3>4, <3>5, Zenon
  <2>3. QED
    BY <1>1, <2>1, <2>2 DEF Over, Across
<1>23. NoOverlap(t)
  <2>1. SUFFICES ASSUME SetUpWell(B), NEW x \in Link, <<x, 1>> \in t.bug
                 PROVE  FALSE
    BY DEF NoOverlap, B
  <2>2. <<x, 1>> \notin m.bug
    BY <1>2, <2>1 DEF NoOverlap, B
  <2>3. Over /\ x = b
    BY <1>1, <2>1, <2>2 DEF Entered, Over, Across
  <2>4. b.bus < b.first /\ b.first \in m.guests
    BY <1>6, <2>1, <2>3 DEF SetUpWell, Over
  <2>5. CASE \E c \in m.via : c.first = b.first
    <3>1. PICK c \in m.via : c.first = b.first
      BY <2>5
    <3>2. c \in B \ {b}
      BY <1>2, <1>19, <3>1 DEF ViaRight, B
    <3>3. QED
      BY <1>6, <2>1, <3>1, <3>2 DEF SetUpWell
  <2>6. CASE \A d \in AllBridges(m.fns) : d.bus < b.first => Settled(m, d)
    BY <1>6, <2>4, <2>6 DEF B
  <2>7. QED
    BY <1>2, <2>4, <2>5, <2>6 DEF RootsRight
<1>24. MapCore(t)
  BY <1>14, <1>15, <1>17, <1>20, <1>21, <1>22, <1>23 DEF MapCore
<1>25. SettledBridges(t) = SettledBridges(m) \cup {b} /\ b \notin SettledBridges(m)
  BY <1>6, <1>12 DEF SettledBridges, B
<1>26. QED
  BY <1>24, <1>25

\* A loop over the bridges of a bus begins.
LEMMA WalkKeeps ==
  ASSUME NEW m, MapCore(m), NEW bus \in 0 .. LastBus, bus \notin m.guests,
         NEW min \in 0 .. LastBus, NEW max \in 0 .. LastBus,
         \/ /\ min = 0 /\ max = LastBus /\ \A c \in m.via : c.first # bus
            /\ \A b \in AllBridges(m.fns) : b.bus < bus => Settled(m, b)
         \/ \E c \in m.via : c.first = bus /\ min = c.first /\ max = c.last
  PROVE  LET t == Walk(m, bus, min, max)
         IN  /\ MapCore(t)
             /\ t.fns = m.fns /\ t.bus = m.bus /\ t.via = m.via /\ t.bug = m.bug /\ t.turns = m.turns
             /\ t.guests = m.guests \cup {bus} /\ Len(t.loops) = Len(m.loops) + 1
             /\ SettledBridges(t) = SettledBridges(m)
<1> DEFINE t == Walk(m, bus, min, max)
           V == BridgesOn(m.fns, bus)
           new == [left |-> V, min |-> min, max |-> max]
           loops == <<new>> \o m.loops
           guests == m.guests \cup {bus}
<1>1. /\ m \in MapState /\ ViaRight(m) /\ BugRight(m) /\ LoopsRight(m) /\ AllPlaced(m)
      /\ Forest(m.via) /\ RootsRight(m) /\ NoOverlap(m)
  BY DEF MapCore
<1>2. m.loops \in Seq(Frame) /\ m.fns \in Machine /\ m.guests \in SUBSET (0 .. LastBus)
  BY <1>1 DEF MapState
<1>3. \A b \in V : b \in Link /\ b.bus = bus /\ b \in AllBridges(m.fns)
  BY <1>2, LinkTyped
<1> HIDE DEF V
<1>4. new \in Frame /\ new.left = V /\ new.min = min /\ new.max = max
  BY <1>3 DEF Frame
<1> HIDE DEF new
<1>5. loops \in Seq(Frame) /\ Len(loops) = Len(m.loops) + 1
  BY <1>2, <1>4
<1>6. loops[1] = new /\ \A k \in DOMAIN m.loops : loops[k + 1] = m.loops[k] /\ k + 1 \in DOMAIN loops
  BY <1>2, <1>4
<1>7. 1 \in DOMAIN loops
  BY <1>2, <1>4
<1>8. \A k \in DOMAIN loops : k = 1 \/ \E l \in DOMAIN m.loops : k = l + 1
  <2>1. \A k \in DOMAIN loops : k = 1 \/ (k - 1 \in DOMAIN m.loops /\ k = (k - 1) + 1)
    BY <1>2
  <2>2. QED
    BY <2>1
<1>9. guests \in SUBSET (0 .. LastBus)
  BY <1>2
<1>10. t = [m EXCEPT !.guests = guests, !.loops = loops]
  BY DEF Walk, new, V
<1> HIDE DEF t, loops, guests
<1>11. t \in MapState
  BY <1>1, <1>5, <1>9, <1>10 DEF MapState
<1>12. /\ t.fns = m.fns /\ t.bus = m.bus /\ t.via = m.via /\ t.bug = m.bug /\ t.turns = m.turns
       /\ t.guests = guests /\ t.loops = loops
  BY <1>1, <1>10 DEF MapState
<1>13. \A b : Settled(t, b) <=> Settled(m, b)
  BY <1>12 DEF Settled
<1>14. m.guests \subseteq t.guests /\ bus \in t.guests
  BY <1>12 DEF guests
<1>15. \A b, lo, hi : InFront(t, b, lo, hi) <=> InFront(m, b, lo, hi)
  BY <1>12 DEF InFront
<1>16. \A b \in V : ~Settled(m, b)
  <2>1. SUFFICES ASSUME NEW b \in V, Settled(m, b)
                 PROVE  FALSE
    OBVIOUS
  <2>2. b \in Link /\ b.bus = bus
    BY <1>3
  <2>3. b \in m.via => b.bus \in m.guests
    BY <1>1 DEF ViaRight
  <2>4. <<b, 1>> \in m.bug => b.bus \in m.guests
    BY <1>1, <2>2 DEF BugRight
  <2>5. <<b, 2>> \in m.bug => b.bus \in m.guests
    BY <1>1, <2>2 DEF BugRight
  <2>6. QED
    BY <2>1, <2>2, <2>3, <2>4, <2>5 DEF Settled
<1>17. \A k \in DOMAIN m.loops : \A b \in m.loops[k].left : b.bus \in m.guests /\ b \notin V
  BY <1>1, <1>3 DEF LoopsRight, Waiting
<1>18. LoopsRight(t)
  <2>1. SUFFICES ASSUME NEW k \in DOMAIN loops, NEW b \in loops[k].left
                 PROVE  Waiting(t, b, k)
    BY <1>12 DEF LoopsRight
  <2>2. CASE k = 1
    <3>1. b \in V
      BY <1>4, <1>6, <2>1, <2>2
    <3>2. b \in AllBridges(t.fns) /\ b.bus \in t.guests /\ ~Settled(t, b)
      BY <1>3, <1>12, <1>13, <1>14, <1>16, <3>1
    <3>3. \A l \in DOMAIN loops : b \in loops[l].left => l = 1
      BY <1>6, <1>8, <1>17, <3>1
    <3>4. InFront(m, b, min, max)
      <4>1. b.bus = bus
        BY <1>3, <3>1
      <4>2. QED
        BY <4>1 DEF InFront
    <3>5. InFront(t, b, loops[k].min, loops[k].max)
      BY <1>4, <1>6, <1>15, <2>2, <3>4
    <3>6. QED
      BY <1>12, <2>2, <3>2, <3>3, <3>5 DEF Waiting
  <2>3. ASSUME NEW p \in DOMAIN m.loops, k = p + 1
        PROVE  Waiting(t, b, k)
    <3>1. b \in m.loops[p].left
      BY <1>6, <2>1, <2>3
    <3>2. Waiting(m, b, p) /\ b \notin V
      BY <1>1, <1>17, <3>1 DEF LoopsRight
    <3>3. b \in AllBridges(t.fns) /\ b.bus \in t.guests /\ ~Settled(t, b)
      BY <1>12, <1>13, <1>14, <3>2 DEF Waiting
    <3>4. \A l \in DOMAIN m.loops : b \in m.loops[l].left => l = p
      BY <3>2 DEF Waiting
    <3>5. \A l \in DOMAIN loops : b \in loops[l].left => l = k
      BY <1>4, <1>6, <1>8, <2>3, <3>2, <3>4
    <3>6. InFront(t, b, loops[k].min, loops[k].max)
      BY <1>6, <1>15, <2>3, <3>2 DEF Waiting
    <3>7. QED
      BY <1>12, <3>3, <3>5, <3>6 DEF Waiting
  <2>4. QED
    BY <1>8, <2>2, <2>3
<1>19. AllPlaced(t)
  <2>1. SUFFICES ASSUME NEW b \in AllBridges(m.fns), b.bus \in guests
                 PROVE  Settled(m, b) \/ \E k \in DOMAIN loops : b \in loops[k].left
    BY <1>12, <1>13 DEF AllPlaced
  <2>2. CASE b.bus = bus
    <3>1. b \in V
      BY <1>2, <2>2, BridgeTyped DEF V
    <3>2. QED
      BY <1>4, <1>6, <1>7, <3>1
  <2>3. CASE b.bus # bus
    <3>1. b.bus \in m.guests
      BY <2>1, <2>3 DEF guests
    <3>2. Settled(m, b) \/ \E k \in DOMAIN m.loops : b \in m.loops[k].left
      BY <1>1, <3>1 DEF AllPlaced
    <3>3. QED
      BY <1>6, <3>2
  <2>4. QED
    BY <2>2, <2>3
<1>20. ViaRight(t)
  BY <1>1, <1>12, <1>14 DEF ViaRight
<1>21. BugRight(t)
  <2>1. ASSUME NEW x \in Link, <<x, 1>> \in m.bug
        PROVE  x \in AllBridges(m.fns) /\ x.bus \in m.guests /\ <<x, 2>> \notin m.bug
    BY <1>1, <2>1 DEF BugRight
  <2>2. ASSUME NEW x \in Link, <<x, 2>> \in m.bug
        PROVE  /\ x \in AllBridges(m.fns) /\ x.bus \in m.guests
               /\ \E c \in m.via : c.first = x.bus /\ ~(c.first <= x.first /\ x.last <= c.last)
    BY <1>1, <2>2 DEF BugRight
  <2>3. QED
    BY <2>1, <2>2, <1>12, <1>14 DEF BugRight
<1>22. RootsRight(t)
  <2>1. SUFFICES ASSUME NEW x \in guests
                 PROVE  (\E c \in m.via : c.first = x) \/ \A d \in AllBridges(m.fns) : d.bus < x => Settled(m, d)
    BY <1>12, <1>13 DEF RootsRight
  <2>2. CASE x = bus
    BY <2>2
  <2>3. CASE x \in m.guests
    BY <1>1, <2>3 DEF RootsRight
  <2>4. QED
    BY <2>1, <2>2, <2>3 DEF guests
<1>23. Forest(t.via) /\ NoOverlap(t)
  BY <1>1, <1>12 DEF NoOverlap
<1>24. MapCore(t)
  BY <1>11, <1>18, <1>19, <1>20, <1>21, <1>22, <1>23 DEF MapCore
<1>25. SettledBridges(t) = SettledBridges(m)
  BY <1>12, <1>13 DEF SettledBridges
<1>26. QED
  BY <1>5, <1>12, <1>24, <1>25 DEF t, guests

\* The number of turns and the next bus are nothing to the map made so far.
LEMMA SameMap ==
  ASSUME NEW m, MapCore(m), NEW t \in MapState,
         t.fns = m.fns, t.via = m.via, t.bug = m.bug, t.guests = m.guests, t.loops = m.loops
  PROVE  MapCore(t) /\ SettledBridges(t) = SettledBridges(m)
<1>1. \A b : Settled(t, b) <=> Settled(m, b)
  BY DEF Settled
<1>2. SettledBridges(t) = SettledBridges(m)
  BY <1>1 DEF SettledBridges
<1>3. \A b, k : Waiting(t, b, k) <=> Waiting(m, b, k)
  BY <1>1 DEF Waiting, InFront
<1>4. LoopsRight(t)
  BY <1>3 DEF MapCore, LoopsRight
<1>5. AllPlaced(t) /\ RootsRight(t)
  BY <1>1 DEF MapCore, AllPlaced, RootsRight
<1>6. ViaRight(t) /\ NoOverlap(t) /\ Forest(t.via)
  BY DEF MapCore, ViaRight, NoOverlap
<1>7. BugRight(t)
  BY DEF MapCore, BugRight
<1>8. QED
  BY <1>2, <1>4, <1>5, <1>6, <1>7 DEF MapCore

\* Counting a turn changes nothing else.
LEMMA CountedMap ==
  ASSUME NEW m, MapCore(m)
  PROVE  LET t == Counted(m)
         IN  /\ MapCore(t)
             /\ t.fns = m.fns /\ t.bus = m.bus /\ t.via = m.via /\ t.bug = m.bug /\ t.guests = m.guests
             /\ t.loops = m.loops /\ t.turns = m.turns + 1 /\ SettledBridges(t) = SettledBridges(m)
<1> DEFINE t == Counted(m)
<1>1. m \in MapState /\ m.turns + 1 \in Nat
  BY DEF MapCore, MapState
<1>2. t \in MapState
  BY <1>1 DEF Counted, MapState
<1>3. /\ t.fns = m.fns /\ t.bus = m.bus /\ t.via = m.via /\ t.bug = m.bug /\ t.guests = m.guests
      /\ t.loops = m.loops /\ t.turns = m.turns + 1
  BY <1>1 DEF Counted, MapState
<1> HIDE DEF t
<1>4. QED
  BY <1>2, <1>3, SameMap DEF t

\* A machine has so many bridges that are settled.
LEMMA SettledCount ==
  ASSUME NEW m, MapCore(m)
  PROVE  /\ IsFiniteSet(SettledBridges(m)) /\ Cardinality(SettledBridges(m)) \in Nat
         /\ Cardinality(SettledBridges(m)) <= Cardinality(AllBridges(m.fns))
<1>1. m.fns \in Machine
  BY DEF MapCore, MapState
<1>2. IsFiniteSet(AllBridges(m.fns))
  BY <1>1, BridgesFinite
<1>3. SettledBridges(m) \in SUBSET AllBridges(m.fns)
  BY DEF SettledBridges
<1>4. IsFiniteSet(SettledBridges(m)) /\ Cardinality(SettledBridges(m)) <= Cardinality(AllBridges(m.fns))
  BY <1>2, <1>3, FS_Subset
<1>5. QED
  BY <1>4, FS_CardinalityType

\* What a turn adds to the count of turns and loops.
LEMMA TurnsAddUp ==
  ASSUME NEW turns \in Nat, NEW loops \in Nat, NEW bus \in Nat, NEW settled \in Nat,
         turns + loops <= 2 * (bus + settled)
  PROVE  /\ \A l \in Nat : l <= loops + 1 => (turns + 1) + l <= 2 * ((bus + 1) + settled)
         /\ \A l \in Nat : l <= loops + 1 => (turns + 1) + l <= 2 * (bus + (settled + 1))
         /\ \A l \in Nat : l + 1 = loops => (turns + 1) + l <= 2 * (bus + settled)
  OBVIOUS

\* map_bridges looks at a bus.
LEMMA BusTurn ==
  ASSUME NEW m, MapInv(m), m.loops = <<>>, m.bus <= LastBus
  PROVE  MapInv(Counted(MapBus(m, LastBus))) /\ Counted(MapBus(m, LastBus)).fns = m.fns
<1> DEFINE next == [m EXCEPT !.bus = @ + 1]
           u == MapBus(m, LastBus)
           t == Counted(u)
<1>1. MapCore(m) /\ m \in MapState
  BY DEF MapInv, MapCore
<1>2. m.bus \in Nat /\ m.bus \in 0 .. LastBus /\ m.bus + 1 \in 0 .. LastBus + 1 /\ m.turns \in Nat
  BY <1>1, LastBusAssumption DEF MapState
<1>3. next \in MapState
  BY <1>1, <1>2 DEF MapState
<1>4. /\ next.fns = m.fns /\ next.via = m.via /\ next.bug = m.bug /\ next.guests = m.guests
      /\ next.loops = m.loops /\ next.turns = m.turns /\ next.bus = m.bus + 1
  BY <1>1 DEF MapState
<1> HIDE DEF next
<1>5. MapCore(next) /\ SettledBridges(next) = SettledBridges(m)
  BY <1>1, <1>3, <1>4, SameMap
<1>6. u = IF Exists(m.fns, m.bus) /\ m.bus \notin m.guests THEN Walk(next, m.bus, 0, LastBus) ELSE next
  BY DEF MapBus, next
<1> HIDE DEF u
<1>7. /\ MapCore(u)
      /\ u.fns = m.fns /\ u.via = m.via /\ u.bug = m.bug /\ u.turns = m.turns /\ u.bus = m.bus + 1
      /\ Len(u.loops) <= 1 /\ Len(u.loops) \in Nat /\ SettledBridges(u) = SettledBridges(m)
      /\ m.guests \subseteq u.guests /\ (Exists(m.fns, m.bus) => m.bus \in u.guests)
  <2>1. Len(m.loops) = 0 /\ Len(next.loops) = 0
    BY <1>4
  <2>2. CASE Exists(m.fns, m.bus) /\ m.bus \notin m.guests
    <3>1. \A c \in next.via : c.first # m.bus
      BY <1>4, <2>2 DEF MapInv
    <3>2. ASSUME NEW b \in AllBridges(m.fns), b.bus < m.bus
          PROVE  Settled(next, b)
      <4>1. m.fns \in Machine
        BY <1>1 DEF MapState
      <4>2. b \in Link /\ Exists(m.fns, b.bus)
        BY <4>1, BridgeTyped
      <4>3. b.bus \in 0 .. m.bus - 1
        BY <1>2, <3>2, <4>2 DEF Link
      <4>4. b.bus \in m.guests
        BY <4>2, <4>3 DEF MapInv
      <4>5. Settled(m, b)
        BY <1>1, <4>4 DEF MapCore, AllPlaced
      <4>6. QED
        BY <1>4, <4>5 DEF Settled
    <3>3. 0 \in 0 .. LastBus /\ LastBus \in 0 .. LastBus
      BY LastBusAssumption
    <3> DEFINE w == Walk(next, m.bus, 0, LastBus)
    <3>4. /\ MapCore(w)
          /\ w.fns = next.fns /\ w.bus = next.bus /\ w.via = next.via /\ w.bug = next.bug /\ w.turns = next.turns
          /\ w.guests = next.guests \cup {m.bus} /\ Len(w.loops) = Len(next.loops) + 1
          /\ SettledBridges(w) = SettledBridges(next)
      <4>1. m.bus \notin next.guests
        BY <1>4, <2>2
      <4>2. \A b \in AllBridges(next.fns) : b.bus < m.bus => Settled(next, b)
        BY <1>4, <3>2
      <4>3. QED
        BY <1>2, <1>5, <3>1, <3>3, <4>1, <4>2, WalkKeeps
    <3>5. u = w
      BY <1>6, <2>2
    <3> HIDE DEF w
    <3>6. Len(w.loops) = 1
      BY <2>1, <3>4
    <3>7. Len(u.loops) <= 1 /\ Len(u.loops) \in Nat
      BY <3>5, <3>6
    <3>8. /\ u.fns = m.fns /\ u.via = m.via /\ u.bug = m.bug /\ u.turns = m.turns /\ u.bus = m.bus + 1
          /\ u.guests = m.guests \cup {m.bus} /\ SettledBridges(u) = SettledBridges(m) /\ MapCore(u)
      BY <1>4, <1>5, <3>4, <3>5
    <3>9. QED
      BY <3>7, <3>8
  <2>3. CASE ~(Exists(m.fns, m.bus) /\ m.bus \notin m.guests)
    <3>1. u = next
      BY <1>6, <2>3
    <3>2. QED
      BY <1>4, <1>5, <2>1, <2>3, <3>1
  <2>4. QED
    BY <2>2, <2>3
<1> HIDE DEF t
<1>8. /\ MapCore(t)
      /\ t.fns = m.fns /\ t.bus = m.bus + 1 /\ t.via = m.via /\ t.guests = u.guests
      /\ t.loops = u.loops /\ t.turns = m.turns + 1 /\ SettledBridges(t) = SettledBridges(m)
  BY <1>7, CountedMap DEF t
<1>9. \A c \in t.via : c.first \in t.guests
  BY <1>7, <1>8 DEF MapInv
<1>10. ASSUME NEW x \in 0 .. t.bus - 1, Exists(t.fns, x)
       PROVE  x \in t.guests
  <2>1. x = m.bus \/ x \in 0 .. m.bus - 1
    BY <1>2, <1>8
  <2>2. QED
    BY <2>1, <1>7, <1>8, <1>10 DEF MapInv
<1>11. t.turns + Len(t.loops) <= 2 * (t.bus + Cardinality(SettledBridges(t)))
  <2>1. Cardinality(SettledBridges(m)) \in Nat
    BY <1>1, SettledCount
  <2>2. m.turns + 0 <= 2 * (m.bus + Cardinality(SettledBridges(m)))
    <3>1. Len(m.loops) = 0
      OBVIOUS
    <3>2. QED
      BY <3>1 DEF MapInv
  <2>3. (m.turns + 1) + Len(u.loops) <= 2 * ((m.bus + 1) + Cardinality(SettledBridges(m)))
    <3>1. Len(u.loops) <= 0 + 1
      BY <1>7
    <3>2. QED
      BY <1>2, <1>7, <2>1, <2>2, <3>1, TurnsAddUp
  <2>4. QED
    BY <1>8, <2>3
<1>12. MapInv(t)
  BY <1>8, <1>9, <1>10, <1>11 DEF MapInv
<1>13. QED
  BY <1>8, <1>12 DEF t, u

\* The bridge a loop comes to, and what is left.
Taken(m) == [m EXCEPT !.loops[1].left = @ \ {Latest(Head(m.loops).left)}]

\* do_map_bridges comes to a bridge.
LEMMA BridgeTurn ==
  ASSUME NEW m, MapInv(m), m.loops # <<>>, Head(m.loops).left # {}
  PROVE  MapInv(Counted(MapBridge(m))) /\ Counted(MapBridge(m)).fns = m.fns
<1> DEFINE r == Head(m.loops)
           b == Latest(r.left)
           rest == Taken(m)
           loops == [m.loops EXCEPT ![1].left = @ \ {b}]
           u == MapBridge(m)
           t == Counted(u)
           over == [rest EXCEPT !.bug = @ \cup {<<b, 1>>}]
           across == [rest EXCEPT !.bug = @ \cup {<<b, 2>>}]
           on == [rest EXCEPT !.via = @ \cup {b}]
<1>1. MapCore(m) /\ m \in MapState /\ \A c \in m.via : c.first \in m.guests
  BY DEF MapInv, MapCore
<1>2. m.loops \in Seq(Frame) /\ m.fns \in Machine /\ m.bus \in Nat /\ m.turns \in Nat
      /\ m.via \subseteq Link /\ m.bug \subseteq Link \X (1 .. 2)
  BY <1>1, LastBusAssumption DEF MapState
<1>3. 1 \in DOMAIN m.loops /\ r = m.loops[1] /\ r \in Frame
  BY <1>2
<1>4. b \in r.left /\ b \in AllBridges(m.fns)
  <2>1. r.left \subseteq AllBridges(m.fns)
    BY <1>1, <1>3 DEF MapCore, LoopsRight, Waiting
  <2>2. IsFiniteSet(r.left)
    BY <1>2, <2>1, BridgesFinite, FS_Subset
  <2>3. r.left \subseteq Link
    BY <1>3 DEF Frame
  <2> HIDE DEF r
  <2>4. b \in r.left
    BY <2>2, <2>3, LatestThere DEF r
  <2>5. QED
    BY <2>1, <2>4
<1>5. b \in Link
  BY <1>2, <1>4, BridgeTyped
<1>6. \/ b.first \in m.guests /\ u = over
      \/ b.first \notin m.guests /\ (b.first < r.min \/ b.last > r.max) /\ u = across
      \/ b.first \notin m.guests /\ ~(b.first < r.min \/ b.last > r.max) /\ u = Walk(on, b.first, b.first, b.last)
  BY DEF MapBridge, Taken
<1> HIDE DEF b
<1>7. loops \in Seq(Frame) /\ Len(loops) = Len(m.loops) /\ Len(m.loops) \in Nat
  <2>1. [m.loops[1] EXCEPT !.left = @ \ {b}] \in Frame
    BY <1>3 DEF Frame
  <2>2. QED
    BY <1>2, <1>3, <2>1
<1>8. rest = [m EXCEPT !.loops = loops]
  BY <1>1, <1>3 DEF Taken, b, MapState
<1> HIDE DEF rest, loops, r, u
<1>9. rest \in MapState
  BY <1>1, <1>7, <1>8 DEF MapState
<1>10. /\ rest.fns = m.fns /\ rest.bus = m.bus /\ rest.via = m.via /\ rest.bug = m.bug /\ rest.guests = m.guests
       /\ rest.turns = m.turns /\ rest.loops = loops
  BY <1>1, <1>8 DEF MapState
<1>11. b \in m.loops[1].left /\ r = m.loops[1]
  BY <1>3, <1>4
<1>12. /\ MapCore(u)
       /\ u.fns = m.fns /\ u.bus = m.bus /\ u.turns = m.turns
       /\ \A c \in u.via : c.first \in u.guests
       /\ m.guests \subseteq u.guests /\ Len(u.loops) \in Nat /\ Len(u.loops) <= Len(m.loops) + 1
       /\ SettledBridges(u) = SettledBridges(m) \cup {b} /\ b \notin SettledBridges(m)
  <2>1. CASE b.first \in m.guests /\ u = over
    <3>1. rest.bug \cup {<<b, 1>>} \in SUBSET (Link \X (1 .. 2))
      BY <1>2, <1>5, <1>10
    <3>2. over \in MapState
      BY <1>9, <3>1 DEF MapState
    <3>3. /\ over.fns = m.fns /\ over.bus = m.bus /\ over.via = m.via /\ over.bug = m.bug \cup {<<b, 1>>}
          /\ over.guests = m.guests /\ over.turns = m.turns /\ over.loops = loops
      BY <1>9, <1>10 DEF MapState
    <3> HIDE DEF over
    <3>4. MapCore(over) /\ SettledBridges(over) = SettledBridges(m) \cup {b} /\ b \notin SettledBridges(m)
      BY <1>1, <1>11, <2>1, <3>2, <3>3, SettleKeeps DEF loops
    <3>5. QED
      BY <1>1, <1>7, <2>1, <3>3, <3>4
  <2>2. CASE b.first \notin m.guests /\ (b.first < r.min \/ b.last > r.max) /\ u = across
    <3>1. rest.bug \cup {<<b, 2>>} \in SUBSET (Link \X (1 .. 2))
      BY <1>2, <1>5, <1>10
    <3>2. across \in MapState
      BY <1>9, <3>1 DEF MapState
    <3>3. /\ across.fns = m.fns /\ across.bus = m.bus /\ across.via = m.via /\ across.bug = m.bug \cup {<<b, 2>>}
          /\ across.guests = m.guests /\ across.turns = m.turns /\ across.loops = loops
      BY <1>9, <1>10 DEF MapState
    <3> HIDE DEF across
    <3>4. MapCore(across) /\ SettledBridges(across) = SettledBridges(m) \cup {b} /\ b \notin SettledBridges(m)
      BY <1>1, <1>11, <2>2, <3>2, <3>3, SettleKeeps DEF loops
    <3>5. QED
      BY <1>1, <1>7, <2>2, <3>3, <3>4
  <2>3. CASE b.first \notin m.guests /\ ~(b.first < r.min \/ b.last > r.max) /\ u = Walk(on, b.first, b.first, b.last)
    <3>1. rest.via \cup {b} \in SUBSET Link
      BY <1>2, <1>5, <1>10
    <3>2. on \in MapState
      BY <1>9, <3>1 DEF MapState
    <3>3. /\ on.fns = m.fns /\ on.bus = m.bus /\ on.via = m.via \cup {b} /\ on.bug = m.bug
          /\ on.guests = m.guests /\ on.turns = m.turns /\ on.loops = loops
      BY <1>9, <1>10 DEF MapState
    <3> HIDE DEF on
    <3>4. MapCore(on) /\ SettledBridges(on) = SettledBridges(m) \cup {b} /\ b \notin SettledBridges(m)
      BY <1>1, <1>11, <2>3, <3>2, <3>3, SettleKeeps DEF loops
    <3>5. b.first \in 0 .. LastBus /\ b.last \in 0 .. LastBus
      BY <1>5 DEF Link
    <3>6. \E c \in on.via : c.first = b.first /\ b.first = c.first /\ b.last = c.last
      BY <3>3
    <3>7. b.first \notin on.guests
      BY <2>3, <3>3
    <3> DEFINE w == Walk(on, b.first, b.first, b.last)
    <3>8. /\ MapCore(w)
          /\ w.fns = on.fns /\ w.bus = on.bus /\ w.via = on.via /\ w.bug = on.bug /\ w.turns = on.turns
          /\ w.guests = on.guests \cup {b.first} /\ Len(w.loops) = Len(on.loops) + 1
          /\ SettledBridges(w) = SettledBridges(on)
      BY <3>4, <3>5, <3>6, <3>7, WalkKeeps
    <3>9. u = w
      BY <2>3
    <3> HIDE DEF w
    <3>10. \A c \in w.via : c.first \in w.guests
      BY <1>1, <3>3, <3>8
    <3>11. Len(w.loops) = Len(m.loops) + 1 /\ Len(w.loops) \in Nat
      BY <1>7, <3>3, <3>8
    <3>12. QED
      BY <3>3, <3>4, <3>8, <3>9, <3>10, <3>11
  <2>4. QED
    BY <1>6, <2>1, <2>2, <2>3
<1> HIDE DEF t
<1>13. /\ MapCore(t)
       /\ t.fns = m.fns /\ t.bus = m.bus /\ t.via = u.via /\ t.guests = u.guests
       /\ t.loops = u.loops /\ t.turns = m.turns + 1 /\ SettledBridges(t) = SettledBridges(u)
  BY <1>12, CountedMap DEF t
<1>14. \A x \in 0 .. t.bus - 1 : Exists(t.fns, x) => x \in t.guests
  BY <1>12, <1>13 DEF MapInv
<1>15. t.turns + Len(t.loops) <= 2 * (t.bus + Cardinality(SettledBridges(t)))
  <2>1. IsFiniteSet(SettledBridges(m)) /\ Cardinality(SettledBridges(m)) \in Nat
    BY <1>1, SettledCount
  <2>2. Cardinality(SettledBridges(m) \cup {b}) = Cardinality(SettledBridges(m)) + 1
    BY <1>12, <2>1, FS_AddElement
  <2>3. SettledBridges(t) = SettledBridges(m) \cup {b}
    BY <1>12, <1>13
  <2>4. Cardinality(SettledBridges(t)) = Cardinality(SettledBridges(m)) + 1
    BY <2>2, <2>3, Zenon
  <2>5. m.turns + Len(m.loops) <= 2 * (m.bus + Cardinality(SettledBridges(m)))
    BY DEF MapInv
  <2>6. (m.turns + 1) + Len(u.loops) <= 2 * (m.bus + (Cardinality(SettledBridges(m)) + 1))
    BY <1>2, <1>7, <1>12, <2>1, <2>5, TurnsAddUp
  <2>7. QED
    BY <1>13, <2>4, <2>6
<1>16. MapInv(t)
  BY <1>12, <1>13, <1>14, <1>15 DEF MapInv
<1>17. QED
  BY <1>13, <1>16 DEF t, u

\* A loop that is done.
LEMMA LeaveTurn ==
  ASSUME NEW m, MapInv(m), m.loops # <<>>, Head(m.loops).left = {}
  PROVE  MapInv(Counted(MapReturn(m))) /\ Counted(MapReturn(m)).fns = m.fns
<1> DEFINE u == MapReturn(m)
           t == Counted(u)
           loops == Tail(m.loops)
<1>1. MapCore(m) /\ m \in MapState
  BY DEF MapInv, MapCore
<1>2. m.loops \in Seq(Frame) /\ m.turns \in Nat /\ m.bus \in Nat
  BY <1>1, LastBusAssumption DEF MapState
<1>3. /\ loops \in Seq(Frame) /\ m.loops[1].left = {} /\ Len(loops) + 1 = Len(m.loops)
      /\ Len(loops) \in Nat /\ Len(m.loops) \in Nat
  BY <1>2
<1>4. \A k \in DOMAIN loops : k + 1 \in DOMAIN m.loops /\ loops[k] = m.loops[k + 1] /\ k \in Nat
  BY <1>2
<1>5. \A k \in DOMAIN m.loops : \A b \in m.loops[k].left : \E l \in DOMAIN loops : k = l + 1 /\ b \in loops[l].left
  <2>1. SUFFICES ASSUME NEW k \in DOMAIN m.loops, NEW b \in m.loops[k].left
                 PROVE  \E l \in DOMAIN loops : k = l + 1 /\ b \in loops[l].left
    OBVIOUS
  <2>2. k # 1
    BY <1>3, <2>1
  <2>3. k - 1 \in DOMAIN loops /\ k = (k - 1) + 1
    BY <1>2, <2>2
  <2>4. PICK l \in DOMAIN loops : k = l + 1
    BY <2>3
  <2>5. QED
    BY <2>1, <2>4, <1>4
<1> HIDE DEF loops
<1>6. u = [m EXCEPT !.loops = loops]
  BY DEF MapReturn, loops
<1> HIDE DEF u
<1>7. u \in MapState
  BY <1>1, <1>3, <1>6 DEF MapState
<1>8. /\ u.fns = m.fns /\ u.bus = m.bus /\ u.via = m.via /\ u.bug = m.bug /\ u.guests = m.guests
      /\ u.turns = m.turns /\ u.loops = loops
  BY <1>1, <1>6 DEF MapState
<1>9. \A b : Settled(u, b) <=> Settled(m, b)
  BY <1>8 DEF Settled
<1>10. SettledBridges(u) = SettledBridges(m)
  BY <1>8, <1>9 DEF SettledBridges
<1>11. \A b, lo, hi : InFront(u, b, lo, hi) <=> InFront(m, b, lo, hi)
  BY <1>8 DEF InFront
<1>12. LoopsRight(u)
  <2>1. SUFFICES ASSUME NEW k \in DOMAIN loops, NEW b \in loops[k].left
                 PROVE  Waiting(u, b, k)
    BY <1>8 DEF LoopsRight
  <2>2. k + 1 \in DOMAIN m.loops /\ b \in m.loops[k + 1].left /\ k \in Nat /\ loops[k] = m.loops[k + 1]
    BY <1>4, <2>1
  <2>3. Waiting(m, b, k + 1)
    BY <1>1, <2>2 DEF MapCore, LoopsRight
  <2>4. \A l \in DOMAIN loops : b \in loops[l].left => l = k
    <3>1. \A l \in DOMAIN loops : b \in loops[l].left => l + 1 = k + 1
      BY <1>4, <2>3 DEF Waiting
    <3>2. QED
      BY <1>4, <2>2, <3>1
  <2>5. b \in AllBridges(u.fns) /\ b.bus \in u.guests /\ ~Settled(u, b)
    BY <1>8, <1>9, <2>3 DEF Waiting
  <2>6. InFront(u, b, loops[k].min, loops[k].max)
    BY <1>11, <2>2, <2>3 DEF Waiting
  <2>7. QED
    BY <1>8, <2>4, <2>5, <2>6 DEF Waiting
<1>13. AllPlaced(u)
  <2>1. SUFFICES ASSUME NEW b \in AllBridges(m.fns), b.bus \in m.guests
                 PROVE  Settled(m, b) \/ \E k \in DOMAIN loops : b \in loops[k].left
    BY <1>8, <1>9 DEF AllPlaced
  <2>2. Settled(m, b) \/ \E k \in DOMAIN m.loops : b \in m.loops[k].left
    BY <1>1, <2>1 DEF MapCore, AllPlaced
  <2>3. QED
    BY <1>5, <2>2
<1>14. RootsRight(u) /\ ViaRight(u)
  BY <1>1, <1>8, <1>9 DEF MapCore, RootsRight, ViaRight
<1>15. BugRight(u) /\ NoOverlap(u) /\ Forest(u.via)
  BY <1>1, <1>8 DEF MapCore, BugRight, NoOverlap
<1>16. MapCore(u)
  BY <1>7, <1>12, <1>13, <1>14, <1>15 DEF MapCore
<1> HIDE DEF t
<1>17. /\ MapCore(t)
       /\ t.fns = m.fns /\ t.bus = m.bus /\ t.via = m.via /\ t.guests = m.guests
       /\ t.loops = loops /\ t.turns = m.turns + 1 /\ SettledBridges(t) = SettledBridges(m)
  BY <1>8, <1>10, <1>16, CountedMap DEF t
<1>18. t.turns + Len(t.loops) <= 2 * (t.bus + Cardinality(SettledBridges(t)))
  <2>1. Cardinality(SettledBridges(m)) \in Nat
    BY <1>1, SettledCount
  <2>2. m.turns + Len(m.loops) <= 2 * (m.bus + Cardinality(SettledBridges(m)))
    BY DEF MapInv
  <2>3. (m.turns + 1) + Len(loops) <= 2 * (m.bus + Cardinality(SettledBridges(m)))
    BY <1>2, <1>3, <2>1, <2>2, TurnsAddUp
  <2>4. QED
    BY <1>17, <2>3
<1>19. (\A c \in t.via : c.first \in t.guests) /\ \A x \in 0 .. t.bus - 1 : Exists(t.fns, x) => x \in t.guests
  BY <1>17 DEF MapInv
<1>20. MapInv(t)
  BY <1>17, <1>18, <1>19 DEF MapInv
<1>21. QED
  BY <1>17, <1>20 DEF t, u

\* A map begins well.
LEMMA MapBegins ==
  ASSUME NEW fns \in Machine
  PROVE  MapInv([fn |-> "map", fns |-> fns, bus |-> 0, guests |-> {}, via |-> {}, bug |-> {},
                 loops |-> <<>>, turns |-> 0])
<1> DEFINE m == [fn |-> "map", fns |-> fns, bus |-> 0, guests |-> {}, via |-> {}, bug |-> {},
                 loops |-> <<>>, turns |-> 0]
<1>1. m \in MapState
  BY LastBusAssumption DEF MapState
<1>2. m.fns = fns /\ m.bus = 0 /\ m.guests = {} /\ m.via = {} /\ m.bug = {} /\ m.loops = <<>> /\ m.turns = 0
  OBVIOUS
<1> HIDE DEF m
<1>3. ViaRight(m) /\ BugRight(m) /\ LoopsRight(m) /\ AllPlaced(m) /\ RootsRight(m) /\ NoOverlap(m)
  <2>1. DOMAIN m.loops = {}
    BY <1>2
  <2>2. ViaRight(m) /\ BugRight(m) /\ NoOverlap(m)
    BY <1>2 DEF ViaRight, BugRight, NoOverlap
  <2>3. LoopsRight(m) /\ AllPlaced(m) /\ RootsRight(m)
    BY <1>2, <2>1 DEF LoopsRight, AllPlaced, RootsRight
  <2>4. QED
    BY <2>2, <2>3
<1>4. Forest(m.via)
  <2>1. ASSUME NEW S \in (SUBSET (0 .. LastBus)) \ {{}}, S \subseteq {b.bus : b \in {c \in m.via : c.first \in S}}
        PROVE  FALSE
    <3>1. PICK x : x \in S
      BY <2>1
    <3>2. PICK c \in m.via : x = c.bus
      BY <2>1, <3>1
    <3>3. QED
      BY <1>2, <3>2
  <2>2. \A b, c \in m.via : FALSE
    BY <1>2
  <2>3. QED
    BY <2>1, <2>2 DEF Forest
<1>5. MapCore(m)
  BY <1>1, <1>3, <1>4 DEF MapCore
<1>6. m.turns + Len(m.loops) <= 2 * (m.bus + Cardinality(SettledBridges(m)))
  <2>1. Cardinality(SettledBridges(m)) \in Nat
    BY <1>5, SettledCount
  <2>2. QED
    BY <1>2, <2>1
<1>7. MapInv(m)
  BY <1>2, <1>5, <1>6 DEF MapInv
<1>8. QED
  BY <1>7 DEF m

\* Of the two marks a bridge has as many as are set.
LEMMA MarksCount ==
  ASSUME NEW b, NEW bug, ~(<<b, 1>> \in bug /\ <<b, 2>> \in bug)
  PROVE  Cardinality({n \in 1 .. 2 : <<b, n>> \in bug}) =
           IF <<b, 1>> \in bug \/ <<b, 2>> \in bug THEN 1 ELSE 0
<1> DEFINE M == {n \in 1 .. 2 : <<b, n>> \in bug}
<1>1. CASE <<b, 1>> \in bug
  <2>1. M = {1}
    BY <1>1
  <2> HIDE DEF M
  <2>2. Cardinality(M) = 1
    BY <2>1, FS_Singleton
  <2>3. QED
    BY <1>1, <2>2 DEF M
<1>2. CASE <<b, 2>> \in bug
  <2>1. M = {2}
    BY <1>2
  <2> HIDE DEF M
  <2>2. Cardinality(M) = 1
    BY <2>1, FS_Singleton
  <2>3. QED
    BY <1>2, <2>2 DEF M
<1>3. CASE <<b, 1>> \notin bug /\ <<b, 2>> \notin bug
  <2>1. M = {}
    BY <1>3
  <2> HIDE DEF M
  <2>2. Cardinality(M) = 0
    BY <2>1, FS_EmptySet
  <2>3. QED
    BY <1>3, <2>2 DEF M
<1>4. QED
  BY <1>1, <1>2, <1>3

\* The map that is made, and when it is done.
LEMMA MapIsRight ==
  ASSUME NEW m, MapInv(m)
  PROVE  /\ Forest(m.via)
         /\ \A b \in AllBridges(m.fns) :
              <<b, 2>> \in m.bug =>
                \E c \in m.via : c.first = b.bus /\ ~(c.first <= b.first /\ b.last <= c.last)
         /\ m.turns <= 2 * (LastBus + 1 + Cardinality(AllBridges(m.fns)))
         /\ m.loops = <<>> /\ m.bus > LastBus =>
              /\ m.via \subseteq AllBridges(m.fns)
              /\ \A b \in AllBridges(m.fns) :
                   Cardinality({n \in 1 .. 2 : <<b, n>> \in m.bug}) = IF b \in m.via THEN 0 ELSE 1
              /\ SetUpWell(AllBridges(m.fns)) => m.via = AllBridges(m.fns)
<1> DEFINE B == AllBridges(m.fns)
<1>1. /\ m \in MapState /\ MapCore(m) /\ ViaRight(m) /\ BugRight(m) /\ AllPlaced(m)
      /\ Forest(m.via) /\ NoOverlap(m)
  BY DEF MapInv, MapCore
<1>2. m.fns \in Machine /\ m.bus \in 0 .. LastBus + 1 /\ m.turns \in Nat /\ m.loops \in Seq(Frame)
  BY <1>1 DEF MapState
<1>3. \A b \in B : b \in Link /\ Exists(m.fns, b.bus)
  BY <1>2, BridgeTyped
<1> HIDE DEF B
<1>4. ASSUME NEW b \in B, <<b, 2>> \in m.bug
      PROVE  \E c \in m.via : c.first = b.bus /\ ~(c.first <= b.first /\ b.last <= c.last)
  BY <1>1, <1>3, <1>4 DEF BugRight
<1>5. m.turns <= 2 * (LastBus + 1 + Cardinality(B))
  <2>1. m.turns + Len(m.loops) <= 2 * (m.bus + Cardinality(SettledBridges(m)))
    BY DEF MapInv
  <2>2. Cardinality(SettledBridges(m)) \in Nat /\ Cardinality(SettledBridges(m)) <= Cardinality(B)
    BY <1>1, SettledCount DEF B
  <2>3. Cardinality(B) \in Nat
    BY <1>2, BridgesFinite DEF B
  <2>4. Len(m.loops) \in Nat /\ m.bus \in Nat /\ m.bus <= LastBus + 1
    BY <1>2, LastBusAssumption
  <2>5. ASSUME NEW t \in Nat, NEW l \in Nat, NEW x \in Nat, NEW s \in Nat, NEW c \in Nat,
               t + l <= 2 * (x + s), s <= c, x <= LastBus + 1
        PROVE  t <= 2 * (LastBus + 1 + c)
    BY <2>5, LastBusAssumption
  <2>6. QED
    BY <1>2, <2>1, <2>2, <2>3, <2>4, <2>5
<1>6. ASSUME m.loops = <<>>, m.bus > LastBus
      PROVE  /\ m.via \subseteq B
             /\ \A b \in B : Cardinality({n \in 1 .. 2 : <<b, n>> \in m.bug}) = IF b \in m.via THEN 0 ELSE 1
             /\ SetUpWell(B) => m.via = B
  <2>1. m.via \subseteq B
    BY <1>1 DEF ViaRight, B
  <2>2. ASSUME NEW b \in B
        PROVE  Settled(m, b)
    <3>1. b.bus \in 0 .. LastBus
      BY <1>3 DEF Link
    <3>2. b.bus \in 0 .. m.bus - 1
      BY <1>2, <1>6, <3>1, LastBusAssumption
    <3>3. b.bus \in m.guests
      BY <1>3, <3>2 DEF MapInv
    <3>4. QED
      BY <1>1, <1>6, <3>3 DEF AllPlaced, B
  <2>3. ASSUME NEW b \in B
        PROVE  Cardinality({n \in 1 .. 2 : <<b, n>> \in m.bug}) = IF b \in m.via THEN 0 ELSE 1
    <3>1. ~(<<b, 1>> \in m.bug /\ <<b, 2>> \in m.bug)
      BY <1>1, <1>3 DEF BugRight
    <3>2. Cardinality({n \in 1 .. 2 : <<b, n>> \in m.bug}) =
            IF <<b, 1>> \in m.bug \/ <<b, 2>> \in m.bug THEN 1 ELSE 0
      <4> DEFINE g == m.bug
      <4>1. ~(<<b, 1>> \in g /\ <<b, 2>> \in g)
        BY <3>1
      <4> HIDE DEF g
      <4>2. Cardinality({n \in 1 .. 2 : <<b, n>> \in g}) = IF <<b, 1>> \in g \/ <<b, 2>> \in g THEN 1 ELSE 0
        BY <4>1, MarksCount
      <4>3. QED
        BY <4>2 DEF g
    <3>3. b \in m.via => <<b, 1>> \notin m.bug /\ <<b, 2>> \notin m.bug
      BY <1>1 DEF ViaRight
    <3>4. b \notin m.via => <<b, 1>> \in m.bug \/ <<b, 2>> \in m.bug
      BY <2>2 DEF Settled
    <3> DEFINE C == Cardinality({n \in 1 .. 2 : <<b, n>> \in m.bug})
    <3>5. C = IF <<b, 1>> \in m.bug \/ <<b, 2>> \in m.bug THEN 1 ELSE 0
      BY <3>2
    <3> HIDE DEF C
    <3>6. C = IF b \in m.via THEN 0 ELSE 1
      BY <3>3, <3>4, <3>5
    <3>7. QED
      BY <3>6 DEF C
  <2>4. ASSUME SetUpWell(B), NEW b \in B
        PROVE  b \in m.via
    <3>1. <<b, 1>> \notin m.bug
      BY <1>1, <1>3, <2>4 DEF NoOverlap, B
    <3>2. ASSUME <<b, 2>> \in m.bug
          PROVE  FALSE
      <4>1. PICK c \in m.via : c.first = b.bus /\ ~(c.first <= b.first /\ b.last <= c.last)
        BY <1>4, <3>2
      <4>2. b.bus < b.first /\ b.bus \in 0 .. LastBus /\ b.first \in 0 .. LastBus
        BY <1>3, <2>4 DEF SetUpWell, Link
      <4>3. c \in B \ {b}
        BY <2>1, <4>1, <4>2
      <4>4. b.last <= c.last
        BY <2>4, <4>1, <4>3 DEF SetUpWell
      <4>5. QED
        BY <4>1, <4>2, <4>4
    <3>3. QED
      BY <2>2, <3>1, <3>2 DEF Settled
  <2>5. QED
    BY <2>1, <2>3, <2>4
<1>7. QED
  BY <1>1, <1>4, <1>5, <1>6 DEF B

\* Filtering and scanning leave a machine.
LEMMA ScannedMachine ==
  ASSUME NEW fns \in Machine, NEW filter, NEW refused
  PROVE  Scanned(Probed(fns, filter), refused) \in Machine
<1> DEFINE P == Probed(fns, filter)
           G(f) == IF f \in refused THEN [f EXCEPT !.sec = None, !.sub = None] ELSE f
           I == {G(f) : f \in P}
<1>1. fns \subseteq MapFn /\ IsFiniteSet(fns) /\ \A f \in fns : f.sec # None => f.sub # None
  BY DEF Machine
<1>2. P \subseteq fns
  BY DEF Probed
<1>3. \A f \in P : G(f) \in MapFn /\ (G(f).sec # None => G(f).sub # None)
  <2>1. SUFFICES ASSUME NEW f \in P
                 PROVE  G(f) \in MapFn /\ (G(f).sec # None => G(f).sub # None)
    OBVIOUS
  <2>2. f \in MapFn /\ (f.sec # None => f.sub # None)
    BY <1>1, <1>2
  <2>3. CASE f \in refused
    <3> DEFINE g == [f EXCEPT !.sec = None, !.sub = None]
    <3>1. g \in MapFn /\ g.sec = None
      BY <2>2 DEF MapFn
    <3>2. G(f) = g
      BY <2>3
    <3>3. QED
      BY <3>1, <3>2
  <2>4. CASE f \notin refused
    BY <2>2, <2>4
  <2>5. QED
    BY <2>3, <2>4
<1>4. IsFiniteSet(I)
  <2>1. IsFiniteSet(P)
    BY <1>1, <1>2, FS_Subset
  <2>2. [f \in P |-> G(f)] \in Surjection(P, I)
    BY DEF Surjection
  <2>3. QED
    BY <2>1, <2>2, FS_Surjection
<1>5. I \subseteq MapFn /\ \A g \in I : g.sec # None => g.sub # None
  BY <1>3
<1>6. I = Scanned(P, refused)
  BY DEF Scanned
<1>7. QED
  BY <1>4, <1>5, <1>6 DEF Machine

\* A bridge off the map prints one bug.
OneBug(c) ==
  \A b \in AllBridges(c.fns) \ c.via :
    \E n \in 1 .. 2 : \A k \in 0 .. 2 : <<b, k>> \in c.printed <=> k = n

\* Every map is as it should be, and was when it was printed.
MapsMade ==
  /\ "fn" \in DOMAIN call
  /\ call.fn = "map" => MapInv(call)
  /\ call.fn = "mapped" => OneBug(call)

\* A map that is printed has come to its end.
LEMMA PrintOneBug ==
  ASSUME MapPrint, MapInv(call)
  PROVE  OneBug(call')
<1> DEFINE B == AllBridges(call.fns)
           bug == call.bug
<1>1. PICK held \in [B -> 0 .. 2] : call'.printed = Printed(call, B, held)
  BY PrintMaps
<1>2. call'.fns = call.fns /\ call'.via = call.via
  BY PrintMaps
<1>3. \A b \in B : Cardinality({n \in 1 .. 2 : <<b, n>> \in bug}) = IF b \in call.via THEN 0 ELSE 1
  <2>1. call.loops = <<>> /\ call.bus > LastBus
    BY PrintMaps DEF MapEnded
  <2>2. \A b \in AllBridges(call.fns) :
          Cardinality({n \in 1 .. 2 : <<b, n>> \in call.bug}) = IF b \in call.via THEN 0 ELSE 1
    BY <2>1, MapIsRight
  <2>3. QED
    BY <2>2
<1>4. SUFFICES ASSUME NEW b \in B \ call.via
               PROVE  \E n \in 1 .. 2 : \A k \in 0 .. 2 : <<b, k>> \in call'.printed <=> k = n
  <2>1. AllBridges(call'.fns) \ call'.via = B \ call.via
    BY <1>2
  <2>2. QED
    BY <2>1 DEF OneBug
<1> DEFINE M == {n \in 1 .. 2 : <<b, n>> \in bug}
<1>5. Cardinality(M) = 1
  BY <1>3, <1>4
<1>6. PICK n : M = {n}
  <2>1. M \subseteq 1 .. 2
    OBVIOUS
  <2> HIDE DEF M
  <2>2. IsFiniteSet(1 .. 2)
    <3>1. 1 \in Int /\ 2 \in Int
      OBVIOUS
    <3>2. QED
      BY <3>1, FS_Interval, Zenon
  <2>3. IsFiniteSet(M)
    BY <2>1, <2>2, FS_Subset
  <2>4. QED
    BY <1>5, <2>3, FS_Singleton
<1>7. bug \in SUBSET (Link \X (1 .. 2))
  BY DEF MapInv, MapCore, MapState
<1>8. <<b, 0>> \notin bug
  BY <1>7
<1>9. n \in 1 .. 2 /\ <<b, n>> \in bug
  BY <1>6
<1>10. ASSUME NEW k \in 0 .. 2
       PROVE  <<b, k>> \in Printed(call, B, held) <=> k = n
  <2>1. <<b, k>> \in bug <=> k = n
    BY <1>6, <1>8, <1>9
  <2>2. ASSUME NEW c \in {c \in B : \A i \in 1 .. 2 : <<c, i>> \notin bug}
        PROVE  <<b, k>> # <<c, held[c]>>
    BY <1>9, <2>2
  <2>3. <<b, k>> \in Printed(call, B, held) <=> <<b, k>> \in bug
    BY <2>2 DEF Printed
  <2>4. QED
    BY <2>1, <2>3
<1>11. QED
  BY <1>1, <1>9, <1>10

\* What is no map says nothing of one.
LEMMA NoMap ==
  ASSUME Call, ~MapTheBus
  PROVE  "fn" \in DOMAIN call' /\ call'.fn \notin {"map", "mapped"}
<1>1. CASE SlotFilter
  BY <1>1 DEF SlotFilter
<1>2. CASE IdFilter
  BY <1>2 DEF IdFilter
<1>3. CASE PortFilter
  BY <1>3 DEF PortFilter
<1>4. CASE BlockTransfer
  BY <1>4 DEF BlockTransfer
<1>5. CASE BusScan
  BY <1>5 DEF BusScan
<1>6. CASE FillBases
  BY <1>6 DEF FillBases
<1>7. CASE OpParse
  BY <1>7 DEF OpParse
<1>8. CASE OpExec
  BY <1>8 DEF OpExec
<1>9. CASE SetpciRun
  BY <1>9 DEF SetpciRun
<1>10. CASE VpdRun
  BY <1>10 DEF VpdRun
<1>11. QED
  BY <1>1, <1>2, <1>3, <1>4, <1>5, <1>6, <1>7, <1>8, <1>9, <1>10 DEF Call

\* It stays so.
LEMMA AlwaysMapsMade == Spec => []MapsMade
<1>1. Init => MapsMade
  BY DEF Init, NoCall, MapsMade
<1>2. MapsMade /\ [Next]_call => MapsMade'
  <2>1. SUFFICES ASSUME MapsMade, [Next]_call
                 PROVE  MapsMade'
    OBVIOUS
  <2>2. CASE MapTheBus
    <3>1. PICK fns \in Maps, filter \in MapFilters : \E refused \in SUBSET Probed(fns, filter) :
            call' = [fn |-> "map", fns |-> Scanned(Probed(fns, filter), refused), bus |-> 0,
                     guests |-> {}, via |-> {}, bug |-> {}, loops |-> <<>>, turns |-> 0]
      BY <2>2 DEF MapTheBus
    <3>0. PICK refused \in SUBSET Probed(fns, filter) :
            call' = [fn |-> "map", fns |-> Scanned(Probed(fns, filter), refused), bus |-> 0,
                     guests |-> {}, via |-> {}, bug |-> {}, loops |-> <<>>, turns |-> 0]
      BY <3>1
    <3>2. Scanned(Probed(fns, filter), refused) \in Machine
      <4>1. fns \in Machine
        BY MapsAssumption DEF Machine, MapFn
      <4>2. QED
        BY <4>1, ScannedMachine
    <3>3. MapInv(call')
      BY <3>0, <3>2, MapBegins
    <3>4. "fn" \in DOMAIN call' /\ call'.fn = "map"
      BY <3>0
    <3>5. QED
      BY <3>3, <3>4 DEF MapsMade
  <2>3. CASE Call /\ ~MapTheBus
    BY <2>3, NoMap DEF MapsMade
  <2>8. CASE MapPrint
    BY <2>1, <2>8, PrintMaps, PrintOneBug DEF MapsMade
  <2>4. CASE MapTurn
    <3>1. "fn" \in DOMAIN call' /\ call.fn = "map" /\ MapInv(call)
      BY <2>1, <2>4, TurnsKeepCall DEF MapsMade
    <3> call'.fn = "map"
      BY <2>1, <2>4, TurnsKeepCall DEF MapsMade
    <3>2. CASE call.loops = <<>> /\ call.bus <= LastBus /\ call' = Counted(MapBus(call, LastBus))
      BY <3>1, <3>2, BusTurn DEF MapsMade
    <3>3. CASE call.loops # <<>> /\ Head(call.loops).left # {} /\ call' = Counted(MapBridge(call))
      BY <3>1, <3>3, BridgeTurn DEF MapsMade
    <3>4. CASE call.loops # <<>> /\ Head(call.loops).left = {} /\ call' = Counted(MapReturn(call))
      BY <3>1, <3>4, LeaveTurn DEF MapsMade
    <3>5. QED
      BY <2>4, <3>2, <3>3, <3>4 DEF MapTurn
  <2>5. CASE ScanTurn \/ VpdTurn
    <3>1. "fn" \in DOMAIN call' /\ call'.fn \in {"scan", "vpd"}
      BY <2>1, <2>5, TurnsKeepCall DEF MapsMade
    <3>2. QED
      BY <3>1 DEF MapsMade
  <2>6. CASE call' = call
    BY <2>1, <2>6 DEF MapsMade
  <2>7. QED
    BY <2>1, <2>2, <2>3, <2>4, <2>5, <2>6, <2>8 DEF Next
<1>3. QED
  BY <1>1, <1>2, PTL DEF Spec

\* Of any machine, through any filter, the bus map is a forest, its walk ends,
\* and each bridge that was seen is on the map or was given one mark, which is
\* what is printed of it.
THEOREM MapExact == Spec => []MapIsForest
<1>1. MapsMade => MapIsForest
  <2>0. MapsMade /\ call.fn # "map" => MapIsForest
    BY DEF MapsMade, OneBug, MapIsForest
  <2>1. SUFFICES ASSUME MapsMade, call.fn = "map"
                 PROVE  MapIsForest
    BY <2>0
  <2>2. MapInv(call)
    BY <2>1 DEF MapsMade
  <2> DEFINE bridges == AllBridges(call.fns)
             via == call.via
             bug == call.bug
             Up(S) == {b.bus : b \in {c \in via : c.first \in S}}
  <2>3. Forest(via)
    BY <2>2, MapIsRight
  <2>4. \A b, c \in via :
          /\ b.first = c.first => b = c
          /\ b.bus = c.first => c.first <= b.first /\ b.last <= c.last
    BY <2>3 DEF Forest
  <2>5. ~\E S \in (SUBSET (0 .. LastBus)) \ {{}} : S \subseteq Up(S)
    BY <2>3 DEF Forest
  <2>6. \A b \in bridges :
          <<b, 2>> \in bug =>
            \E c \in via : c.first = b.bus /\ ~(c.first <= b.first /\ b.last <= c.last)
    BY <2>2, MapIsRight
  <2>7. call.turns <= 2 * (LastBus + 1 + Cardinality(bridges))
    BY <2>2, MapIsRight
  <2>8. MapEnded =>
          /\ via \subseteq bridges
          /\ \A b \in bridges : Cardinality({n \in 1 .. 2 : <<b, n>> \in bug}) = IF b \in via THEN 0 ELSE 1
          /\ SetUpWell(bridges) => via = bridges
    BY <2>2, MapIsRight, Zenon DEF MapEnded
  <2>9. QED
    BY <2>1, <2>4, <2>5, <2>6, <2>7, <2>8, Zenon DEF MapIsForest
<1>2. QED
  BY <1>1, AlwaysMapsMade, PTL

(***************************************************************************)
(* Vital product data.  Sums of bytes are differences of the sums of their *)
(* prefixes, so the sum of what is read is that of what was covered.       *)
(***************************************************************************)

\* Vital product data.
IsImage(vpd) == DOMAIN vpd \subseteq Nat /\ vpd \in [DOMAIN vpd -> 0 .. 255]

\* p[i] is the sum of the bytes before i.
SumPrefixes(vpd, n, p) ==
  /\ p \in [0 .. n -> 0 .. 255] /\ p[0] = 0
  /\ \A i \in 1 .. n : i - 1 \in DOMAIN vpd => p[i] = (p[i - 1] + vpd[i - 1]) % 256

\* There are such sums.
LEMMA PrefixesExist ==
  ASSUME NEW vpd, IsImage(vpd), NEW n \in Nat
  PROVE  \E p : SumPrefixes(vpd, n, p)
<1> DEFINE V == 0 .. 255
           w == [i \in 1 .. n |-> IF i - 1 \in DOMAIN vpd THEN vpd[i - 1] ELSE 0]
           G == [i \in 1 .. n |-> [x \in V |-> (x + w[i]) % 256]]
<1>1. \A i \in 1 .. n : w[i] \in 0 .. 255
  BY DEF IsImage
<1>2. G \in [1 .. n -> [V -> V]]
  <2>1. ASSUME NEW i \in 1 .. n, NEW x \in V
        PROVE  (x + w[i]) % 256 \in V
    <3>1. w[i] \in 0 .. 255
      BY <1>1
    <3> HIDE DEF w
    <3>2. ASSUME NEW a \in 0 .. 255, NEW b \in 0 .. 255
          PROVE  (a + b) % 256 \in 0 .. 255
      OBVIOUS
    <3>3. QED
      BY <3>1, <3>2, Zenon
  <2> HIDE DEF w, V
  <2>2. QED
    BY <2>1
<1>3. 0 \in V
  OBVIOUS
<1>4. PICK p \in [0 .. n -> V] : Recursively(p, n, 0, G)
  <2> HIDE DEF G, V
  <2>1. QED
    BY <1>2, <1>3, RecursionExists
<1>5. ASSUME NEW i \in 1 .. n, i - 1 \in DOMAIN vpd
      PROVE  p[i] = (p[i - 1] + vpd[i - 1]) % 256
  <2>1. p[i] = G[i][p[i - 1]]
    <3> HIDE DEF G, V
    <3>1. QED
      BY <1>4 DEF Recursively
  <2>2. p[i - 1] \in V
    <3> HIDE DEF G, V
    <3>1. i - 1 \in 0 .. n
      OBVIOUS
    <3>2. QED
      BY <1>4, <3>1
  <2>3. w[i] = vpd[i - 1]
    BY <1>5
  <2>4. G[i][p[i - 1]] = (p[i - 1] + w[i]) % 256
    <3> HIDE DEF V, w
    <3>1. QED
      BY <2>2
  <2>5. QED
    BY <2>1, <2>3, <2>4, Zenon
<1>6. p[0] = 0
  BY <1>4 DEF Recursively
<1>7. QED
  BY <1>4, <1>5, <1>6, Zenon DEF SumPrefixes

\* The parts of a span of bytes.
Spans(pos, len) == {s \in (pos .. pos + len) \X (pos .. pos + len) : s[1] <= s[2]}

\* The sum of a part, by those of its halves.
HalfSum(vpd, f, s) ==
  LET mid == (s[1] + s[2]) \div 2
  IN  CASE s[2] = s[1]     -> 0
        [] s[2] = s[1] + 1 -> vpd[s[1]]
        [] OTHER           -> (f[<<s[1], mid>>] + f[<<mid, s[2]>>]) % 256

\* The differences of the prefixes are as the sums should be.
LEMMA DifferencesAreSums ==
  ASSUME NEW vpd, IsImage(vpd), NEW n \in Nat, NEW p, SumPrefixes(vpd, n, p),
         NEW x \in Nat, NEW y \in Nat, x <= y, y <= n, x .. y - 1 \subseteq DOMAIN vpd
  PROVE  LET mid == (x + y) \div 2
         IN  /\ y = x => (p[y] - p[x]) % 256 = 0
             /\ y = x + 1 => (p[y] - p[x]) % 256 = vpd[x]
             /\ y > x + 1 => /\ x < mid /\ mid < y /\ mid \in Nat
                             /\ (p[y] - p[x]) % 256 = (((p[mid] - p[x]) % 256) + ((p[y] - p[mid]) % 256)) % 256
<1> DEFINE mid == (x + y) \div 2
<1>1. \A i \in 0 .. n : p[i] \in 0 .. 255
  BY DEF SumPrefixes
<1>2. p[x] \in 0 .. 255 /\ p[y] \in 0 .. 255
  BY <1>1
<1>3. y = x => (p[y] - p[x]) % 256 = 0
  BY <1>2
<1>4. ASSUME y = x + 1 PROVE (p[y] - p[x]) % 256 = vpd[x]
  <2>1. x \in DOMAIN vpd
    BY <1>4
  <2>2. vpd[x] \in 0 .. 255
    BY <2>1 DEF IsImage
  <2>3. p[y] = (p[x] + vpd[x]) % 256
    <3>1. y \in 1 .. n /\ y - 1 = x
      BY <1>4
    <3>2. y - 1 \in DOMAIN vpd => p[y] = (p[y - 1] + vpd[y - 1]) % 256
      BY <3>1 DEF SumPrefixes
    <3>3. QED
      BY <2>1, <3>1, <3>2, Zenon
  <2>4. PICK a, b, c \in 0 .. 255 : a = p[x] /\ b = vpd[x] /\ c = p[y]
    BY <1>2, <2>2, Zenon
  <2>5. c = (a + b) % 256
    BY <2>3, <2>4
  <2>6. c = IF a + b < 256 THEN a + b ELSE a + b - 256
    <3>1. PICK m \in 0 .. 510 : m = a + b
      OBVIOUS
    <3>2. m % 256 = IF m < 256 THEN m ELSE m - 256
      BY m \in 0 .. 510
    <3>3. QED
      BY <2>5, <3>1, <3>2
  <2>7. (c - a) % 256 = b
    <3>1. CASE a + b < 256
      <4>1. c - a = b
        BY <2>6, <3>1
      <4>2. b % 256 = b
        OBVIOUS
      <4>3. QED
        BY <4>1, <4>2
    <3>2. CASE a + b >= 256
      <4>1. c - a = b - 256
        BY <2>6, <3>2
      <4>2. (b - 256) % 256 = b
        OBVIOUS
      <4>3. QED
        BY <4>1, <4>2
    <3>3. QED
      BY <3>1, <3>2
  <2>8. QED
    BY <2>4, <2>7
<1>5. ASSUME y > x + 1
      PROVE  /\ x < mid /\ mid < y /\ mid \in Nat
             /\ (p[y] - p[x]) % 256 = (((p[mid] - p[x]) % 256) + ((p[y] - p[mid]) % 256)) % 256
  <2>1. x < mid /\ mid < y /\ mid \in Nat
    BY <1>5
  <2> HIDE DEF mid
  <2>2. p[mid] \in 0 .. 255
    BY <1>1, <2>1
  <2>3. PICK a, b, c \in 0 .. 255 : a = p[x] /\ b = p[mid] /\ c = p[y]
    BY <1>2, <2>2, Zenon
  <2>4. (p[y] - p[x]) % 256 = (((p[mid] - p[x]) % 256) + ((p[y] - p[mid]) % 256)) % 256
    <3>1. PICK d \in 0 .. 255 : d = (b - a) % 256 /\ d = IF b >= a THEN b - a ELSE b - a + 256
      <4>1. (b - a) % 256 = IF b >= a THEN b - a ELSE b - a + 256
        OBVIOUS
      <4>2. QED
        BY <4>1
    <3>2. PICK e \in 0 .. 255 : e = (c - b) % 256 /\ e = IF c >= b THEN c - b ELSE c - b + 256
      <4>1. (c - b) % 256 = IF c >= b THEN c - b ELSE c - b + 256
        OBVIOUS
      <4>2. QED
        BY <4>1
    <3>3. (c - a) % 256 = IF c >= a THEN c - a ELSE c - a + 256
      OBVIOUS
    <3>4. (d + e) % 256 = IF d + e < 256 THEN d + e ELSE d + e - 256
      OBVIOUS
    <3>5. (c - a) % 256 = (d + e) % 256
      BY <3>1, <3>2, <3>3, <3>4
    <3>6. QED
      BY <2>3, <3>1, <3>2, <3>5
  <2>5. QED
    BY <2>1, <2>4, Zenon
<1>6. QED
  BY <1>3, <1>4, <1>5, Zenon

\* The sum of the bytes read is the difference of the prefixes.
LEMMA ByteSumIsDifference ==
  ASSUME NEW vpd, IsImage(vpd), NEW n \in Nat, NEW p, SumPrefixes(vpd, n, p),
         NEW pos \in Nat, NEW len \in Nat, pos + len <= n, Readable(vpd, pos, len)
  PROVE  ByteSum(vpd, pos, len) = (p[pos + len] - p[pos]) % 256
<1> DEFINE S == Spans(pos, len)
           Def(f) == f = [s \in S |-> HalfSum(vpd, f, s)]
           sum == CHOOSE f : Def(f)
           diff == [s \in S |-> (p[s[2]] - p[s[1]]) % 256]
<1>1. \A s \in S : /\ s = <<s[1], s[2]>> /\ s[1] \in Nat /\ s[2] \in Nat /\ s[1] <= s[2]
                   /\ pos <= s[1] /\ s[2] <= pos + len
  BY DEF Spans
<1>2. \A x, y \in Nat : pos <= x /\ x <= y /\ y <= pos + len => <<x, y>> \in S
  BY DEF Spans
<1>3. \A s \in S : diff[s] = (p[s[2]] - p[s[1]]) % 256
  OBVIOUS
<1> HIDE DEF S, diff
<1>4. ASSUME NEW s \in S
      PROVE  diff[s] = HalfSum(vpd, diff, s)
  <2> DEFINE x == s[1]
             y == s[2]
             mid == (x + y) \div 2
  <2>1. x \in Nat /\ y \in Nat /\ x <= y /\ pos <= x /\ y <= pos + len /\ y <= n
    BY <1>1
  <2>2. x .. y - 1 \subseteq DOMAIN vpd
    BY <2>1 DEF Readable
  <2>3. /\ y = x => (p[y] - p[x]) % 256 = 0
        /\ y = x + 1 => (p[y] - p[x]) % 256 = vpd[x]
        /\ y > x + 1 => /\ x < mid /\ mid < y /\ mid \in Nat
                        /\ (p[y] - p[x]) % 256 = (((p[mid] - p[x]) % 256) + ((p[y] - p[mid]) % 256)) % 256
    <3> HIDE DEF x, y
    <3>1. QED
      BY <2>1, <2>2, DifferencesAreSums
  <2>4. diff[s] = (p[y] - p[x]) % 256
    BY <1>3
  <2>5. HalfSum(vpd, diff, s) = CASE y = x     -> 0
                                  [] y = x + 1 -> vpd[x]
                                  [] OTHER     -> (diff[<<x, mid>>] + diff[<<mid, y>>]) % 256
    BY Zenon DEF HalfSum
  <2> HIDE DEF x, y, mid
  <2>6. CASE y = x
    BY <2>1, <2>3, <2>4, <2>5, <2>6
  <2>7. CASE y = x + 1
    BY <2>1, <2>3, <2>4, <2>5, <2>7
  <2>8. CASE y > x + 1
    <3>1. <<x, mid>> \in S /\ <<mid, y>> \in S
      BY <1>2, <2>1, <2>3, <2>8
    <3>2. diff[<<x, mid>>] = (p[mid] - p[x]) % 256 /\ diff[<<mid, y>>] = (p[y] - p[mid]) % 256
      BY <1>3, <3>1
    <3>3. HalfSum(vpd, diff, s) = (diff[<<x, mid>>] + diff[<<mid, y>>]) % 256
      BY <2>1, <2>5, <2>8
    <3>4. QED
      BY <2>3, <2>4, <2>8, <3>2, <3>3
  <2>9. QED
    BY <2>1, <2>6, <2>7, <2>8
<1>5. Def(diff)
  <2>1. diff = [s \in S |-> diff[s]]
    BY DEF diff
  <2>2. QED
    BY <1>4, <2>1
<1>6. Def(sum)
  <2> HIDE DEF Def
  <2>1. QED
    BY <1>5
<1>7. ByteSum(vpd, pos, len) = sum[<<pos, pos + len>>]
  BY DEF ByteSum, HalfSum, Spans, S
<1> HIDE DEF sum
<1>8. \A s \in S : sum[s] = HalfSum(vpd, sum, s)
  BY <1>6
<1> HIDE DEF Def
<1> DEFINE T == {d \in 0 .. len : \A s \in S : s[2] - s[1] <= d => sum[s] = diff[s]}
<1>9. 0 \in T
  <2>1. ASSUME NEW s \in S, s[2] - s[1] <= 0
        PROVE  sum[s] = diff[s]
    <3>1. s[2] = s[1] /\ s[1] \in Nat
      <4>1. s[1] \in Nat /\ s[2] \in Nat /\ s[1] <= s[2]
        BY <1>1
      <4>2. QED
        BY <2>1, <4>1
    <3>2. HalfSum(vpd, sum, s) = 0 /\ HalfSum(vpd, diff, s) = 0
      BY <3>1 DEF HalfSum
    <3>3. QED
      BY <1>4, <1>8, <3>2, Zenon
  <2>2. QED
    BY <2>1
<1>10. ASSUME NEW d \in 1 .. len, d - 1 \in T
       PROVE  d \in T
  <2>1. ASSUME NEW s \in S, s[2] - s[1] <= d
        PROVE  sum[s] = diff[s]
    <3> DEFINE x == s[1]
               y == s[2]
               mid == (x + y) \div 2
    <3>1. x \in Nat /\ y \in Nat /\ x <= y /\ pos <= x /\ y <= pos + len /\ y - x <= d
      BY <1>1, <2>1
    <3>2. CASE y - x <= 1
      <4>1. y = x \/ y = x + 1
        BY <3>1, <3>2
      <4>2. HalfSum(vpd, sum, s) = HalfSum(vpd, diff, s)
        BY <3>1, <4>1 DEF HalfSum
      <4>3. QED
        BY <1>4, <1>8, <4>2, Zenon
    <3>3. CASE y - x > 1
      <4> HIDE DEF x, y
      <4>1. mid \in Nat /\ x < mid /\ mid < y
        BY <3>1, <3>3
      <4>2. HalfSum(vpd, sum, s) = (sum[<<x, mid>>] + sum[<<mid, y>>]) % 256
            /\ HalfSum(vpd, diff, s) = (diff[<<x, mid>>] + diff[<<mid, y>>]) % 256
        BY <3>1, <3>3 DEF HalfSum, x, y
      <4> HIDE DEF mid
      <4>3. <<x, mid>> \in S /\ <<mid, y>> \in S
        BY <1>2, <3>1, <4>1
      <4>4. mid - x <= d - 1 /\ y - mid <= d - 1
        BY <3>1, <4>1
      <4>5. \A r \in S : r[2] - r[1] <= d - 1 => sum[r] = diff[r]
        BY <1>10
      <4>6. sum[<<x, mid>>] = diff[<<x, mid>>] /\ sum[<<mid, y>>] = diff[<<mid, y>>]
        <5>1. <<x, mid>>[1] = x /\ <<x, mid>>[2] = mid /\ <<mid, y>>[1] = mid /\ <<mid, y>>[2] = y
          OBVIOUS
        <5>2. QED
          BY <4>3, <4>4, <4>5, <5>1
      <4>7. QED
        BY <1>4, <1>8, <4>2, <4>6, Zenon
    <3>4. QED
      BY <3>1, <3>2, <3>3
  <2>2. QED
    BY <2>1
<1>11. 0 .. len \subseteq T
  <2> HIDE DEF T
  <2>1. QED
    BY <1>9, <1>10, UpToInduct
<1>12. sum[<<pos, pos + len>>] = diff[<<pos, pos + len>>]
  <2>1. len \in T
    BY <1>11
  <2>2. <<pos, pos + len>> \in S
    BY <1>2
  <2>3. <<pos, pos + len>>[2] - <<pos, pos + len>>[1] <= len
    OBVIOUS
  <2>4. QED
    BY <2>1, <2>2, <2>3
<1>13. diff[<<pos, pos + len>>] = (p[pos + len] - p[pos]) % 256
  <2>1. <<pos, pos + len>> \in S
    BY <1>2
  <2>2. QED
    BY <1>3, <2>1
<1>14. QED
  BY <1>7, <1>12, <1>13, Zenon

\* Sums of neighbouring blocks add up.
LEMMA ByteSumAdds ==
  ASSUME NEW vpd, IsImage(vpd), NEW a \in Nat, NEW b \in Nat, Readable(vpd, 0, a + b)
  PROVE  /\ ByteSum(vpd, 0, a) \in 0 .. 255 /\ ByteSum(vpd, a, b) \in 0 .. 255
         /\ ByteSum(vpd, 0, a + b) = (ByteSum(vpd, 0, a) + ByteSum(vpd, a, b)) % 256
<1>1. PICK p : SumPrefixes(vpd, a + b, p)
  BY PrefixesExist
<1>2. Readable(vpd, 0, a) /\ Readable(vpd, a, b)
  BY DEF Readable
<1>3. p[0] = 0 /\ p[a] \in 0 .. 255 /\ p[a + b] \in 0 .. 255
  BY <1>1 DEF SumPrefixes
<1>4. ByteSum(vpd, 0, a) = (p[0 + a] - p[0]) % 256
  BY <1>1, <1>2, ByteSumIsDifference
<1>5. ByteSum(vpd, a, b) = (p[a + b] - p[a]) % 256
  BY <1>1, <1>2, ByteSumIsDifference
<1>6. ByteSum(vpd, 0, a + b) = (p[0 + (a + b)] - p[0]) % 256
  BY <1>1, ByteSumIsDifference
<1>7. 0 + a = a /\ 0 + (a + b) = a + b
  OBVIOUS
<1>8. PICK x, y \in 0 .. 255 : x = p[a] /\ y = p[a + b]
  BY <1>3, Zenon
<1>9. /\ ByteSum(vpd, 0, a) = (p[a] - 0) % 256
      /\ ByteSum(vpd, 0, a + b) = (p[a + b] - 0) % 256
  BY <1>3, <1>4, <1>6, <1>7, Zenon
<1>10. /\ ByteSum(vpd, 0, a) = p[a] /\ ByteSum(vpd, 0, a + b) = p[a + b]
       /\ ByteSum(vpd, a, b) \in 0 .. 255
       /\ p[a + b] = (p[a] + ByteSum(vpd, a, b)) % 256
  <2>1. (x - 0) % 256 = x /\ (y - 0) % 256 = y
    OBVIOUS
  <2>2. PICK d \in 0 .. 255 : d = (y - x) % 256
    <3>1. (y - x) % 256 \in 0 .. 255
      OBVIOUS
    <3>2. QED
      BY <3>1
  <2>3. y = (x + d) % 256
    <3>1. d = IF y >= x THEN y - x ELSE y - x + 256
      <4>1. PICK n \in -255 .. 255 : n = y - x
        OBVIOUS
      <4>2. n % 256 = IF n >= 0 THEN n ELSE n + 256
        BY n \in -255 .. 255
      <4>3. QED
        BY <2>2, <4>1, <4>2
    <3>2. x + d = y \/ x + d = y + 256
      BY <3>1
    <3>3. y % 256 = y /\ (y + 256) % 256 = y
      OBVIOUS
    <3>4. CASE x + d = y
      BY <3>3, <3>4
    <3>5. CASE x + d = y + 256
      BY <3>3, <3>5
    <3>6. QED
      BY <3>2, <3>4, <3>5, Zenon
  <2>4. ByteSum(vpd, a, b) = d
    BY <1>5, <1>8, <2>2
  <2>5. ByteSum(vpd, 0, a) = x /\ ByteSum(vpd, 0, a + b) = y
    BY <1>8, <1>9, <2>1
  <2>6. QED
    BY <1>8, <2>3, <2>4, <2>5
<1>11. QED
  BY <1>3, <1>10

\* A block that is read has a sum.
LEMMA ByteSumTyped ==
  ASSUME NEW vpd, IsImage(vpd), NEW pos \in Nat, NEW len \in Nat, Readable(vpd, pos, len)
  PROVE  ByteSum(vpd, pos, len) \in 0 .. 255
<1>1. PICK p : SumPrefixes(vpd, pos + len, p)
  BY PrefixesExist
<1>2. p[pos] \in 0 .. 255 /\ p[pos + len] \in 0 .. 255
  BY <1>1 DEF SumPrefixes
<1>3. ByteSum(vpd, pos, len) = (p[pos + len] - p[pos]) % 256
  BY <1>1, ByteSumIsDifference
<1>4. PICK x, y \in 0 .. 255 : x = p[pos] /\ y = p[pos + len]
  BY <1>2, Zenon
<1>5. (y - x) % 256 \in 0 .. 255
  OBVIOUS
<1>6. QED
  BY <1>3, <1>4, <1>5

\* What a walk is made of.
VpdEntry ==
  [what : {"read"}, pos : Nat, len : 0 .. VpdBuffer] \cup [what : {"verdict"}, good : BOOLEAN]

\* The reads among them,
ReadsOf(walk) == {i \in DOMAIN walk : walk[i].what = "read"}

\* the verdicts,
VerdictsOf(walk) == DOMAIN walk \ ReadsOf(walk)

\* the end of a read,
EndOf(walk, i) == walk[i].pos + walk[i].len

\* The byte of an empty reserved field is read twice.
Slack(vpd, walk, i) == IF i + 1 \in VerdictsOf(walk) /\ vpd[walk[i].pos - 1] = 0 THEN 1 ELSE 0

\* and the bytes that the reads in I cover.
CoveredBy(walk, I) == UNION {walk[i].pos .. EndOf(walk, i) - 1 : i \in I}

\* Reads go forward and have reached top.
ReadsRight(vpd, walk, top) ==
  \A i \in ReadsOf(walk) :
    /\ Readable(vpd, walk[i].pos, walk[i].len)
    /\ EndOf(walk, i) - Slack(vpd, walk, i) <= top
    /\ \A j \in ReadsOf(walk) : i < j => EndOf(walk, i) - Slack(vpd, walk, i) <= walk[j].pos

\* Before the first verdict the sum is that of the bytes up to the end of the
\* reads, if these left none out.
SumRight(vpd, walk, csum) ==
  VerdictsOf(walk) = {} =>
    \A q \in Nat :
      /\ \A i \in ReadsOf(walk) : EndOf(walk, i) <= q
      /\ 0 .. q - 1 \subseteq CoveredBy(walk, ReadsOf(walk))
      => csum = ByteSum(vpd, 0, q)

\* A verdict follows a read, and the first one is right.
VerdictRight(vpd, walk, v) ==
  /\ v - 1 \in ReadsOf(walk)
  /\ /\ \A u \in VerdictsOf(walk) : v <= u
     /\ 0 .. walk[v - 1].pos \subseteq CoveredBy(walk, {i \in ReadsOf(walk) : i < v})
     => (walk[v].good <=> ByteSum(vpd, 0, walk[v - 1].pos + 1) = 0)

\* The inductive invariant of a walk that goes on at top.
WalkRight(vpd, walk, csum, top) ==
  /\ walk \in Seq(VpdEntry) /\ csum \in 0 .. 255
  /\ ReadsRight(vpd, walk, top) /\ SumRight(vpd, walk, csum)
  /\ \A v \in VerdictsOf(walk) : VerdictRight(vpd, walk, v)

\* Entries are reads or verdicts.
LEMMA EntriesTyped ==
  ASSUME NEW walk \in Seq(VpdEntry)
  PROVE  /\ \A i \in ReadsOf(walk) : /\ i \in 1 .. Len(walk) /\ walk[i].pos \in Nat
                                     /\ walk[i].len \in 0 .. VpdBuffer /\ EndOf(walk, i) \in Nat
         /\ \A i \in VerdictsOf(walk) : i \in 1 .. Len(walk)
<1>1. \A i \in 1 .. Len(walk) : walk[i] \in VpdEntry
  OBVIOUS
<1>2. DOMAIN walk = 1 .. Len(walk)
  OBVIOUS
<1>3. ASSUME NEW i \in ReadsOf(walk)
      PROVE  i \in 1 .. Len(walk) /\ walk[i].pos \in Nat /\ walk[i].len \in 0 .. VpdBuffer
  <2>1. i \in 1 .. Len(walk) /\ walk[i].what = "read"
    BY <1>2 DEF ReadsOf
  <2>2. walk[i] \in VpdEntry
    BY <1>1, <2>1
  <2>3. QED
    BY <2>1, <2>2 DEF VpdEntry
<1>4. ASSUME NEW i \in ReadsOf(walk)
      PROVE  EndOf(walk, i) \in Nat
  <2>1. walk[i].pos \in Nat /\ walk[i].len \in Nat
    <3>1. \A x \in 0 .. VpdBuffer : x \in Nat
      BY DEF VpdBuffer
    <3>2. walk[i].pos \in Nat /\ walk[i].len \in 0 .. VpdBuffer
      BY <1>3, Zenon
    <3>3. QED
      BY <3>1, <3>2, Zenon
  <2>2. ASSUME NEW a \in Nat, NEW b \in Nat PROVE a + b \in Nat
    OBVIOUS
  <2>3. QED
    BY <2>1, <2>2 DEF EndOf
<1>5. \A i \in VerdictsOf(walk) : i \in 1 .. Len(walk)
  BY <1>2 DEF VerdictsOf
<1>6. QED
  BY <1>3, <1>4, <1>5

\* A read that begins at top or behind it keeps the walk right.
LEMMA ReadKeepsWalk ==
  ASSUME NEW vpd, IsImage(vpd), NEW walk, NEW csum, NEW top \in Nat, WalkRight(vpd, walk, csum, top),
         NEW pos \in Nat, NEW n \in 0 .. VpdBuffer, top <= pos, Readable(vpd, pos, n)
  PROVE  WalkRight(vpd, Append(walk, [what |-> "read", pos |-> pos, len |-> n]),
                   (csum + ByteSum(vpd, pos, n)) % 256, pos + n)
<1> DEFINE e == [what |-> "read", pos |-> pos, len |-> n]
           long == Append(walk, e)
           L == Len(walk)
           R == ReadsOf(walk)
           V == VerdictsOf(walk)
<1>1. walk \in Seq(VpdEntry) /\ L \in Nat /\ DOMAIN walk = 1 .. L /\ csum \in 0 .. 255
  BY DEF WalkRight
<1>2. e \in VpdEntry /\ e.what = "read" /\ e.pos = pos /\ e.len = n
  BY DEF VpdEntry
<1>3. n \in Nat /\ n <= VpdBuffer
  BY DEF VpdBuffer
<1> HIDE DEF e
<1>4. /\ long \in Seq(VpdEntry) /\ Len(long) = L + 1 /\ DOMAIN long = 1 .. L + 1
      /\ long[L + 1] = e /\ \A i \in 1 .. L : long[i] = walk[i]
  BY <1>1, <1>2
<1> HIDE DEF long, L
<1>5. ReadsOf(long) = R \cup {L + 1} /\ VerdictsOf(long) = V /\ L + 1 \notin R /\ L + 1 \notin V
  <2>1. ReadsOf(long) = R \cup {L + 1} /\ L + 1 \notin R
    BY <1>1, <1>2, <1>4 DEF ReadsOf
  <2>2. L + 1 \notin V
    BY <1>1 DEF VerdictsOf
  <2>3. VerdictsOf(long) = V
    <3>1. DOMAIN long = DOMAIN walk \cup {L + 1}
      BY <1>1, <1>4
    <3>2. L + 1 \notin DOMAIN walk
      BY <1>1
    <3>3. QED
      BY <2>1, <3>1, <3>2 DEF VerdictsOf
  <2>4. QED
    BY <2>1, <2>2, <2>3
<1>6. \A i \in R : /\ i \in 1 .. L /\ walk[i].pos \in Nat /\ EndOf(walk, i) \in Nat
                   /\ long[i] = walk[i] /\ EndOf(long, i) = EndOf(walk, i)
  BY <1>1, <1>4, EntriesTyped DEF EndOf, L
<1>7. EndOf(long, L + 1) = pos + n /\ long[L + 1].pos = pos /\ long[L + 1].len = n
  BY <1>2, <1>4 DEF EndOf
<1>8. \A i \in R : Slack(vpd, long, i) = Slack(vpd, walk, i)
  BY <1>5, <1>6 DEF Slack
<1>9. Slack(vpd, long, L + 1) = 0
  <2>1. L + 1 + 1 \notin DOMAIN long
    BY <1>1, <1>4
  <2>2. QED
    BY <2>1 DEF Slack, VerdictsOf
<1>10. \A i \in R : Slack(vpd, walk, i) \in 0 .. 1
  BY DEF Slack
<1>11. \A i \in R : EndOf(walk, i) - Slack(vpd, walk, i) <= top
  BY DEF WalkRight, ReadsRight
<1>12. ReadsRight(vpd, long, pos + n)
  <2>1. ASSUME NEW i \in R
        PROVE  /\ Readable(vpd, long[i].pos, long[i].len)
               /\ EndOf(long, i) - Slack(vpd, long, i) <= pos + n
               /\ \A j \in R \cup {L + 1} : i < j => EndOf(long, i) - Slack(vpd, long, i) <= long[j].pos
    <3>1. Readable(vpd, walk[i].pos, walk[i].len)
      BY DEF WalkRight, ReadsRight
    <3>2. \A j \in R : i < j => EndOf(walk, i) - Slack(vpd, walk, i) <= walk[j].pos
      BY DEF WalkRight, ReadsRight
    <3>3. EndOf(walk, i) - Slack(vpd, walk, i) <= pos
      BY <1>6, <1>10, <1>11
    <3>4. EndOf(walk, i) - Slack(vpd, walk, i) <= pos + n
      BY <1>3, <1>6, <1>10, <3>3
    <3>5. EndOf(long, i) = EndOf(walk, i) /\ Slack(vpd, long, i) = Slack(vpd, walk, i) /\ long[i] = walk[i]
      BY <1>6, <1>8
    <3>6. ASSUME NEW j \in R \cup {L + 1}, i < j
          PROVE  EndOf(walk, i) - Slack(vpd, walk, i) <= long[j].pos
      <4>1. CASE j \in R
        BY <1>6, <3>2, <3>6, <4>1
      <4>2. CASE j = L + 1
        BY <1>7, <3>3, <4>2
      <4>3. QED
        BY <4>1, <4>2
    <3>7. QED
      BY <3>1, <3>4, <3>5, <3>6
  <2>2. /\ Readable(vpd, long[L + 1].pos, long[L + 1].len)
        /\ EndOf(long, L + 1) - Slack(vpd, long, L + 1) <= pos + n
    BY <1>3, <1>7, <1>9
  <2>3. \A j \in R \cup {L + 1} : ~(L + 1 < j)
    BY <1>1, <1>6
  <2> HIDE DEF R
  <2>4. QED
    BY <1>5, <2>1, <2>2, <2>3 DEF ReadsRight
<1>13. CoveredBy(long, ReadsOf(long)) = CoveredBy(walk, R) \cup (pos .. pos + n - 1)
  <2>1. \A x : x \in CoveredBy(walk, R) <=> \E i \in R : x \in walk[i].pos .. EndOf(walk, i) - 1
    BY DEF CoveredBy
  <2>2. \A x : x \in CoveredBy(long, ReadsOf(long))
                 <=> \E i \in R \cup {L + 1} : x \in long[i].pos .. EndOf(long, i) - 1
    BY <1>5 DEF CoveredBy
  <2>3. \A i \in R : long[i].pos .. EndOf(long, i) - 1 = walk[i].pos .. EndOf(walk, i) - 1
    BY <1>6, Zenon
  <2>4. long[L + 1].pos .. EndOf(long, L + 1) - 1 = pos .. pos + n - 1
    BY <1>7
  <2> HIDE DEF R
  <2>5. \A x : x \in CoveredBy(long, ReadsOf(long))
                 <=> x \in CoveredBy(walk, R) \/ x \in pos .. pos + n - 1
    BY <2>1, <2>2, <2>3, <2>4, Zenon
  <2>6. QED
    BY <2>5, Zenon
<1>14. ByteSum(vpd, pos, n) \in 0 .. 255
  BY <1>3, ByteSumTyped
<1>15. SumRight(vpd, long, (csum + ByteSum(vpd, pos, n)) % 256)
  <2>1. SUFFICES ASSUME V = {}, NEW q \in Nat, \A i \in ReadsOf(long) : EndOf(long, i) <= q,
                        0 .. q - 1 \subseteq CoveredBy(long, ReadsOf(long))
                 PROVE  (csum + ByteSum(vpd, pos, n)) % 256 = ByteSum(vpd, 0, q)
    BY <1>5 DEF SumRight
  <2>2. \A i \in R : EndOf(walk, i) <= pos
    <3>1. \A i \in R : Slack(vpd, walk, i) = 0
      BY <2>1 DEF Slack
    <3>2. QED
      BY <1>6, <1>11, <3>1
  <2>3. pos + n <= q
    BY <1>5, <1>7, <2>1
  <2>4. \A x \in CoveredBy(walk, R) : x \in Nat /\ x < pos /\ x \in DOMAIN vpd
    <3>1. SUFFICES ASSUME NEW i \in R, NEW x \in walk[i].pos .. EndOf(walk, i) - 1
                   PROVE  x \in Nat /\ x < pos /\ x \in DOMAIN vpd
      BY DEF CoveredBy
    <3>2. x \in Nat /\ x < pos
      BY <1>6, <2>2
    <3>3. Readable(vpd, walk[i].pos, walk[i].len)
      BY DEF WalkRight, ReadsRight
    <3>4. x \in DOMAIN vpd
      <4>1. walk[i].pos .. walk[i].pos + walk[i].len - 1 \subseteq DOMAIN vpd
        BY <3>3, Zenon DEF Readable
      <4>2. x \in walk[i].pos .. walk[i].pos + walk[i].len - 1
        <5>1. EndOf(walk, i) = walk[i].pos + walk[i].len
          BY DEF EndOf
        <5>2. x \in walk[i].pos .. EndOf(walk, i) - 1
          BY <3>1
        <5>3. walk[i].pos \in Nat /\ walk[i].len \in Nat
          <6>1. \A y \in 0 .. VpdBuffer : y \in Nat
            BY DEF VpdBuffer
          <6>2. QED
            BY <1>1, <6>1, EntriesTyped, Zenon
        <5> HIDE DEF R
        <5>4. QED
          BY <5>1, <5>2, <5>3
      <4>3. QED
        BY <4>1, <4>2, Zenon
    <3>5. QED
      BY <3>2, <3>4
  <2>5. q = pos + n
    <3>1. SUFFICES ASSUME q > pos + n PROVE FALSE
      BY <1>3, <2>3
    <3>2. q - 1 \in 0 .. q - 1 /\ q - 1 >= pos + n
      BY <1>3, <3>1
    <3>3. q - 1 \in CoveredBy(walk, R) \/ q - 1 \in pos .. pos + n - 1
      BY <1>13, <2>1, <3>2
    <3>4. q - 1 \notin pos .. pos + n - 1
      BY <1>3, <3>2
    <3>5. q - 1 < pos
      BY <2>4, <3>3, <3>4
    <3>6. QED
      BY <1>3, <3>2, <3>5
  <2>6. 0 .. pos - 1 \subseteq CoveredBy(walk, R)
    <3>1. SUFFICES ASSUME NEW x \in 0 .. pos - 1
                   PROVE  x \in CoveredBy(walk, R)
      OBVIOUS
    <3>2. x \in 0 .. q - 1 /\ x \notin pos .. pos + n - 1
      BY <1>3, <2>5
    <3>3. QED
      BY <1>13, <2>1, <3>2
  <2>7. csum = ByteSum(vpd, 0, pos)
    BY <2>1, <2>2, <2>6 DEF WalkRight, SumRight
  <2>8. Readable(vpd, 0, pos + n)
    <3>1. ASSUME NEW x \in 0 .. 0 + (pos + n) - 1
          PROVE  x \in DOMAIN vpd
      <4>1. CASE x < pos
        <5>1. x \in CoveredBy(walk, R)
          BY <2>6, <4>1
        <5>2. QED
          BY <2>4, <5>1
      <4>2. CASE x >= pos
        BY <1>3, <4>2 DEF Readable
      <4>3. QED
        BY <4>1, <4>2
    <3>2. QED
      BY <3>1 DEF Readable
  <2>9. ByteSum(vpd, 0, pos + n) = (ByteSum(vpd, 0, pos) + ByteSum(vpd, pos, n)) % 256
    BY <1>3, <2>8, ByteSumAdds
  <2>10. QED
    BY <2>5, <2>7, <2>9, Zenon
<1>16. ASSUME NEW v \in V
       PROVE  VerdictRight(vpd, long, v)
  <2>1. VerdictRight(vpd, walk, v) /\ v \in 1 .. L
    BY <1>1, EntriesTyped DEF WalkRight, L
  <2>2. v - 1 \in R /\ v - 1 \in ReadsOf(long)
    BY <1>5, <2>1 DEF VerdictRight
  <2>3. long[v] = walk[v] /\ long[v - 1] = walk[v - 1]
    BY <1>4, <1>6, <2>1, <2>2
  <2>4. {i \in ReadsOf(long) : i < v} = {i \in R : i < v}
    BY <1>1, <1>5, <2>1
  <2>5. CoveredBy(long, {i \in R : i < v}) = CoveredBy(walk, {i \in R : i < v})
    <3>1. \A i \in R : long[i].pos .. EndOf(long, i) - 1 = walk[i].pos .. EndOf(walk, i) - 1
      BY <1>6, Zenon
    <3> HIDE DEF R
    <3>2. QED
      BY <3>1, Zenon DEF CoveredBy
  <2>6. CoveredBy(long, {i \in ReadsOf(long) : i < v}) = CoveredBy(walk, {i \in R : i < v})
    BY <2>4, <2>5, Zenon
  <2>7. QED
    BY <1>5, <2>1, <2>2, <2>3, <2>6, Zenon DEF VerdictRight
<1>17. (csum + ByteSum(vpd, pos, n)) % 256 \in 0 .. 255
  <2>1. ASSUME NEW a \in 0 .. 255, NEW b \in 0 .. 255 PROVE (a + b) % 256 \in 0 .. 255
    OBVIOUS
  <2>2. QED
    BY <1>1, <1>14, <2>1, Zenon
<1>18. WalkRight(vpd, long, (csum + ByteSum(vpd, pos, n)) % 256, pos + n)
  BY <1>4, <1>5, <1>12, <1>15, <1>16, <1>17 DEF WalkRight
<1>19. QED
  BY <1>18, Zenon DEF long, e

\* A verdict behind a read of one byte keeps the walk right; it may go on at this
\* byte if the field was empty.
LEMMA VerdictKeepsWalk ==
  ASSUME NEW vpd, NEW walk, NEW csum, NEW pos \in Nat, WalkRight(vpd, walk, csum, pos + 1),
         walk # <<>>, walk[Len(walk)] = [what |-> "read", pos |-> pos, len |-> 1],
         NEW top \in Nat, pos <= top, pos + 1 <= top \/ vpd[pos - 1] = 0
  PROVE  WalkRight(vpd, Append(walk, [what |-> "verdict", good |-> csum = 0]), csum, top)
<1> DEFINE e == [what |-> "verdict", good |-> csum = 0]
           long == Append(walk, e)
           L == Len(walk)
           R == ReadsOf(walk)
           V == VerdictsOf(walk)
<1>1. walk \in Seq(VpdEntry) /\ L \in Nat /\ L > 0 /\ DOMAIN walk = 1 .. L /\ csum \in 0 .. 255
  BY DEF WalkRight
<1>2. e \in VpdEntry /\ e.what # "read" /\ (e.good <=> csum = 0)
  BY DEF VpdEntry
<1>3. walk[L].what = "read" /\ walk[L].pos = pos /\ walk[L].len = 1
  OBVIOUS
<1> HIDE DEF e
<1>4. /\ long \in Seq(VpdEntry) /\ Len(long) = L + 1 /\ DOMAIN long = 1 .. L + 1
      /\ long[L + 1] = e /\ \A i \in 1 .. L : long[i] = walk[i]
  BY <1>1, <1>2
<1> HIDE DEF long, L
<1>5. ReadsOf(long) = R /\ VerdictsOf(long) = V \cup {L + 1} /\ L \in R /\ L + 1 \notin V
  <2>1. ReadsOf(long) = R /\ L \in R
    BY <1>1, <1>2, <1>3, <1>4 DEF ReadsOf
  <2>2. L + 1 \notin V /\ L + 1 \notin R
    BY <1>1 DEF VerdictsOf, ReadsOf
  <2>3. VerdictsOf(long) = V \cup {L + 1}
    <3>1. DOMAIN long = DOMAIN walk \cup {L + 1}
      BY <1>1, <1>4
    <3>2. L + 1 \notin DOMAIN walk
      BY <1>1
    <3>3. QED
      BY <2>1, <2>2, <3>1, <3>2 DEF VerdictsOf
  <2>4. QED
    BY <2>1, <2>2, <2>3
<1>6. \A i \in R : /\ i \in 1 .. L /\ walk[i].pos \in Nat /\ EndOf(walk, i) \in Nat
                   /\ long[i] = walk[i] /\ EndOf(long, i) = EndOf(walk, i)
  BY <1>1, <1>4, EntriesTyped DEF EndOf, L
<1>7. EndOf(walk, L) = pos + 1
  BY <1>3 DEF EndOf
<1>8. \A i \in R : i # L => Slack(vpd, long, i) = Slack(vpd, walk, i)
  <2>1. \A i \in R : i # L => (i + 1 \in VerdictsOf(long) <=> i + 1 \in V)
    BY <1>1, <1>5, <1>6
  <2>2. \A i \in R : long[i] = walk[i]
    BY <1>6
  <2>3. QED
    BY <2>1, <2>2 DEF Slack
<1>9. Slack(vpd, long, L) = IF vpd[pos - 1] = 0 THEN 1 ELSE 0
  BY <1>3, <1>5, <1>6 DEF Slack
<1>10. \A i \in R : Slack(vpd, walk, i) \in 0 .. 1 /\ Slack(vpd, long, i) \in 0 .. 1
  BY DEF Slack
<1>11. ReadsRight(vpd, long, top)
  <2>1. ASSUME NEW i \in R
        PROVE  /\ Readable(vpd, long[i].pos, long[i].len)
               /\ EndOf(long, i) - Slack(vpd, long, i) <= top
               /\ \A j \in R : i < j => EndOf(long, i) - Slack(vpd, long, i) <= long[j].pos
    <3>1. Readable(vpd, walk[i].pos, walk[i].len)
      BY DEF WalkRight, ReadsRight
    <3>2. \A j \in R : i < j => EndOf(walk, i) - Slack(vpd, walk, i) <= walk[j].pos
      BY DEF WalkRight, ReadsRight
    <3>3. long[i] = walk[i] /\ EndOf(long, i) = EndOf(walk, i) /\ EndOf(walk, i) \in Nat /\ i \in 1 .. L
      BY <1>6
    <3>4. CASE i = L
      <4>1. EndOf(long, i) - Slack(vpd, long, i) <= top
        BY <1>7, <1>9, <3>3, <3>4
      <4>2. \A j \in R : ~(i < j)
        BY <1>1, <1>6, <3>4
      <4>3. QED
        BY <3>1, <3>3, <4>1, <4>2
    <3>5. CASE i # L
      <4>1. i < L
        BY <1>1, <3>3, <3>5
      <4>2. EndOf(walk, i) - Slack(vpd, walk, i) <= pos
        BY <1>3, <1>5, <3>2, <4>1
      <4>3. Slack(vpd, long, i) = Slack(vpd, walk, i) /\ Slack(vpd, walk, i) \in 0 .. 1
        BY <1>8, <1>10, <3>5
      <4>4. EndOf(walk, i) - Slack(vpd, walk, i) <= top
        BY <3>3, <4>2, <4>3
      <4>5. \A j \in R : long[j].pos = walk[j].pos
        BY <1>6
      <4>6. QED
        BY <3>1, <3>2, <3>3, <4>3, <4>4, <4>5
    <3>6. QED
      BY <3>4, <3>5
  <2> HIDE DEF R
  <2>2. QED
    BY <1>5, <2>1 DEF ReadsRight
<1>12. SumRight(vpd, long, csum)
  BY <1>5 DEF SumRight
<1>13. \A i \in R : long[i].pos .. EndOf(long, i) - 1 = walk[i].pos .. EndOf(walk, i) - 1
  BY <1>6, Zenon
<1>14. \A I \in SUBSET R : CoveredBy(long, I) = CoveredBy(walk, I)
  <2> HIDE DEF R
  <2>1. QED
    BY <1>13 DEF CoveredBy
<1>15. ASSUME NEW v \in V
       PROVE  VerdictRight(vpd, long, v)
  <2>1. VerdictRight(vpd, walk, v) /\ v \in 1 .. L
    BY <1>1, EntriesTyped DEF WalkRight, L
  <2>2. v - 1 \in R /\ v - 1 \in ReadsOf(long)
    BY <1>5, <2>1 DEF VerdictRight
  <2>3. long[v] = walk[v] /\ long[v - 1] = walk[v - 1]
    BY <1>4, <1>6, <2>1, <2>2
  <2>4. CoveredBy(long, {i \in R : i < v}) = CoveredBy(walk, {i \in R : i < v})
    BY <1>14
  <2>5. ReadsOf(long) = R /\ V \subseteq VerdictsOf(long)
    BY <1>5
  <2>6. QED
    BY <2>1, <2>2, <2>3, <2>4, <2>5, Zenon DEF VerdictRight
<1>16. VerdictRight(vpd, long, L + 1)
  <2>1. (L + 1) - 1 = L
    BY <1>1
  <2>2. long[L].pos = pos
    BY <1>3, <1>5, <1>6
  <2>3. SUFFICES ASSUME \A u \in VerdictsOf(long) : L + 1 <= u,
                        0 .. long[(L + 1) - 1].pos \subseteq CoveredBy(long, {i \in ReadsOf(long) : i < L + 1})
                 PROVE  long[L + 1].good <=> ByteSum(vpd, 0, long[(L + 1) - 1].pos + 1) = 0
    <3>1. (L + 1) - 1 \in ReadsOf(long)
      BY <1>5, <2>1
    <3>2. QED
      BY <3>1, Zenon DEF VerdictRight
  <2>4. V = {}
    <3>1. \A u \in V : u \in 1 .. L
      BY <1>1, EntriesTyped DEF L
    <3>2. QED
      BY <1>1, <1>5, <2>3, <3>1
  <2>5. {i \in R : i < L + 1} = R
    BY <1>1, <1>6
  <2>6. 0 .. pos \subseteq CoveredBy(walk, R)
    <3>1. CoveredBy(long, R) = CoveredBy(walk, R)
      BY <1>14
    <3>2. {i \in ReadsOf(long) : i < L + 1} = R
      BY <1>5, <2>5, Zenon
    <3>3. QED
      BY <2>1, <2>2, <2>3, <3>1, <3>2, Zenon
  <2>7. \A i \in R : EndOf(walk, i) <= pos + 1
    <3>1. \A i \in R : Slack(vpd, walk, i) = 0
      BY <2>4 DEF Slack
    <3>2. \A i \in R : EndOf(walk, i) - Slack(vpd, walk, i) <= pos + 1
      BY DEF WalkRight, ReadsRight
    <3>3. QED
      BY <1>6, <3>1, <3>2
  <2>8. csum = ByteSum(vpd, 0, pos + 1)
    <3>1. 0 .. (pos + 1) - 1 \subseteq CoveredBy(walk, R) /\ pos + 1 \in Nat
      BY <2>6
    <3>2. QED
      BY <2>4, <2>7, <3>1 DEF WalkRight, SumRight
  <2>9. long[L + 1].good <=> ByteSum(vpd, 0, pos + 1) = 0
    BY <1>2, <1>4, <2>8, Zenon
  <2>10. QED
    BY <2>1, <2>2, <2>9, Zenon
<1>17. WalkRight(vpd, long, csum, top)
  BY <1>1, <1>4, <1>5, <1>11, <1>12, <1>15, <1>16 DEF WalkRight
<1>18. QED
  BY <1>17, Zenon DEF long, e

\* The states of a walk of the data.
VpdState ==
  [fn : {"vpd"}, vpd : VpdImages, mode : {"resource", "name", "fields", "end"}, at : Nat, len : Nat,
   part : Nat, csum : 0 .. 255, walk : Seq(VpdEntry)]

\* The walk has reached top.
WalkReached(v, top) == WalkRight(v.vpd, v.walk, v.csum, top)

\* A walk is right up to where it goes on, and a resource ends in the address range.
VpdInv(v) ==
  /\ v \in VpdState
  /\ v.mode = "resource" => v.at <= VpdMask + 1
  /\ v.mode \in {"name", "fields"} => v.part <= v.len /\ v.at + v.len <= VpdMask + 1
  /\ \E top \in 0 .. VpdMask + 1 :
       /\ WalkReached(v, top)
       /\ v.mode = "resource" => top <= v.at
       /\ v.mode \in {"name", "fields"} => top <= v.at + v.part

\* A read leaves the loop as it is,
ReadOn(r, v, top) ==
  /\ r \in VpdState /\ WalkReached(r, top)
  /\ r.mode = v.mode /\ r.at = v.at /\ r.len = v.len /\ r.part = v.part /\ r.vpd = v.vpd

\* ?
LastRead(r, pos, n) == r.walk # <<>> /\ r.walk[Len(r.walk)] = [what |-> "read", pos |-> pos, len |-> n]

\* ?
LEMMA ReadMoves ==
  ASSUME NEW v \in VpdState, NEW top \in Nat, WalkReached(v, top),
         NEW pos \in Nat, NEW n \in 0 .. VpdBuffer, top <= pos, Readable(v.vpd, pos, n)
  PROVE  ReadOn(VpdRead(v, pos, n), v, pos + n) /\ LastRead(VpdRead(v, pos, n), pos, n)
<1> DEFINE e == [what |-> "read", pos |-> pos, len |-> n]
           sum == (v.csum + ByteSum(v.vpd, pos, n)) % 256
           long == Append(v.walk, e)
           r == VpdRead(v, pos, n)
<1>1. IsImage(v.vpd)
  BY VpdImagesAssumption DEF VpdState, IsImage
<1>2. WalkRight(v.vpd, long, sum, pos + n)
  BY <1>1, ReadKeepsWalk DEF WalkReached
<1>3. r = [v EXCEPT !.csum = sum, !.walk = long]
  BY DEF VpdRead
<1>4. long \in Seq(VpdEntry) /\ sum \in 0 .. 255
  BY <1>2, Zenon DEF WalkRight
<1>5. long # <<>> /\ long[Len(long)] = e
  <2>1. v.walk \in Seq(VpdEntry)
    BY DEF VpdState
  <2>2. e \in VpdEntry
    BY DEF VpdEntry
  <2> HIDE DEF e
  <2>3. QED
    BY <2>1, <2>2
<1> HIDE DEF long, sum, r
<1>6. /\ r \in VpdState /\ r.csum = sum /\ r.walk = long
      /\ r.mode = v.mode /\ r.at = v.at /\ r.len = v.len /\ r.part = v.part /\ r.vpd = v.vpd
  BY <1>3, <1>4 DEF VpdState
<1>7. WalkReached(r, pos + n)
  BY <1>2, <1>6, Zenon DEF WalkReached
<1>8. QED
  <2>1. ReadOn(r, v, pos + n)
    BY <1>6, <1>7 DEF ReadOn
  <2>2. LastRead(r, pos, n)
    BY <1>5, <1>6 DEF LastRead, e
  <2>3. QED
    BY <2>1, <2>2 DEF r

\* piece by piece.
LEMMA ReadStep ==
  ASSUME NEW v \in VpdState, NEW top \in Nat, WalkReached(v, top),
         NEW pos \in Nat, NEW n \in 0 .. VpdBuffer, top <= pos, Readable(v.vpd, pos, n)
  PROVE  LET r == VpdRead(v, pos, n)
         IN  /\ r \in VpdState /\ WalkReached(r, pos + n)
             /\ r.mode = v.mode /\ r.at = v.at /\ r.len = v.len /\ r.part = v.part /\ r.vpd = v.vpd
             /\ r.walk # <<>> /\ r.walk[Len(r.walk)] = [what |-> "read", pos |-> pos, len |-> n]
  BY ReadMoves DEF ReadOn, LastRead

\* The end of a walk.
LEMMA EndStep ==
  ASSUME NEW v \in VpdState, NEW top \in 0 .. VpdMask + 1, WalkReached(v, top)
  PROVE  VpdInv(EndWalk(v))
<1> DEFINE r == EndWalk(v)
<1>1. r \in VpdState /\ r.mode = "end" /\ r.vpd = v.vpd /\ r.walk = v.walk /\ r.csum = v.csum
  BY DEF EndWalk, VpdState
<1> HIDE DEF r
<1>2. WalkReached(r, top)
  BY <1>1, Zenon DEF WalkReached
<1>3. QED
  <2>1. VpdInv(r)
    BY <1>1, <1>2 DEF VpdInv
  <2>2. QED
    BY <2>1 DEF r

\* The end of a resource.
LEMMA NextStep ==
  ASSUME NEW v \in VpdState, NEW top \in Nat, WalkReached(v, top), top <= v.at + v.len,
         v.at + v.len <= VpdMask + 1
  PROVE  VpdInv(NextResource(v))
<1> DEFINE r == NextResource(v)
<1>1. v.at \in Nat /\ v.len \in Nat
  BY DEF VpdState
<1>2. /\ r \in VpdState /\ r.mode = "resource" /\ r.vpd = v.vpd /\ r.walk = v.walk /\ r.csum = v.csum
      /\ r.at = v.at + v.len
  <2> DEFINE t == v.at + v.len
  <2>1. t \in Nat
    BY <1>1
  <2>2. r = [v EXCEPT !.mode = "resource", !.at = t]
    BY DEF NextResource
  <2> HIDE DEF r, t
  <2>3. /\ r \in VpdState /\ r.mode = "resource" /\ r.vpd = v.vpd /\ r.walk = v.walk /\ r.csum = v.csum
        /\ r.at = t
    BY <2>1, <2>2 DEF VpdState
  <2>4. QED
    BY <2>3 DEF t
<1> HIDE DEF r
<1>3. WalkReached(r, top)
  BY <1>2, Zenon DEF WalkReached
<1>4. top \in 0 .. VpdMask + 1
  BY <1>1, VpdMaskAssumption
<1>5. QED
  <2>1. VpdInv(r)
    BY <1>2, <1>3, <1>4 DEF VpdInv
  <2>2. QED
    BY <2>1 DEF r

\* A turn of the loop over the resources.
LEMMA ResourceTurn ==
  ASSUME NEW v, VpdInv(v), v.mode = "resource"
  PROVE  VpdInv(VpdResource(v))
<1> DEFINE a == v.at
           large == v.vpd[a] >= 128
           tag == IF large THEN v.vpd[a] ELSE v.vpd[a] \div 8
           len == IF large THEN Word16(v.vpd, a + 1) ELSE v.vpd[a] % 8
           at == IF large THEN a + 3 ELSE a + 1
           first == VpdRead(v, a, 1)
           head == IF large THEN VpdRead(first, a + 1, 2) ELSE first
           mode == IF tag = NameTag THEN "name" ELSE "fields"
           last == [head EXCEPT !.mode = mode, !.at = at, !.len = len, !.part = 0]
<1>1. v \in VpdState /\ a \in Nat
  BY DEF VpdInv, VpdState
<1>2. PICK top \in 0 .. VpdMask + 1 : WalkReached(v, top) /\ top <= a
  BY DEF VpdInv
<1>3. IsImage(v.vpd)
  BY <1>1, VpdImagesAssumption DEF VpdState, IsImage
<1>4. CASE a > VpdMask \/ ~Readable(v.vpd, a, 1)
  <2>1. VpdResource(v) = EndWalk(v)
    BY <1>4, Zenon DEF VpdResource
  <2>2. VpdInv(EndWalk(v))
    BY <1>1, <1>2, EndStep
  <2>3. QED
    BY <2>1, <2>2, Zenon
<1>5. CASE ~(a > VpdMask \/ ~Readable(v.vpd, a, 1))
  <2>1. a <= VpdMask /\ Readable(v.vpd, a, 1)
    BY <1>1, <1>5, VpdMaskAssumption
  <2>2. /\ first \in VpdState /\ WalkReached(first, a + 1) /\ first.mode = "resource" /\ first.at = a
        /\ first.vpd = v.vpd
    <3>2. PICK x \in Nat : x = a
      BY <1>1
    <3>3. WalkReached(v, top) /\ top <= x /\ Readable(v.vpd, x, 1) /\ top \in Nat
      BY <1>2, <2>1, <3>2
    <3>4. ReadOn(VpdRead(v, x, 1), v, x + 1)
      <4>1. 1 \in 0 .. VpdBuffer
        BY DEF VpdBuffer
      <4> HIDE DEF large, tag, len, at, head, mode, last, first, a
      <4>2. QED
        BY <1>1, <3>3, <4>1, ReadMoves
    <3>5. QED
      BY <3>2, <3>4 DEF ReadOn
  <2> HIDE DEF first
  <2>3. CASE large /\ (a > VpdMask + 1 - 3 \/ ~Readable(v.vpd, a + 1, 2))
    <3>1. VpdResource(v) = EndWalk(first)
      BY <1>5, <2>3, Zenon DEF VpdResource, first
    <3>2. a + 1 \in 0 .. VpdMask + 1
      BY <1>1, <2>1, VpdMaskAssumption
    <3>3. VpdInv(EndWalk(first))
      BY <2>2, <3>2, EndStep
    <3>4. QED
      BY <3>1, <3>3, Zenon
  <2>4. CASE ~(large /\ (a > VpdMask + 1 - 3 \/ ~Readable(v.vpd, a + 1, 2)))
    <3>1. at \in 0 .. VpdMask + 1 /\ head \in VpdState /\ WalkReached(head, at) /\ len \in Nat
      <4>1. CASE large
        <5>1. a + 3 <= VpdMask + 1 /\ Readable(v.vpd, a + 1, 2)
          BY <1>1, <2>4, <4>1, VpdMaskAssumption
        <5>2. 2 \in 0 .. VpdBuffer /\ a + 1 \in Nat /\ a + 1 <= a + 1
          BY <1>1 DEF VpdBuffer
        <5>3. head \in VpdState /\ WalkReached(head, (a + 1) + 2)
          <6>1. head = VpdRead(first, a + 1, 2)
            BY <4>1
          <6>2. PICK x \in Nat : x = a + 1
            BY <5>2
          <6>3. WalkReached(first, x) /\ x <= x /\ Readable(first.vpd, x, 2)
            BY <2>2, <5>1, <6>2
          <6> HIDE DEF large, tag, len, at, head, mode, last, a
          <6>4. ReadOn(VpdRead(first, x, 2), first, x + 2)
            BY <2>2, <5>2, <6>2, <6>3, ReadMoves
          <6>5. QED
            BY <6>1, <6>2, <6>4 DEF ReadOn
        <5>4. (a + 1) + 2 = a + 3 /\ at = a + 3
          BY <1>1, <4>1
        <5>5. len \in Nat
          <6>1. a + 1 \in DOMAIN v.vpd /\ (a + 1) + 1 \in DOMAIN v.vpd
            BY <1>1, <5>1 DEF Readable
          <6>2. v.vpd[a + 1] \in 0 .. 255 /\ v.vpd[(a + 1) + 1] \in 0 .. 255
            BY <1>3, <6>1 DEF IsImage
          <6>3. Word16(v.vpd, a + 1) \in Nat
            <7>1. PICK x, y \in 0 .. 255 : x = v.vpd[a + 1] /\ y = v.vpd[(a + 1) + 1]
              BY <6>2, Zenon
            <7>2. x + 256 * y \in Nat
              OBVIOUS
            <7>3. Word16(v.vpd, a + 1) = x + 256 * y
              BY <7>1 DEF Word16
            <7>4. QED
              BY <7>2, <7>3
          <6>4. QED
            BY <4>1, <6>3
        <5>6. a + 3 \in 0 .. VpdMask + 1
          BY <1>1, <5>1, VpdMaskAssumption
        <5> HIDE DEF head, at, len
        <5>7. QED
          BY <5>3, <5>4, <5>5, <5>6
      <4>2. CASE ~large
        <5>1. head = first /\ at = a + 1 /\ len = v.vpd[a] % 8
          BY <4>2
        <5>2. v.vpd[a] \in 0 .. 255
          BY <1>1, <1>3, <2>1 DEF Readable, IsImage
        <5>3. len \in Nat
          BY <5>1, <5>2
        <5>4. a + 1 \in 0 .. VpdMask + 1
          BY <1>1, <2>1, VpdMaskAssumption
        <5> HIDE DEF head, at, len
        <5>5. QED
          BY <2>2, <5>1, <5>3, <5>4
      <4>3. QED
        BY <4>1, <4>2
    <3> HIDE DEF head, at, len
    <3>2. CASE len > VpdMask + 1 - at \/ tag \notin FieldTags \cup {NameTag}
      <4>1. VpdResource(v) = EndWalk(head)
        BY <1>5, <2>4, <3>2, Zenon DEF VpdResource, first, head, at, len
      <4>2. VpdInv(EndWalk(head))
        BY <3>1, EndStep
      <4>3. QED
        BY <4>1, <4>2, Zenon
    <3>3. CASE ~(len > VpdMask + 1 - at \/ tag \notin FieldTags \cup {NameTag})
      <4>1. VpdResource(v) = last
        BY <1>5, <2>4, <3>3, Zenon DEF VpdResource, first, head, at, len
      <4>2. at + len <= VpdMask + 1
        BY <3>1, <3>3, VpdMaskAssumption
      <4>3. mode \in {"name", "fields"}
        OBVIOUS
      <4> HIDE DEF mode, tag
      <4>4. /\ last \in VpdState /\ last.mode = mode /\ last.at = at /\ last.len = len /\ last.part = 0
            /\ last.vpd = head.vpd /\ last.walk = head.walk /\ last.csum = head.csum
        <5>1. at \in Nat /\ len \in Nat /\ head \in VpdState
          BY <3>1
        <5> HIDE DEF a
        <5>2. QED
          BY <4>3, <5>1 DEF VpdState
      <4> HIDE DEF last
      <4>5. WalkReached(last, at)
        BY <3>1, <4>4, Zenon DEF WalkReached
      <4>6. VpdInv(last)
        BY <3>1, <4>2, <4>3, <4>4, <4>5 DEF VpdInv
      <4>7. QED
        BY <4>1, <4>6, Zenon
    <3>4. QED
      BY <3>2, <3>3
  <2>5. QED
    BY <2>3, <2>4
<1>6. QED
  BY <1>4, <1>5

\* A turn of a loop in a resource: a walk that is right and has reached the part
\* it goes on with.
LEMMA PartStep ==
  ASSUME NEW v \in VpdState, v.mode \in {"name", "fields"}, NEW n \in Nat,
         v.part + n <= v.len, v.at + v.len <= VpdMask + 1,
         NEW top \in Nat, WalkReached(v, top), top <= v.at + v.part + n
  PROVE  VpdInv([v EXCEPT !.part = @ + n])
<1> DEFINE t == v.part + n
           r == [v EXCEPT !.part = @ + n]
<1>1. v.at \in Nat /\ v.part \in Nat /\ v.len \in Nat /\ t \in Nat
  BY DEF VpdState
<1>2. r = [v EXCEPT !.part = t]
  OBVIOUS
<1>3. t <= v.len /\ top <= v.at + t
  BY <1>1
<1> HIDE DEF t, r
<1>4. /\ r \in VpdState /\ r.part = t /\ r.mode = v.mode /\ r.at = v.at /\ r.len = v.len
      /\ r.vpd = v.vpd /\ r.walk = v.walk /\ r.csum = v.csum
  BY <1>1, <1>2 DEF VpdState
<1>5. WalkReached(r, top)
  BY <1>4, Zenon DEF WalkReached
<1>6. top \in 0 .. VpdMask + 1
  BY <1>1, <1>3, VpdMaskAssumption
<1>7. VpdInv(r)
  BY <1>1, <1>3, <1>4, <1>5, <1>6 DEF VpdInv
<1>8. QED
  BY <1>7 DEF r

\* A turn of the loop over the pieces of a name.
LEMMA NameTurn ==
  ASSUME NEW v, VpdInv(v), v.mode = "name"
  PROVE  VpdInv(VpdName(v))
<1> DEFINE left == v.len - v.part
           n == IF left > VpdBuffer THEN VpdBuffer ELSE left
           pos == v.at + v.part
           t == VpdRead(v, pos, n)
<1>1. /\ v \in VpdState /\ v.at \in Nat /\ v.part \in Nat /\ v.len \in Nat
      /\ v.part <= v.len /\ v.at + v.len <= VpdMask + 1
  BY DEF VpdInv, VpdState
<1>2. PICK top \in 0 .. VpdMask + 1 : WalkReached(v, top) /\ top <= pos
  BY DEF VpdInv
<1>3. CASE left = 0 \/ ~Readable(v.vpd, pos, n)
  <2>1. VpdName(v) = NextResource(v)
    BY <1>3, Zenon DEF VpdName
  <2>2. top \in Nat /\ top <= v.at + v.len
    BY <1>1, <1>2
  <2>3. VpdInv(NextResource(v))
    BY <1>1, <1>2, <2>2, NextStep
  <2>4. QED
    BY <2>1, <2>3, Zenon
<1>4. CASE ~(left = 0 \/ ~Readable(v.vpd, pos, n))
  <2>1. VpdName(v) = [t EXCEPT !.part = @ + n]
    BY <1>4, Zenon DEF VpdName
  <2>2. n \in 0 .. VpdBuffer /\ n \in Nat /\ n <= left /\ pos \in Nat /\ top \in Nat
    BY <1>1, <1>2 DEF VpdBuffer
  <2>3. Readable(v.vpd, pos, n)
    BY <1>4
  <2> HIDE DEF n, pos
  <2>4. /\ t \in VpdState /\ WalkReached(t, pos + n)
        /\ t.mode = "name" /\ t.at = v.at /\ t.len = v.len /\ t.part = v.part
    <3>1. v \in VpdState
      BY <1>1
    <3>2. WalkReached(v, top) /\ top <= pos /\ pos \in Nat /\ top \in Nat /\ n \in 0 .. VpdBuffer
      BY <1>2, <2>2
    <3>3. t \in VpdState
      BY <2>3, <3>1, <3>2, ReadStep
    <3>4. WalkReached(t, pos + n)
      BY <2>3, <3>1, <3>2, ReadStep
    <3>5. t.mode = v.mode /\ t.at = v.at /\ t.len = v.len /\ t.part = v.part
      BY <3>1 DEF VpdRead, VpdState
    <3>6. QED
      BY <3>3, <3>4, <3>5
  <2> HIDE DEF t
  <2>5. t.part + n <= t.len /\ t.at + t.len <= VpdMask + 1 /\ pos + n \in Nat /\ pos + n <= t.at + t.part + n
    BY <1>1, <2>2, <2>4 DEF pos
  <2>6. VpdInv([t EXCEPT !.part = @ + n])
    BY <2>2, <2>4, <2>5, PartStep
  <2>7. QED
    BY <2>1, <2>6, Zenon
<1>5. QED
  BY <1>3, <1>4

\* A turn of the loop over the fields.
LEMMA FieldTurn ==
  ASSUME NEW v, VpdInv(v), v.mode = "fields"
  PROVE  VpdInv(VpdField(v))
<1> DEFINE p == v.at + v.part
           id == <<v.vpd[p], v.vpd[p + 1]>>
           size == v.vpd[p + 2]
           n == FieldRead(id, size)
           head == VpdRead(v, p, 3)
           data == VpdRead(head, p + 3, n)
           last == IF id = RV THEN Verdict(data) ELSE data
<1>1. /\ v \in VpdState /\ v.at \in Nat /\ v.part \in Nat /\ v.len \in Nat
      /\ v.part <= v.len /\ v.at + v.len <= VpdMask + 1
  BY DEF VpdInv, VpdState
<1>2. PICK top \in 0 .. VpdMask + 1 : WalkReached(v, top) /\ top <= p
  BY DEF VpdInv
<1>3. IsImage(v.vpd)
  BY <1>1, VpdImagesAssumption DEF VpdState, IsImage
<1>4. CASE v.part + 3 > v.len \/ ~Readable(v.vpd, p, 3)
  <2>1. VpdField(v) = NextResource(v)
    BY <1>4, Zenon DEF VpdField
  <2>2. top \in Nat /\ top <= v.at + v.len
    BY <1>1, <1>2
  <2>3. VpdInv(NextResource(v))
    BY <1>1, <1>2, <2>2, NextStep
  <2>4. QED
    BY <2>1, <2>3, Zenon
<1>5. CASE ~(v.part + 3 > v.len \/ ~Readable(v.vpd, p, 3))
  <2>1. v.part + 3 <= v.len /\ Readable(v.vpd, p, 3) /\ p \in Nat /\ top \in Nat
    BY <1>1, <1>2, <1>5
  <2>2. size \in 0 .. 255
    <3>1. p + 2 \in DOMAIN v.vpd
      BY <2>1 DEF Readable
    <3>2. QED
      BY <1>3, <3>1 DEF IsImage
  <2>3. 3 \in 0 .. VpdBuffer /\ n \in 0 .. VpdBuffer
    <3> HIDE DEF size, id
    <3>1. QED
      BY <2>2 DEF VpdBuffer, FieldRead
  <2>4. n = IF id = RV THEN 1 ELSE size
    BY DEF FieldRead
  <2> HIDE DEF p, n
  <2>5. /\ head \in VpdState /\ WalkReached(head, p + 3) /\ head.vpd = v.vpd
        /\ head.mode = "fields" /\ head.at = v.at /\ head.len = v.len /\ head.part = v.part
    <3>1. v \in VpdState
      BY <1>1
    <3>2. WalkReached(v, top) /\ top <= p /\ p \in Nat /\ top \in Nat /\ Readable(v.vpd, p, 3)
      BY <1>2, <2>1
    <3>3. head \in VpdState
      BY <2>3, <3>1, <3>2, ReadStep
    <3>4. WalkReached(head, p + 3)
      BY <2>3, <3>1, <3>2, ReadStep
    <3>5. head.mode = v.mode /\ head.at = v.at /\ head.len = v.len /\ head.part = v.part /\ head.vpd = v.vpd
      BY <3>1 DEF VpdRead, VpdState
    <3>6. QED
      BY <3>3, <3>4, <3>5
  <2> HIDE DEF head
  <2>6. CASE size > v.len - (v.part + 3) \/ ~Readable(v.vpd, p + 3, n)
    <3>1. VpdField(v) = NextResource(head)
      BY <1>5, <2>6, Zenon DEF VpdField, head, n, p
    <3>2. p + 3 \in Nat /\ p + 3 <= head.at + head.len /\ head.at + head.len <= VpdMask + 1
      BY <1>1, <2>1, <2>5 DEF p
    <3>3. VpdInv(NextResource(head))
      BY <2>5, <3>2, NextStep
    <3>4. QED
      BY <3>1, <3>3, Zenon
  <2>7. CASE ~(size > v.len - (v.part + 3) \/ ~Readable(v.vpd, p + 3, n))
    <3>1. VpdField(v) = [last EXCEPT !.part = @ + 3 + size]
      BY <1>5, <2>7, Zenon DEF VpdField, head, n, p
    <3>2. size <= v.len - (v.part + 3) /\ Readable(v.vpd, p + 3, n)
      BY <1>1, <2>2, <2>7
    <3>3. /\ data \in VpdState /\ WalkReached(data, (p + 3) + n) /\ data.vpd = v.vpd
          /\ data.mode = "fields" /\ data.at = v.at /\ data.len = v.len /\ data.part = v.part
          /\ data.walk # <<>> /\ data.walk[Len(data.walk)] = [what |-> "read", pos |-> p + 3, len |-> n]
      <4>1. p + 3 \in Nat /\ p + 3 <= p + 3
        BY <2>1
      <4>2. QED
        BY <2>3, <2>5, <3>2, <4>1, ReadStep
    <3> HIDE DEF data
    <3>4. /\ last \in VpdState
          /\ last.mode = "fields" /\ last.at = v.at /\ last.len = v.len /\ last.part = v.part
          /\ \E r \in Nat : WalkReached(last, r) /\ r <= (p + 3) + size
      <4>1. CASE id # RV
        <5>1. last = data /\ n = size
          BY <2>4, <4>1
        <5> HIDE DEF last, size
        <5>2. (p + 3) + n \in Nat /\ (p + 3) + n <= (p + 3) + size
          BY <2>1, <2>2, <5>1
        <5>3. QED
          BY <3>3, <5>1, <5>2
      <4>2. CASE id = RV
        <5> DEFINE e == [what |-> "verdict", good |-> data.csum = 0]
                   r == IF size = 0 THEN p + 3 ELSE p + 4
        <5>1. last = Verdict(data) /\ n = 1
          BY <2>4, <4>2
        <5>2. r \in Nat /\ p + 3 <= r /\ p + 3 \in Nat /\ (p + 3 + 1 <= r \/ v.vpd[(p + 3) - 1] = 0)
              /\ r <= (p + 3) + size /\ (p + 3) + 1 \in Nat
          <6>1. (p + 3) - 1 = p + 2
            BY <2>1
          <6>2. size = 0 => v.vpd[(p + 3) - 1] = 0
            BY <6>1
          <6> HIDE DEF size
          <6>3. QED
            BY <2>1, <2>2, <6>2
        <5>3. WalkRight(v.vpd, data.walk, data.csum, (p + 3) + 1)
          BY <3>3, <5>1, Zenon DEF WalkReached
        <5>4. data.walk[Len(data.walk)] = [what |-> "read", pos |-> p + 3, len |-> 1]
          BY <3>3, <5>1, Zenon
        <5> HIDE DEF last, size, r
        <5>5. WalkRight(v.vpd, Append(data.walk, e), data.csum, r)
          BY <3>3, <5>2, <5>3, <5>4, VerdictKeepsWalk
        <5>6. last = [data EXCEPT !.walk = Append(@, e)]
          BY <5>1, Zenon DEF Verdict
        <5>7. Append(data.walk, e) \in Seq(VpdEntry)
          BY <5>5, Zenon DEF WalkRight
        <5> HIDE DEF e
        <5>8. /\ last \in VpdState /\ last.walk = Append(data.walk, e) /\ last.csum = data.csum
              /\ last.mode = "fields" /\ last.at = v.at /\ last.len = v.len /\ last.part = v.part
              /\ last.vpd = v.vpd
          <6> DEFINE long == Append(data.walk, e)
          <6>1. last = [data EXCEPT !.walk = long] /\ long \in Seq(VpdEntry)
            BY <5>6, <5>7
          <6> HIDE DEF long
          <6>2. /\ last \in VpdState /\ last.walk = long /\ last.csum = data.csum
                /\ last.mode = "fields" /\ last.at = v.at /\ last.len = v.len /\ last.part = v.part
                /\ last.vpd = v.vpd
            BY <3>3, <6>1 DEF VpdState
          <6>3. QED
            BY <6>2 DEF long
        <5>9. WalkReached(last, r)
          BY <5>5, <5>8, Zenon DEF WalkReached
        <5>10. QED
          BY <5>2, <5>8, <5>9
      <4>3. QED
        BY <4>1, <4>2
    <3> HIDE DEF last, size
    <3>5. PICK r \in Nat : WalkReached(last, r) /\ r <= (p + 3) + size
      BY <3>4
    <3>6. /\ 3 + size \in Nat /\ last.part + (3 + size) <= last.len /\ last.at + last.len <= VpdMask + 1
          /\ r <= last.at + last.part + (3 + size)
      BY <1>1, <2>1, <2>2, <3>2, <3>4, <3>5 DEF p
    <3>7. VpdInv([last EXCEPT !.part = @ + (3 + size)])
      BY <3>4, <3>5, <3>6, PartStep
    <3>8. [last EXCEPT !.part = @ + 3 + size] = [last EXCEPT !.part = @ + (3 + size)]
      <4>1. last.part + 3 + size = last.part + (3 + size)
        BY <1>1, <2>2, <3>4
      <4>2. QED
        BY <4>1, Zenon
    <3>9. QED
      BY <3>1, <3>7, <3>8, Zenon
  <2>8. QED
    BY <2>6, <2>7
<1>6. QED
  BY <1>4, <1>5

\* The start of a walk.
LEMMA VpdBegins ==
  ASSUME NEW vpd \in VpdImages
  PROVE  VpdInv([fn |-> "vpd", vpd |-> vpd, mode |-> "resource", at |-> 0, len |-> 0, part |-> 0,
                 csum |-> 0, walk |-> <<>>])
<1> DEFINE v == [fn |-> "vpd", vpd |-> vpd, mode |-> "resource", at |-> 0, len |-> 0, part |-> 0,
                 csum |-> 0, walk |-> <<>>]
<1>1. v \in VpdState
  BY DEF VpdState
<1>2. IsImage(vpd)
  BY VpdImagesAssumption DEF IsImage
<1>3. ByteSum(vpd, 0, 0) = 0
  <2>1. PICK p : SumPrefixes(vpd, 0, p)
    BY <1>2, PrefixesExist
  <2>2. Readable(vpd, 0, 0)
    BY DEF Readable
  <2>3. ByteSum(vpd, 0, 0) = (p[0 + 0] - p[0]) % 256
    BY <1>2, <2>1, <2>2, ByteSumIsDifference
  <2>4. p[0] = 0 /\ 0 + 0 = 0
    BY <2>1 DEF SumPrefixes
  <2>5. (0 - 0) % 256 = 0
    OBVIOUS
  <2>6. QED
    BY <2>3, <2>4, <2>5, Zenon
<1>4. ReadsOf(<<>>) = {} /\ VerdictsOf(<<>>) = {}
  BY DEF ReadsOf, VerdictsOf
<1>5. ReadsRight(vpd, <<>>, 0)
  BY <1>4 DEF ReadsRight
<1>6. SumRight(vpd, <<>>, 0)
  <2>1. ASSUME NEW q \in Nat, 0 .. q - 1 \subseteq CoveredBy(<<>>, {})
        PROVE  0 = ByteSum(vpd, 0, q)
    <3>1. CoveredBy(<<>>, {}) = {}
      BY DEF CoveredBy
    <3>2. q = 0
      BY <2>1, <3>1
    <3>3. QED
      BY <1>3, <3>2
  <2>2. QED
    BY <1>4, <2>1 DEF SumRight
<1>7. WalkRight(vpd, <<>>, 0, 0)
  BY <1>4, <1>5, <1>6 DEF WalkRight
<1>8. v.vpd = vpd /\ v.walk = <<>> /\ v.csum = 0 /\ v.at = 0 /\ v.mode = "resource"
  OBVIOUS
<1> HIDE DEF v
<1>9. WalkReached(v, 0)
  BY <1>7, <1>8, Zenon DEF WalkReached
<1>10. 0 \in 0 .. VpdMask + 1 /\ 0 <= VpdMask + 1
  BY VpdMaskAssumption
<1>11. VpdInv(v)
  BY <1>1, <1>8, <1>9, <1>10 DEF VpdInv
<1>12. QED
  BY <1>11 DEF v

\* Every walk is as it should be.
Walks == "fn" \in DOMAIN call /\ (call.fn = "vpd" => VpdInv(call))

\* What is no walk says nothing of one.
LEMMA NoWalk ==
  ASSUME Call, ~VpdRun
  PROVE  "fn" \in DOMAIN call' /\ call'.fn # "vpd"
<1>1. CASE SlotFilter
  BY <1>1 DEF SlotFilter
<1>2. CASE IdFilter
  BY <1>2 DEF IdFilter
<1>3. CASE PortFilter
  BY <1>3 DEF PortFilter
<1>4. CASE BlockTransfer
  BY <1>4 DEF BlockTransfer
<1>5. CASE BusScan
  BY <1>5 DEF BusScan
<1>6. CASE FillBases
  BY <1>6 DEF FillBases
<1>7. CASE OpParse
  BY <1>7 DEF OpParse
<1>8. CASE OpExec
  BY <1>8 DEF OpExec
<1>9. CASE SetpciRun
  BY <1>9 DEF SetpciRun
<1>10. CASE MapTheBus
  BY <1>10 DEF MapTheBus
<1>11. QED
  BY <1>1, <1>2, <1>3, <1>4, <1>5, <1>6, <1>7, <1>8, <1>9, <1>10 DEF Call

\* It stays so.
LEMMA AlwaysWalks == Spec => []Walks
<1>1. Init => Walks
  BY DEF Init, NoCall, Walks
<1>2. Walks /\ [Next]_call => Walks'
  <2>1. SUFFICES ASSUME Walks, [Next]_call
                 PROVE  Walks'
    OBVIOUS
  <2>2. CASE VpdRun
    <3>1. PICK vpd \in VpdImages :
            call' = [fn |-> "vpd", vpd |-> vpd, mode |-> "resource", at |-> 0, len |-> 0, part |-> 0,
                     csum |-> 0, walk |-> <<>>]
      BY <2>2 DEF VpdRun
    <3>2. VpdInv(call')
      BY <3>1, VpdBegins
    <3>3. "fn" \in DOMAIN call'
      BY <3>1
    <3>4. QED
      BY <3>2, <3>3 DEF Walks
  <2>3. CASE Call /\ ~VpdRun
    BY <2>3, NoWalk DEF Walks
  <2>4. CASE VpdTurn
    <3>1. "fn" \in DOMAIN call' /\ call.fn = "vpd" /\ VpdInv(call)
      BY <2>1, <2>4, TurnsKeepCall DEF Walks
    <3>2. CASE call.mode = "resource" /\ call' = VpdResource(call)
      BY <3>1, <3>2, ResourceTurn DEF Walks
    <3>3. CASE call.mode = "name" /\ call' = VpdName(call)
      BY <3>1, <3>3, NameTurn DEF Walks
    <3>4. CASE call.mode = "fields" /\ call' = VpdField(call)
      BY <3>1, <3>4, FieldTurn DEF Walks
    <3>5. QED
      BY <2>4, <3>2, <3>3, <3>4 DEF VpdTurn
  <2>5. CASE ScanTurn \/ MapTurn \/ MapPrint
    <3>1. "fn" \in DOMAIN call' /\ call'.fn \in {"scan", "map", "mapped"}
      BY <2>1, <2>5, TurnsKeepCall, PrintMaps DEF Walks
    <3>2. QED
      BY <3>1 DEF Walks
  <2>6. CASE call' = call
    BY <2>1, <2>6 DEF Walks
  <2>7. QED
    BY <2>1, <2>2, <2>3, <2>4, <2>5, <2>6 DEF Next
<1>3. QED
  BY <1>1, <1>2, PTL DEF Spec

\* Of any vital product data, cap_vpd reads forward and inside the address range,
\* no byte twice but that of an empty reserved field, and its first verdict is
\* that of the sum of all bytes up to the reserved field's first.
THEOREM VpdExact == Spec => []VpdSumIsRight
<1>1. Walks => VpdSumIsRight
  <2>1. SUFFICES ASSUME Walks, call.fn = "vpd"
                 PROVE  VpdSumIsRight
    BY DEF VpdSumIsRight
  <2> DEFINE walk == call.walk
             reads == {i \in DOMAIN walk : walk[i].what = "read"}
             verdicts == DOMAIN walk \ reads
             End(i) == walk[i].pos + walk[i].len
             Extra(i) == i + 1 \in verdicts /\ call.vpd[walk[i].pos - 1] = 0
  <2>2. PICK top \in 0 .. VpdMask + 1 : WalkRight(call.vpd, walk, call.csum, top)
    BY <2>1 DEF Walks, VpdInv, WalkReached
  <2>3. reads = ReadsOf(walk) /\ verdicts = VerdictsOf(walk)
    BY DEF ReadsOf, VerdictsOf
  <2>4. ASSUME NEW i \in reads
        PROVE  /\ walk[i].len <= VpdBuffer
               /\ End(i) <= VpdMask + 1 + (IF Extra(i) THEN 1 ELSE 0)
               /\ \A j \in reads : i < j => walk[j].pos >= End(i) - (IF Extra(i) THEN 1 ELSE 0)
    <3>1. walk \in Seq(VpdEntry) /\ ReadsRight(call.vpd, walk, top)
      BY <2>2 DEF WalkRight
    <3>2. i \in ReadsOf(walk) /\ \A j \in reads : j \in ReadsOf(walk)
      BY <2>3
    <3>3. walk[i].len \in 0 .. VpdBuffer /\ EndOf(walk, i) \in Nat
      BY <3>1, <3>2, EntriesTyped
    <3>4. End(i) = EndOf(walk, i)
      BY DEF EndOf
    <3>5. Slack(call.vpd, walk, i) = IF Extra(i) THEN 1 ELSE 0
      BY <2>3 DEF Slack
    <3>6. \A j \in ReadsOf(walk) : walk[j].pos \in Nat
      BY <3>1, EntriesTyped
    <3>7. EndOf(walk, i) - Slack(call.vpd, walk, i) <= top
      BY <3>1, <3>2 DEF ReadsRight
    <3>8. \A j \in reads : i < j => EndOf(walk, i) - Slack(call.vpd, walk, i) <= walk[j].pos
      BY <3>1, <3>2 DEF ReadsRight
    <3> DEFINE s == IF Extra(i) THEN 1 ELSE 0
    <3>9. s \in 0 .. 1 /\ Slack(call.vpd, walk, i) = s
      BY <3>5
    <3> HIDE DEF s, End, reads, walk, Extra
    <3>10. walk[i].len <= VpdBuffer
      BY <3>3 DEF VpdBuffer
    <3>11. End(i) <= VpdMask + 1 + s
      BY <3>3, <3>4, <3>7, <3>9, VpdMaskAssumption
    <3>12. \A j \in reads : i < j => walk[j].pos >= End(i) - s
      BY <3>2, <3>3, <3>4, <3>6, <3>8, <3>9
    <3>13. QED
      BY <3>10, <3>11, <3>12 DEF s
  <2>5. ASSUME NEW v \in verdicts
        PROVE  LET before == {i \in reads : i < v}
                   last   == walk[v - 1].pos
               IN  /\ \A u \in verdicts : v <= u
                   /\ 0 .. last \subseteq UNION {walk[i].pos .. End(i) - 1 : i \in before}
                   => (walk[v].good <=> ByteSum(call.vpd, 0, last + 1) = 0)
    <3>1. VerdictRight(call.vpd, walk, v)
      BY <2>2, <2>3 DEF WalkRight
    <3>2. {i \in reads : i < v} = {i \in ReadsOf(walk) : i < v}
      BY <2>3
    <3>3. UNION {walk[i].pos .. End(i) - 1 : i \in {j \in reads : j < v}}
            = CoveredBy(walk, {i \in ReadsOf(walk) : i < v})
      BY <3>2, Zenon DEF CoveredBy, EndOf
    <3> HIDE DEF reads, verdicts, End
    <3>4. QED
      BY <2>3, <3>1, <3>3, Zenon DEF VerdictRight
  <2>6. QED
    BY <2>4, <2>5, Zenon DEF VpdSumIsRight
<1>2. QED
  BY <1>1, AlwaysWalks, PTL

\* The parts of a slot string, by its separators.
LEMMA SlotPartsBy ==
  ASSUME NEW text, NEW top, NEW low, NEW up,
         top = At(text, LastSpot(text, Colon)),
         low = Cut(top.after, Dot),
         up = At(top.before, FirstSpot(top.before, Colon))
  PROVE  SlotParts(text) = [domain |-> up.before, bus |-> up.after,
                            slot |-> low.before, func |-> low.after]
<1>1. PICK i : i = LastSpot(text, Colon)
  OBVIOUS
<1>2. top.before = SubSeq(text, 1, i - 1) /\ top.after = SubSeq(text, i + 1, Len(text))
  BY <1>1 DEF At
<1>3. PICK head : head = top.before
  OBVIOUS
<1>4. PICK j : j = FirstSpot(head, Colon)
  OBVIOUS
<1>5. up.before = SubSeq(head, 1, j - 1) /\ up.after = SubSeq(head, j + 1, Len(head))
  BY <1>3, <1>4 DEF At
<1>6. SlotParts(text) =
        [domain |-> SubSeq(head, 1, j - 1), bus |-> SubSeq(head, j + 1, Len(head)),
         slot |-> low.before, func |-> low.after]
  <2>1. head = SubSeq(text, 1, i - 1)
    BY <1>2, <1>3
  <2>2. low = Cut(SubSeq(text, i + 1, Len(text)), Dot)
    BY <1>2
  <2>3. i = SelectLastInSeq(text, LAMBDA t : t = Colon)
    BY <1>1 DEF LastSpot
  <2>4. j = SelectInSeq(head, LAMBDA t : t = Colon)
    BY <1>4 DEF FirstSpot
  <2>5. QED
    BY <2>1, <2>2, <2>3, <2>4, Zenon DEF SlotParts
<1>7. QED
  BY <1>5, <1>6

\* What a domain and a bus may be spelled as, and a slot and a function.
IsHead(h, d, b) ==
  \/ h = d \o <<Colon>> \o b \o <<Colon>>
  \/ d = <<>> /\ h = b \o <<Colon>>
  \/ d = <<>> /\ b = <<>> /\ h = <<>>

\* What follows the last colon of an address: a slot, a dot and a function.
IsTail(t, s, f) ==
  \/ t = s \o <<Dot>> \o f
  \/ f = <<>> /\ t = s

\* A string is one part and then another.
Joins(text, h, t) == text = h \o t

\* Any two of them are a spelling.
LEMMA HeadTail ==
  ASSUME NEW d, NEW b, NEW s, NEW f, NEW h, NEW t,
         IsHead(h, d, b), IsTail(t, s, f)
  PROVE  h \o t \in SlotSpellings(d, b, s, f)
<1> DEFINE heads == {d \o <<Colon>> \o b \o <<Colon>>}
                      \cup (IF d = <<>> THEN {b \o <<Colon>>} ELSE {})
                      \cup (IF d = <<>> /\ b = <<>> THEN {<<>>} ELSE {})
           tails == {s \o <<Dot>> \o f} \cup (IF f = <<>> THEN {s} ELSE {})
<1>1. h \in heads
  BY DEF IsHead
<1>2. t \in tails
  BY DEF IsTail
<1>3. SlotSpellings(d, b, s, f) = {x \o y : x \in heads, y \in tails}
  BY DEF SlotSpellings
<1> HIDE DEF heads, tails
<1>4. QED
  BY <1>1, <1>2, <1>3

\* And all of them are such.
LEMMA HeadAndTail ==
  ASSUME NEW d, NEW b, NEW s, NEW f, NEW text, text \in SlotSpellings(d, b, s, f)
  PROVE  \E h, t : Joins(text, h, t) /\ IsHead(h, d, b) /\ IsTail(t, s, f)
<1> DEFINE heads == {d \o <<Colon>> \o b \o <<Colon>>}
                      \cup (IF d = <<>> THEN {b \o <<Colon>>} ELSE {})
                      \cup (IF d = <<>> /\ b = <<>> THEN {<<>>} ELSE {})
           tails == {s \o <<Dot>> \o f} \cup (IF f = <<>> THEN {s} ELSE {})
<1>1. PICK P, Q : P = heads /\ Q = tails
  OBVIOUS
<1>2. SlotSpellings(d, b, s, f) = {x \o y : x \in P, y \in Q}
  BY <1>1 DEF SlotSpellings
<1>3. PICK R : R = SlotSpellings(d, b, s, f)
  OBVIOUS
<1>4. PICK h \in P, t \in Q : text = h \o t
  <2> HIDE DEF heads, tails
  <2>1. R = {x \o y : x \in P, y \in Q} /\ text \in R
    BY <1>2, <1>3
  <2>2. QED
    BY <2>1
<1>5. h \in heads /\ t \in tails
  BY <1>1, <1>4
<1>6. IsHead(h, d, b)
  BY <1>5 DEF IsHead
<1>7. IsTail(t, s, f)
  BY <1>5 DEF IsTail
<1>8. Joins(text, h, t)
  BY <1>4 DEF Joins
<1>9. QED
  BY <1>6, <1>7, <1>8, Zenon

\* What cutting a string yields.
IsCut(T, text, sep, c) ==
  /\ c.before \in Seq(T) /\ c.after \in Seq(T)
  /\ \/ c.before = text /\ c.after = <<>>
     \/ text = c.before \o <<sep>> \o c.after

\* Cutting a string yields that.
LEMMA CutIs ==
  ASSUME NEW T, NEW text \in Seq(T), NEW sep
  PROVE  IsCut(T, text, sep, Cut(text, sep))
BY CutSome DEF IsCut

\* A string has x before its last separator and y behind it.
LastCut(text, sep, x, y) == At(text, LastSpot(text, sep)) = [before |-> x, after |-> y]

\* So it is when y has no separator.
LEMMA LastCutIs ==
  ASSUME NEW T, NEW x \in Seq(T), NEW y \in Seq(T), NEW sep \in T,
         NEW text, text = x \o <<sep>> \o y, Free(y, sep)
  PROVE  LastCut(text, sep, x, y)
BY LastJoin, Zenon DEF LastCut

\* A string is spelled as its parts are.
LEMMA SlotSpelled ==
  ASSUME NEW T, NEW text \in Seq(T), NEW p, p = SlotParts(text)
  PROVE  /\ p.domain \in Seq(T) /\ p.bus \in Seq(T) /\ p.slot \in Seq(T) /\ p.func \in Seq(T)
         /\ text \in SlotSpellings(p.domain, p.bus, p.slot, p.func)
<1>1. PICK i : i = LastSpot(text, Colon)
  OBVIOUS
<1>2. i \in 0 .. Len(text) /\ (i > 0 => text[i] = Colon)
  BY <1>1, LastIs
<1>3. PICK top : top = At(text, i)
  OBVIOUS
<1>4. /\ top.before \in Seq(T) /\ top.after \in Seq(T)
      /\ \/ i = 0 /\ top.before = <<>> /\ top.after = text
         \/ i # 0 /\ text = top.before \o <<Colon>> \o top.after
  <2>1. CASE i = 0
    <3>1. At(text, 0) = [before |-> <<>>, after |-> text]
      BY SplitNone
    <3>2. top.before = <<>> /\ top.after = text
      BY <1>3, <2>1, <3>1
    <3>3. QED
      BY <2>1, <3>2
  <2>2. CASE i # 0
    <3>1. i \in 1 .. Len(text) /\ i > 0
      BY <1>2, <2>2
    <3>2. /\ At(text, i).before \in Seq(T) /\ At(text, i).after \in Seq(T)
          /\ text = At(text, i).before \o <<text[i]>> \o At(text, i).after
      BY <3>1, SplitAt
    <3>3. text[i] = Colon
      BY <1>2, <3>1
    <3>4. QED
      BY <1>3, <2>2, <3>2, <3>3
  <2>3. QED
    BY <2>1, <2>2
<1>5. PICK j : j = FirstSpot(top.before, Colon)
  OBVIOUS
<1>6. j \in 0 .. Len(top.before) /\ (j > 0 => top.before[j] = Colon)
  BY <1>4, <1>5, FirstIs
<1>7. PICK up : up = At(top.before, j)
  OBVIOUS
<1>8. /\ up.before \in Seq(T) /\ up.after \in Seq(T)
      /\ \/ j = 0 /\ up.before = <<>> /\ up.after = top.before
         \/ j # 0 /\ top.before = up.before \o <<Colon>> \o up.after
  <2>1. CASE j = 0
    <3>1. At(top.before, 0) = [before |-> <<>>, after |-> top.before]
      BY <1>4, SplitNone
    <3>2. up.before = <<>> /\ up.after = top.before
      BY <1>7, <2>1, <3>1
    <3>3. QED
      BY <1>4, <2>1, <3>2
  <2>2. CASE j # 0
    <3>1. j \in 1 .. Len(top.before) /\ j > 0
      BY <1>4, <1>6, <2>2
    <3>2. PICK x \in Seq(T) : x = top.before
      BY <1>4
    <3>3. /\ At(x, j).before \in Seq(T) /\ At(x, j).after \in Seq(T)
          /\ x = At(x, j).before \o <<x[j]>> \o At(x, j).after
      <4>1. j \in 1 .. Len(x)
        BY <3>1, <3>2
      <4>2. QED
        BY <4>1, SplitAt
    <3>4. x[j] = Colon
      BY <1>6, <3>1, <3>2
    <3>5. up = At(x, j)
      BY <1>7, <3>2
    <3>6. QED
      BY <2>2, <3>2, <3>3, <3>4, <3>5
  <2>3. QED
    BY <2>1, <2>2
<1>9. PICK low : low = Cut(top.after, Dot)
  OBVIOUS
<1>10. /\ low.before \in Seq(T) /\ low.after \in Seq(T)
       /\ \/ top.after = low.before /\ low.after = <<>>
          \/ top.after = low.before \o <<Dot>> \o low.after
  <2>1. PICK u \in Seq(T) : u = top.after
    BY <1>4
  <2>2. IsCut(T, u, Dot, Cut(u, Dot))
    BY CutIs
  <2>3. IsCut(T, u, Dot, low)
    BY <1>9, <2>1, <2>2, Zenon
  <2>4. QED
    BY <2>1, <2>3 DEF IsCut
<1>11. p = [domain |-> up.before, bus |-> up.after, slot |-> low.before, func |-> low.after]
  BY <1>1, <1>3, <1>5, <1>7, <1>9, SlotPartsBy
<1>12. PICK h : \/ i = 0 /\ h = <<>>
                \/ i # 0 /\ h = top.before \o <<Colon>>
  OBVIOUS
<1>13. text = h \o top.after
  <2>1. CASE i = 0
    <3>1. h = <<>> /\ text = top.after
      BY <1>4, <1>12, <2>1
    <3>2. <<>> \o text = text
      OBVIOUS
    <3>3. QED
      BY <3>1, <3>2
  <2>2. CASE i # 0
    BY <1>4, <1>12, <2>2
  <2>3. QED
    BY <2>1, <2>2
<1>14. \/ h = up.before \o <<Colon>> \o up.after \o <<Colon>>
       \/ up.before = <<>> /\ h = up.after \o <<Colon>>
       \/ up.before = <<>> /\ up.after = <<>> /\ h = <<>>
  <2>1. CASE i = 0
    <3>1. h = <<>> /\ top.before = <<>>
      BY <1>4, <1>12, <2>1
    <3>2. j = 0
      BY <1>6, <3>1
    <3>3. QED
      BY <1>8, <3>1, <3>2
  <2>2. CASE i # 0
    <3>1. h = top.before \o <<Colon>>
      BY <1>12, <2>2
    <3>2. QED
      BY <1>8, <3>1
  <2>3. QED
    BY <2>1, <2>2
<1>15. \/ top.after = low.before \o <<Dot>> \o low.after
       \/ low.after = <<>> /\ top.after = low.before
  BY <1>10
<1>18. IsHead(h, up.before, up.after)
  BY <1>14 DEF IsHead
<1>19. IsTail(top.after, low.before, low.after)
  BY <1>15 DEF IsTail
<1>16. h \o top.after \in SlotSpellings(up.before, up.after, low.before, low.after)
  BY <1>18, <1>19, HeadTail
<1>17. QED
  BY <1>8, <1>10, <1>11, <1>13, <1>16

\* And as no others.
LEMMA SlotReadOnce ==
  ASSUME NEW T, Colon \in T, Dot \in T,
         NEW d \in Seq(T), NEW b \in Seq(T), NEW s \in Seq(T), NEW f \in Seq(T),
         Free(d, Colon), Free(b, Colon), Free(s, Colon), Free(f, Colon), Free(s, Dot),
         NEW text, text \in SlotSpellings(d, b, s, f)
  PROVE  SlotParts(text) = [domain |-> d, bus |-> b, slot |-> s, func |-> f]
<1>1. PICK h, t : Joins(text, h, t) /\ IsHead(h, d, b) /\ IsTail(t, s, f)
  BY HeadAndTail, Zenon
<1>2. \/ h = d \o <<Colon>> \o b \o <<Colon>>
      \/ d = <<>> /\ h = b \o <<Colon>>
      \/ d = <<>> /\ b = <<>> /\ h = <<>>
  BY <1>1 DEF IsHead
<1>3. \/ t = s \o <<Dot>> \o f
      \/ f = <<>> /\ t = s
  BY <1>1 DEF IsTail
<1>4. Colon # Dot
  BY DEF Colon, Dot
<1>5. /\ t \in Seq(T) /\ Free(t, Colon)
      /\ Cut(t, Dot) = [before |-> s, after |-> f]
  <2>1. CASE t = s \o <<Dot>> \o f
    <3>1. t \in Seq(T)
      BY <2>1
    <3>2. Free(t, Colon)
      BY <1>4, <2>1, FreeJoin
    <3>3. Cut(t, Dot) = [before |-> s, after |-> f]
      BY <2>1, CutJoin
    <3>4. QED
      BY <3>1, <3>2, <3>3
  <2>2. CASE f = <<>> /\ t = s
    BY <2>2, CutNone
  <2>3. QED
    BY <1>3, <2>1, <2>2
<1>6. PICK top : top = At(text, LastSpot(text, Colon))
  OBVIOUS
<1>7. PICK up : up = At(top.before, FirstSpot(top.before, Colon))
  OBVIOUS
<1>8. ASSUME NEW x \in Seq(T), h = x \o <<Colon>>
      PROVE  top.before = x /\ top.after = t
  <2>1. text = x \o <<Colon>> \o t
    BY <1>1, <1>8 DEF Joins
  <2>2. LastCut(text, Colon, x, t)
    BY <1>5, <2>1, LastCutIs
  <2>3. top = [before |-> x, after |-> t]
    BY <1>6, <2>2, Zenon DEF LastCut
  <2>4. QED
    BY <2>3
<1>9. top.after = t /\ up.before = d /\ up.after = b
  <2>1. CASE h = d \o <<Colon>> \o b \o <<Colon>>
    <3>1. PICK x : x = d \o <<Colon>> \o b
      OBVIOUS
    <3>2. x \in Seq(T) /\ h = x \o <<Colon>>
      BY <2>1, <3>1
    <3>3. top.before = x /\ top.after = t
      BY <1>8, <3>2
    <3>4. FirstSpot(x, Colon) = Len(d) + 1 /\ At(x, Len(d) + 1) = [before |-> d, after |-> b]
      BY <3>1, FirstJoin
    <3>5. QED
      BY <1>7, <3>3, <3>4
  <2>2. CASE d = <<>> /\ h = b \o <<Colon>>
    <3>1. top.before = b /\ top.after = t
      BY <1>8, <2>2
    <3>2. FirstSpot(b, Colon) = 0
      BY NoSpot
    <3>3. At(b, 0) = [before |-> <<>>, after |-> b]
      BY SplitNone
    <3>4. QED
      BY <1>7, <2>2, <3>1, <3>2, <3>3
  <2>3. CASE d = <<>> /\ b = <<>> /\ h = <<>>
    <3>1. <<>> \o t = t
      BY <1>5
    <3>2. text = t
      BY <1>1, <2>3, <3>1 DEF Joins
    <3>3. LastSpot(text, Colon) = 0
      BY <1>5, <3>2, NoSpot
    <3>4. At(text, 0) = [before |-> <<>>, after |-> text]
      BY <1>5, <3>2, SplitNone
    <3>5. top.before = <<>> /\ top.after = t
      BY <1>6, <3>2, <3>3, <3>4
    <3>6. FirstSpot(b, Colon) = 0
      BY NoSpot
    <3>7. At(b, 0) = [before |-> <<>>, after |-> b]
      BY SplitNone
    <3>8. QED
      BY <1>7, <2>3, <3>5, <3>6, <3>7
  <2>4. QED
    BY <1>2, <2>1, <2>2, <2>3
<1>10. PICK low : low = Cut(top.after, Dot)
  OBVIOUS
<1>11. low.before = s /\ low.after = f
  BY <1>5, <1>9, <1>10
<1>12. SlotParts(text) = [domain |-> up.before, bus |-> up.after, slot |-> low.before, func |-> low.after]
  BY <1>6, <1>7, <1>10, SlotPartsBy
<1>13. QED
  BY <1>9, <1>11, <1>12

\* A part of a well-formed string has no separator.
LEMMA PartsFree ==
  ASSUME NEW k, NEW part \in Parts(k)
  PROVE  part \in Seq(Token) /\ Free(part, Colon) /\ Free(part, Dot)
<1>1. Star # Colon /\ Star # Dot
  BY DEF Star, Colon, Dot
<1>2. CASE part = <<>>
  BY <1>2 DEF Free
<1>3. CASE part = <<Star>>
  BY <1>1, <1>3 DEF Free, Token
<1>4. CASE part \in {<<t>> : t \in {u \in DOMAIN Number : 0 <= Number[u] /\ Number[u] <= Largest[k]}}
  <2>1. PICK t \in DOMAIN Number : part = <<t>>
    BY <1>4
  <2>2. t # Colon /\ t # Dot
    BY NumberAssumption
  <2>3. QED
    BY <2>1, <2>2 DEF Free, Token
<1>5. QED
  BY <1>2, <1>3, <1>4 DEF Parts

\* Parts of a well-formed string are those the parser skips or takes.
LEMMA PartsTaken ==
  ASSUME NEW T, NEW part \in Seq(T), NEW k \in Field
  PROVE  part \in Parts(k) <=> Open(part) \/ Fits(part, k)
<1>1. Largest[k] \in Nat
  BY LargestTyped
<1>2. \A t \in DOMAIN Number : Number[t] \in Int
  BY NumberAssumption
<1>3. ASSUME part \in Parts(k) PROVE Open(part) \/ Fits(part, k)
  <2>1. CASE part \in {<<>>, <<Star>>}
    BY <2>1 DEF Open
  <2>2. CASE part \in {<<t>> : t \in {u \in DOMAIN Number : 0 <= Number[u] /\ Number[u] <= Largest[k]}}
    <3>1. PICK t \in DOMAIN Number : part = <<t>> /\ 0 <= Number[t] /\ Number[t] <= Largest[k]
      BY <2>2
    <3>2. Len(part) = 1 /\ part[1] = t
      BY <3>1
    <3>3. Number[t] \in 0 .. Largest[k]
      BY <1>1, <1>2, <3>1
    <3>4. QED
      BY <3>2, <3>3 DEF Fits
  <2>3. QED
    BY <1>3, <2>1, <2>2 DEF Parts
<1>4. ASSUME Fits(part, k) PROVE part \in Parts(k)
  <2>1. PICK t : t = part[1]
    OBVIOUS
  <2>2. Len(part) = 1 /\ t \in DOMAIN Number /\ Number[t] \in 0 .. Largest[k]
    BY <1>4, <2>1 DEF Fits
  <2>3. part = <<t>>
    BY <2>1, <2>2
  <2>4. 0 <= Number[t] /\ Number[t] <= Largest[k]
    BY <1>1, <1>2, <2>2
  <2>5. QED
    BY <2>2, <2>3, <2>4 DEF Parts
<1>5. ASSUME Open(part) PROVE part \in Parts(k)
  BY <1>5 DEF Open, Parts
<1>6. QED
  BY <1>3, <1>4, <1>5

\* What an open part does not choose, and a taken one chooses.
LEMMA ChosenIs ==
  ASSUME NEW f, NEW k, NEW part
  PROVE  /\ Open(part) => Chosen(f, k, part) = f[k]
         /\ ~Open(part) => Chosen(f, k, part) = Number[part[1]]
BY DEF Chosen

\* A part sets its field, unless there was an error or is one.
LEMMA FieldParsed ==
  ASSUME NEW T, NEW r \in Result, NEW k \in Field, NEW part \in Seq(T),
         NEW q, q = ParseField(r, k, part)
  PROVE  /\ q \in Result
         /\ q.error <=> r.error \/ part \notin Parts(k)
         /\ \A m \in Field : m # k => q.filter[m] = r.filter[m]
         /\ ~q.error => q.filter[k] = Chosen(r.filter, k, part)
<1>1. part \in Parts(k) <=> Open(part) \/ Fits(part, k)
  BY PartsTaken
<1>2. CASE r.error \/ Open(part)
  <2>1. q = r
    BY <1>2 DEF ParseField
  <2>2. QED
    BY <1>1, <1>2, <2>1, ChosenIs
<1>3. CASE ~(r.error \/ Open(part))
  <2>1. q = SetField(r, k, part)
    BY <1>3 DEF ParseField
  <2>2. /\ q \in Result
        /\ q.error <=> r.error \/ ~Fits(part, k)
        /\ \A m \in Field : m # k => q.filter[m] = r.filter[m]
        /\ Fits(part, k) => q.filter[k] = Number[part[1]]
    <3>1. SetDone(r, k, part, q)
      BY <2>1, FieldSet
    <3>2. QED
      BY <3>1 DEF SetDone
  <2>3. Chosen(r.filter, k, part) = Number[part[1]]
    BY <1>3, ChosenIs
  <2>4. QED
    BY <1>1, <1>3, <2>2, <2>3
<1>4. QED
  BY <1>2, <1>3

\* What is chosen depends on the field alone.
LEMMA ChosenSame ==
  ASSUME NEW f, NEW g, NEW k, NEW part, f[k] = g[k]
  PROVE  Chosen(f, k, part) = Chosen(g, k, part)
BY DEF Chosen

\* Four fields of a slot string.
LEMMA SlotParsed ==
  ASSUME NEW T, NEW f \in [Field -> Int], NEW text \in Seq(T),
         NEW p, p = SlotParts(text), NEW q, q = ParseSlot(f, text)
  PROVE  /\ q \in Result
         /\ ~q.error <=> /\ p.domain \in Parts("domain") /\ p.bus \in Parts("bus")
                         /\ p.slot \in Parts("slot") /\ p.func \in Parts("func")
         /\ \A m \in IdentField \cup {"class"} : q.filter[m] = f[m]
         /\ ~q.error => /\ q.filter["domain"] = Chosen(f, "domain", p.domain)
                        /\ q.filter["bus"] = Chosen(f, "bus", p.bus)
                        /\ q.filter["slot"] = Chosen(f, "slot", p.slot)
                        /\ q.filter["func"] = Chosen(f, "func", p.func)
<1> DEFINE r0 == Ok(f)
           r1 == ParseField(r0, "domain", p.domain)
           r2 == ParseField(r1, "bus", p.bus)
           r3 == ParseField(r2, "slot", p.slot)
           r4 == ParseField(r3, "func", p.func)
<1>1. p.domain \in Seq(T) /\ p.bus \in Seq(T) /\ p.slot \in Seq(T) /\ p.func \in Seq(T)
  BY SlotSpelled
<1>2. {"domain", "bus", "slot", "func"} \subseteq Field /\ IdentField \cup {"class"} \subseteq Field
  BY DEF Field, OldField, AddressField
<1>3. r0 \in Result /\ r0.filter = f /\ r0.error = FALSE
  BY DEF Ok, Result
<1>4. q = r4
  BY DEF ParseSlot
<1> HIDE DEF r0
<1>5. /\ r1 \in Result
      /\ r1.error <=> r0.error \/ p.domain \notin Parts("domain")
      /\ \A m \in Field : m # "domain" => r1.filter[m] = r0.filter[m]
      /\ ~r1.error => r1.filter["domain"] = Chosen(r0.filter, "domain", p.domain)
  BY <1>1, <1>2, <1>3, FieldParsed
<1> HIDE DEF r1
<1>6. /\ r2 \in Result
      /\ r2.error <=> r1.error \/ p.bus \notin Parts("bus")
      /\ \A m \in Field : m # "bus" => r2.filter[m] = r1.filter[m]
      /\ ~r2.error => r2.filter["bus"] = Chosen(r1.filter, "bus", p.bus)
  BY <1>1, <1>2, <1>5, FieldParsed
<1> HIDE DEF r2
<1>7. /\ r3 \in Result
      /\ r3.error <=> r2.error \/ p.slot \notin Parts("slot")
      /\ \A m \in Field : m # "slot" => r3.filter[m] = r2.filter[m]
      /\ ~r3.error => r3.filter["slot"] = Chosen(r2.filter, "slot", p.slot)
  BY <1>1, <1>2, <1>6, FieldParsed
<1> HIDE DEF r3
<1>8. /\ r4 \in Result
      /\ r4.error <=> r3.error \/ p.func \notin Parts("func")
      /\ \A m \in Field : m # "func" => r4.filter[m] = r3.filter[m]
      /\ ~r4.error => r4.filter["func"] = Chosen(r3.filter, "func", p.func)
  BY <1>1, <1>2, <1>7, FieldParsed
<1> HIDE DEF r4
<1>9. /\ ~r4.error <=> /\ p.domain \in Parts("domain") /\ p.bus \in Parts("bus")
                       /\ p.slot \in Parts("slot") /\ p.func \in Parts("func")
      /\ ~r4.error => ~r3.error /\ ~r2.error /\ ~r1.error
  BY <1>3, <1>5, <1>6, <1>7, <1>8
<1>10. \A m \in IdentField \cup {"class"} : r4.filter[m] = f[m]
  BY <1>2, <1>3, <1>5, <1>6, <1>7, <1>8 DEF IdentField
<1>11. r1.filter["bus"] = f["bus"] /\ r2.filter["slot"] = f["slot"] /\ r3.filter["func"] = f["func"]
  BY <1>2, <1>3, <1>5, <1>6, <1>7
<1>12. /\ Chosen(r1.filter, "bus", p.bus) = Chosen(f, "bus", p.bus)
       /\ Chosen(r2.filter, "slot", p.slot) = Chosen(f, "slot", p.slot)
       /\ Chosen(r3.filter, "func", p.func) = Chosen(f, "func", p.func)
  BY <1>11, ChosenSame
<1>13. ASSUME ~r4.error
       PROVE  /\ r4.filter["domain"] = Chosen(f, "domain", p.domain)
              /\ r4.filter["bus"] = Chosen(f, "bus", p.bus)
              /\ r4.filter["slot"] = Chosen(f, "slot", p.slot)
              /\ r4.filter["func"] = Chosen(f, "func", p.func)
  <2>1. r4.filter["domain"] = r1.filter["domain"] /\ r4.filter["bus"] = r2.filter["bus"]
        /\ r4.filter["slot"] = r3.filter["slot"]
    BY <1>2, <1>6, <1>7, <1>8
  <2>2. QED
    BY <1>3, <1>5, <1>6, <1>7, <1>8, <1>9, <1>12, <1>13, <2>1
<1>14. QED
  BY <1>4, <1>8, <1>9, <1>10, <1>13

\* What is spelled by four parts has these parts.
LEMMA SlotReading ==
  ASSUME NEW d \in Parts("domain"), NEW b \in Parts("bus"), NEW s \in Parts("slot"),
         NEW f \in Parts("func"), NEW text, text \in SlotSpellings(d, b, s, f)
  PROVE  SlotParts(text) = [domain |-> d, bus |-> b, slot |-> s, func |-> f]
<1>1. Colon \in Token /\ Dot \in Token
  BY DEF Token
<1>2. d \in Seq(Token) /\ Free(d, Colon)
  BY PartsFree
<1>3. b \in Seq(Token) /\ Free(b, Colon)
  BY PartsFree
<1>4. s \in Seq(Token) /\ Free(s, Colon) /\ Free(s, Dot)
  BY PartsFree
<1>5. f \in Seq(Token) /\ Free(f, Colon)
  BY PartsFree
<1>6. QED
  BY <1>1, <1>2, <1>3, <1>4, <1>5, SlotReadOnce

\* A slot string is read as its syntax says, from a filter to a result.
SlotTold(f, text, q) ==
  LET readings == {r \in Parts("domain") \X Parts("bus") \X Parts("slot") \X Parts("func") :
                     text \in SlotSpellings(r[1], r[2], r[3], r[4])}
  IN  /\ q.error <=> readings = {}
      /\ \A p \in readings :
           q.filter = [f EXCEPT !["domain"] = Chosen(f, "domain", p[1]),
                                !["bus"]    = Chosen(f, "bus", p[2]),
                                !["slot"]   = Chosen(f, "slot", p[3]),
                                !["func"]   = Chosen(f, "func", p[4])]

\* pci_filter_parse_slot does.
LEMMA SlotFollows ==
  ASSUME NEW T, NEW f \in [Field -> Int], NEW text \in Seq(T)
  PROVE  SlotTold(f, text, ParseSlot(f, text))
<1> DEFINE quads == Parts("domain") \X Parts("bus") \X Parts("slot") \X Parts("func")
           readings == {r \in quads : text \in SlotSpellings(r[1], r[2], r[3], r[4])}
<1>9. PICK q : q = ParseSlot(f, text)
  OBVIOUS
<1>1. PICK p : p = SlotParts(text)
  OBVIOUS
<1>2. /\ q \in Result
      /\ ~q.error <=> /\ p.domain \in Parts("domain") /\ p.bus \in Parts("bus")
                      /\ p.slot \in Parts("slot") /\ p.func \in Parts("func")
      /\ \A m \in IdentField \cup {"class"} : q.filter[m] = f[m]
      /\ ~q.error => /\ q.filter["domain"] = Chosen(f, "domain", p.domain)
                     /\ q.filter["bus"] = Chosen(f, "bus", p.bus)
                     /\ q.filter["slot"] = Chosen(f, "slot", p.slot)
                     /\ q.filter["func"] = Chosen(f, "func", p.func)
  BY <1>1, <1>9, SlotParsed
<1>3. text \in SlotSpellings(p.domain, p.bus, p.slot, p.func)
  BY <1>1, SlotSpelled
<1>4. ASSUME NEW r \in readings
      PROVE  /\ r[1] \in Parts("domain") /\ r[2] \in Parts("bus")
             /\ r[3] \in Parts("slot") /\ r[4] \in Parts("func")
             /\ p.domain = r[1] /\ p.bus = r[2] /\ p.slot = r[3] /\ p.func = r[4]
  <2>1. /\ r[1] \in Parts("domain") /\ r[2] \in Parts("bus")
        /\ r[3] \in Parts("slot") /\ r[4] \in Parts("func")
    OBVIOUS
  <2>2. text \in SlotSpellings(r[1], r[2], r[3], r[4])
    OBVIOUS
  <2>3. p = [domain |-> r[1], bus |-> r[2], slot |-> r[3], func |-> r[4]]
    BY <1>1, <2>1, <2>2, SlotReading
  <2>4. QED
    BY <2>1, <2>3
<1>5. ASSUME ~q.error PROVE readings # {}
  <2>1. PICK r : r = <<p.domain, p.bus, p.slot, p.func>>
    OBVIOUS
  <2>2. r \in quads
    BY <1>2, <1>5, <2>1
  <2>3. r[1] = p.domain /\ r[2] = p.bus /\ r[3] = p.slot /\ r[4] = p.func
    BY <2>1
  <2>4. text \in SlotSpellings(r[1], r[2], r[3], r[4])
    BY <1>3, <2>3
  <2>5. r \in readings
    BY <2>2, <2>4
  <2>6. QED
    BY <2>5
<1>6. ASSUME readings # {} PROVE ~q.error
  <2>1. PICK r \in readings : TRUE
    BY <1>6
  <2>2. QED
    BY <1>2, <1>4, <2>1
<1>7. ASSUME NEW r \in readings
      PROVE  q.filter = [f EXCEPT !["domain"] = Chosen(f, "domain", r[1]),
                                  !["bus"]    = Chosen(f, "bus", r[2]),
                                  !["slot"]   = Chosen(f, "slot", r[3]),
                                  !["func"]   = Chosen(f, "func", r[4])]
  <2>1. ~q.error
    BY <1>6, <1>7
  <2>2. p.domain = r[1] /\ p.bus = r[2] /\ p.slot = r[3] /\ p.func = r[4]
    BY <1>4, <1>7
  <2>3. PICK g \in [Field -> Int] : g = q.filter
    BY <1>2 DEF Result
  <2>4. /\ g["domain"] = Chosen(f, "domain", r[1]) /\ g["bus"] = Chosen(f, "bus", r[2])
        /\ g["slot"] = Chosen(f, "slot", r[3]) /\ g["func"] = Chosen(f, "func", r[4])
    BY <1>2, <2>1, <2>2, <2>3
  <2>5. \A m \in IdentField \cup {"class"} : g[m] = f[m]
    BY <1>2, <2>3
  <2>6. g = [f EXCEPT !["domain"] = g["domain"], !["bus"] = g["bus"],
                      !["slot"] = g["slot"], !["func"] = g["func"]]
    BY <2>5, FieldsMake
  <2>7. QED
    BY <2>3, <2>4, <2>6
<1>8. SlotTold(f, text, q)
  BY <1>5, <1>6, <1>7 DEF SlotTold
<1>10. QED
  BY <1>8, <1>9

(***************************************************************************)
(* Id strings.                                                             *)
(***************************************************************************)

\* The parts pci_filter_parse_id takes.
IdParts(text) ==
  LET top  == At(text, FirstSpot(text, Colon))
      rest == Cut(top.after, Colon)
  IN  [vendor |-> top.before, device |-> rest.before, class |-> rest.after]

\* Parts of three with separators between them.
Grouped(x, y, z, sep) ==
  x \o <<sep>> \o y \o <<sep>> \o z = x \o <<sep>> \o (y \o <<sep>> \o z)

\* Putting strings together associates.
Associate(s, t, u) == (s \o t) \o u = s \o (t \o u)

\* It does for any strings.
LEMMA AssociateAny ==
  ASSUME NEW T, NEW s \in Seq(T), NEW t \in Seq(T), NEW u \in Seq(T)
  PROVE  Associate(s, t, u)
BY ConcatAssociative DEF Associate

\* A string of three parts may be cut at either separator.
LEMMA Regroup ==
  ASSUME NEW T, NEW x \in Seq(T), NEW y \in Seq(T), NEW z \in Seq(T), NEW sep \in T
  PROVE  Grouped(x, y, z, sep)
<1>1. PICK a, s \in Seq(T) : a = x \o <<sep>> /\ s = <<sep>>
  <2>1. x \o <<sep>> \in Seq(T)
    OBVIOUS
  <2>2. <<sep>> \in Seq(T)
    OBVIOUS
  <2>3. QED
    BY <2>1, <2>2
<1>2. (a \o y) \o s \in Seq(T) /\ a \o y \in Seq(T) /\ s \o z \in Seq(T)
  BY <1>1
<1>3. ((a \o y) \o s) \o z = (a \o y) \o (s \o z)
  <2>1. PICK u \in Seq(T) : u = a \o y
    BY <1>2
  <2>2. Associate(u, s, z)
    BY AssociateAny
  <2>3. QED
    BY <2>1, <2>2, Zenon DEF Associate
<1>4. (a \o y) \o (s \o z) = a \o (y \o (s \o z))
  <2>1. PICK u \in Seq(T) : u = s \o z
    BY <1>2
  <2>2. Associate(a, y, u)
    BY AssociateAny
  <2>3. QED
    BY <2>1, <2>2, Zenon DEF Associate
<1>5. y \o (s \o z) = (y \o s) \o z
  <2>1. Associate(y, s, z)
    BY AssociateAny
  <2>2. QED
    BY <2>1, Zenon DEF Associate
<1>6. ((a \o y) \o s) \o z = a \o ((y \o s) \o z)
  BY <1>3, <1>4, <1>5
<1>7. QED
  BY <1>1, <1>6 DEF Grouped

\* An id string with a separator is spelled as its parts are.
LEMMA IdSpelled ==
  ASSUME NEW T, NEW text \in Seq(T), FirstSpot(text, Colon) # 0,
         NEW p, p = IdParts(text)
  PROVE  /\ p.vendor \in Seq(T) /\ p.device \in Seq(T) /\ p.class \in Seq(T)
         /\ text \in IdSpellings(p.vendor, p.device, p.class)
         /\ p.class # <<>> =>
              text = p.vendor \o <<Colon>> \o (p.device \o <<Colon>> \o p.class)
<1>1. PICK i : i = FirstSpot(text, Colon)
  OBVIOUS
<1>2. i \in 1 .. Len(text) /\ text[i] = Colon
  <2>1. i \in 0 .. Len(text) /\ (i > 0 => text[i] = Colon)
    BY <1>1, FirstIs
  <2>2. i # 0
    BY <1>1
  <2>3. QED
    BY <2>1, <2>2
<1>3. PICK top : top = At(text, i)
  OBVIOUS
<1>4. /\ top.before \in Seq(T) /\ top.after \in Seq(T)
      /\ text = top.before \o <<Colon>> \o top.after
  <2>1. /\ At(text, i).before \in Seq(T) /\ At(text, i).after \in Seq(T)
        /\ text = At(text, i).before \o <<text[i]>> \o At(text, i).after
    BY <1>2, SplitAt
  <2>2. QED
    BY <1>2, <1>3, <2>1
<1>5. PICK rest : rest = Cut(top.after, Colon)
  OBVIOUS
<1>6. p = [vendor |-> top.before, device |-> rest.before, class |-> rest.after]
  BY <1>1, <1>3, <1>5, Zenon DEF IdParts
<1>7. /\ rest.before \in Seq(T) /\ rest.after \in Seq(T)
      /\ \/ rest.before = top.after /\ rest.after = <<>>
         \/ top.after = rest.before \o <<Colon>> \o rest.after
  <2>1. PICK u \in Seq(T) : u = top.after
    BY <1>4
  <2>2. /\ Cut(u, Colon).before \in Seq(T) /\ Cut(u, Colon).after \in Seq(T)
        /\ \/ Cut(u, Colon).before = u /\ Cut(u, Colon).after = <<>>
           \/ u = Cut(u, Colon).before \o <<Colon>> \o Cut(u, Colon).after
    BY CutSome
  <2>3. QED
    BY <1>5, <2>1, <2>2
<1>8. PICK v, d, c \in Seq(T \cup {Colon}) : v = top.before /\ d = rest.before /\ c = rest.after
  BY <1>4, <1>7
<1>9. p.vendor = v /\ p.device = d /\ p.class = c
  BY <1>6, <1>8
<1>10. \/ c = <<>> /\ text = v \o <<Colon>> \o d
       \/ text = v \o <<Colon>> \o (d \o <<Colon>> \o c)
  BY <1>4, <1>7, <1>8
<1>11. v \o <<Colon>> \o d \o <<Colon>> \o c = v \o <<Colon>> \o (d \o <<Colon>> \o c)
  <2>1. Colon \in T \cup {Colon}
    OBVIOUS
  <2>2. Grouped(v, d, c, Colon)
    BY <2>1, Regroup
  <2>3. QED
    BY <2>2 DEF Grouped
<1>12. text \in IdSpellings(v, d, c)
  <2>1. CASE c = <<>> /\ text = v \o <<Colon>> \o d
    BY <2>1 DEF IdSpellings
  <2>2. CASE text = v \o <<Colon>> \o (d \o <<Colon>> \o c)
    BY <1>11, <2>2 DEF IdSpellings
  <2>3. QED
    BY <1>10, <2>1, <2>2
<1>13. QED
  BY <1>4, <1>7, <1>8, <1>9, <1>10, <1>12, Zenon

\* And as no others.
LEMMA IdReadOnce ==
  ASSUME NEW T, Colon \in T, NEW v \in Seq(T), NEW d \in Seq(T), NEW c \in Seq(T),
         Free(v, Colon), Free(d, Colon),
         NEW text, text # <<>>, text \in IdSpellings(v, d, c)
  PROVE  /\ FirstSpot(text, Colon) # 0
         /\ IdParts(text) = [vendor |-> v, device |-> d, class |-> c]
<1>1. \/ c = <<>> /\ text = v \o <<Colon>> \o d
      \/ text = v \o <<Colon>> \o d \o <<Colon>> \o c
  BY DEF IdSpellings
<1>2. v \o <<Colon>> \o d \o <<Colon>> \o c = v \o <<Colon>> \o (d \o <<Colon>> \o c)
  <2>1. Grouped(v, d, c, Colon)
    BY Regroup
  <2>2. QED
    BY <2>1 DEF Grouped
<1>3. PICK w \in Seq(T) : /\ text = v \o <<Colon>> \o w
                          /\ \/ c = <<>> /\ w = d
                             \/ w = d \o <<Colon>> \o c
  <2>1. CASE c = <<>> /\ text = v \o <<Colon>> \o d
    BY <2>1
  <2>2. CASE text = v \o <<Colon>> \o d \o <<Colon>> \o c
    <3>1. PICK w : w = d \o <<Colon>> \o c
      OBVIOUS
    <3>2. w \in Seq(T)
      BY <3>1
    <3>3. QED
      BY <1>2, <2>2, <3>1, <3>2
  <2>3. QED
    BY <1>1, <2>1, <2>2
<1>4. FirstSpot(text, Colon) = Len(v) + 1 /\ At(text, Len(v) + 1) = [before |-> v, after |-> w]
  BY <1>3, FirstJoin
<1>5. Cut(w, Colon) = [before |-> d, after |-> c]
  <2>1. CASE c = <<>> /\ w = d
    BY <2>1, CutNone
  <2>2. CASE w = d \o <<Colon>> \o c
    BY <2>2, CutJoin
  <2>3. QED
    BY <1>3, <2>1, <2>2
<1>6. Len(v) + 1 # 0
  OBVIOUS
<1>7. IdParts(text) = [vendor |-> v, device |-> d, class |-> c]
  <2>1. PICK top : top = At(text, FirstSpot(text, Colon))
    OBVIOUS
  <2>2. top.before = v /\ top.after = w
    BY <1>4, <2>1
  <2>3. PICK rest : rest = Cut(top.after, Colon)
    OBVIOUS
  <2>4. rest.before = d /\ rest.after = c
    BY <1>5, <2>2, <2>3
  <2>5. IdParts(text) = [vendor |-> top.before, device |-> rest.before, class |-> rest.after]
    BY <2>1, <2>3, Zenon DEF IdParts
  <2>6. QED
    BY <2>2, <2>4, <2>5
<1>8. QED
  BY <1>4, <1>6, <1>7

\* The parse, by the parts.
LEMMA IdParseBy ==
  ASSUME NEW f, NEW text, NEW p, p = IdParts(text)
  PROVE  ParseId(f, text) =
           IF text = <<>> THEN Ok(f)
           ELSE IF FirstSpot(text, Colon) = 0 THEN [Ok(f) EXCEPT !.error = TRUE]
           ELSE ParseClass(ParseField(ParseField(Ok(f), "vendor", p.vendor), "device", p.device),
                           p.device, p.class)
<1>1. PICK i : i = FirstSpot(text, Colon)
  OBVIOUS
<1>2. PICK top : top = At(text, i)
  OBVIOUS
<1>3. top.before = SubSeq(text, 1, i - 1) /\ top.after = SubSeq(text, i + 1, Len(text))
  BY <1>2 DEF At
<1>4. PICK rest : rest = Cut(top.after, Colon)
  OBVIOUS
<1>5. p = [vendor |-> top.before, device |-> rest.before, class |-> rest.after]
  BY <1>1, <1>2, <1>4, Zenon DEF IdParts
<1>6. p.vendor = SubSeq(text, 1, i - 1) /\ p.device = rest.before /\ p.class = rest.after
  <2>1. p.vendor = top.before /\ p.device = rest.before /\ p.class = rest.after
    BY <1>5
  <2>2. QED
    BY <1>3, <2>1, Zenon
<1>7. rest = Cut(SubSeq(text, i + 1, Len(text)), Colon)
  BY <1>3, <1>4
<1>8. i = SelectInSeq(text, LAMBDA t : t = Colon)
  BY <1>1 DEF FirstSpot
<1>9. ParseId(f, text) =
           IF text = <<>> THEN Ok(f)
           ELSE IF i = 0 THEN [Ok(f) EXCEPT !.error = TRUE]
           ELSE ParseClass(ParseField(ParseField(Ok(f), "vendor", SubSeq(text, 1, i - 1)), "device", rest.before),
                           rest.before, rest.after)
  BY <1>7, <1>8, Zenon DEF ParseId
<1>10. QED
  BY <1>1, <1>6, <1>9

\* Two separators are more than one, so that no star is behind the vendor.
LEMMA StarsOut ==
  ASSUME NEW T, NEW v \in Seq(T), NEW d \in Seq(T), NEW c \in Seq(T), Colon \in T,
         NEW text, text = v \o <<Colon>> \o (d \o <<Colon>> \o c), ~StarBesideClass(text)
  PROVE  d # <<Star>> /\ c # <<Star>>
<1>1. PICK w \in Seq(T) : w = d \o <<Colon>> \o c
  <2>1. d \o <<Colon>> \o c \in Seq(T)
    OBVIOUS
  <2>2. QED
    BY <2>1
<1>2. /\ w[Len(d) + 1] = Colon /\ Len(w) = Len(d) + 1 + Len(c)
      /\ \A j \in 1 .. Len(d) : w[j] = d[j]
      /\ \A j \in 1 .. Len(c) : w[Len(d) + 1 + j] = c[j]
  <2>1. PICK z : z = d \o <<Colon>> \o c
    OBVIOUS
  <2>2. /\ z[Len(d) + 1] = Colon /\ Len(z) = Len(d) + 1 + Len(c)
        /\ \A j \in 1 .. Len(d) : z[j] = d[j]
        /\ \A j \in 1 .. Len(c) : z[Len(d) + 1 + j] = c[j]
    BY <2>1, JoinAt
  <2>3. w = z
    BY <1>1, <2>1
  <2>4. QED
    BY <2>2, <2>3
<1>3. text = v \o <<Colon>> \o w
  BY <1>1
<1>4. /\ text \in Seq(T) /\ text[Len(v) + 1] = Colon /\ Len(text) = Len(v) + 1 + Len(w)
      /\ \A j \in 1 .. Len(w) : text[Len(v) + 1 + j] = w[j]
  <2>1. PICK z : z = v \o <<Colon>> \o w
    OBVIOUS
  <2>2. /\ z \in Seq(T) /\ z[Len(v) + 1] = Colon /\ Len(z) = Len(v) + 1 + Len(w)
        /\ \A j \in 1 .. Len(w) : z[Len(v) + 1 + j] = w[j]
    BY <2>1, JoinAt
  <2>3. text = z
    BY <1>3, <2>1
  <2>4. QED
    BY <2>2, <2>3
<1>5. Len(v) \in Nat /\ Len(d) \in Nat /\ Len(c) \in Nat /\ Len(w) \in Nat
  BY <1>1
<1>6. DOMAIN text = 1 .. Len(text)
  BY <1>4
<1> DEFINE I == {i \in DOMAIN text : text[i] = Colon}
<1>7. Cardinality(I) > 1
  <2>1. PICK a, b : a = Len(v) + 1 /\ b = Len(v) + 1 + (Len(d) + 1)
    OBVIOUS
  <2>2. a \in 1 .. Len(text) /\ b \in 1 .. Len(text) /\ a # b
    BY <1>2, <1>4, <1>5, <2>1
  <2>3. text[a] = Colon
    BY <1>4, <2>1
  <2>4. text[b] = Colon
    <3>1. Len(d) + 1 \in 1 .. Len(w)
      BY <1>2, <1>5
    <3>2. QED
      BY <1>2, <1>4, <2>1, <3>1
  <2>5. a \in I /\ b \in I
    BY <1>6, <2>2, <2>3, <2>4
  <2>6. IsFiniteSet(I)
    <3>1. I \in SUBSET (1 .. Len(text))
      BY <1>6
    <3>2. IsFiniteSet(1 .. Len(text))
      <4>1. 1 \in Int /\ Len(text) \in Int
        BY <1>4
      <4>2. QED
        BY <4>1, FS_Interval
    <3> HIDE DEF I
    <3>3. QED
      BY <3>1, <3>2, FS_Subset
  <2> HIDE DEF I
  <2>7. Cardinality(I) \in Nat
    BY <2>6, FS_CardinalityType
  <2>8. Cardinality(I) # 0
    BY <2>5, <2>6, FS_EmptySet
  <2>9. Cardinality(I) # 1
    BY <2>2, <2>5, <2>6, FS_Singleton
  <2>10. QED
    BY <2>7, <2>8, <2>9
<1>8. \A i \in DOMAIN text \ {1} : text[i] # Star
  BY <1>7, Zenon DEF StarBesideClass
<1>9. ASSUME d = <<Star>> PROVE FALSE
  <2>1. Len(d) = 1 /\ d[1] = Star
    BY <1>9
  <2>2. w[1] = Star /\ 1 \in 1 .. Len(w)
    BY <1>2, <1>5, <2>1
  <2>3. PICK i : i = Len(v) + 1 + 1
    OBVIOUS
  <2>4. text[i] = Star
    BY <1>4, <2>2, <2>3
  <2>5. i \in DOMAIN text \ {1}
    BY <1>4, <1>5, <1>6, <2>2, <2>3
  <2>6. QED
    BY <1>8, <2>4, <2>5
<1>10. ASSUME c = <<Star>> PROVE FALSE
  <2>1. Len(c) = 1 /\ c[1] = Star
    BY <1>10
  <2>2. PICK j : j = Len(d) + 1 + 1
    OBVIOUS
  <2>3. w[j] = Star /\ j \in 1 .. Len(w)
    BY <1>2, <1>5, <2>1, <2>2
  <2>4. PICK i : i = Len(v) + 1 + j
    OBVIOUS
  <2>5. text[i] = Star
    BY <1>4, <2>3, <2>4
  <2>6. i \in DOMAIN text \ {1}
    BY <1>4, <1>5, <1>6, <2>3, <2>4
  <2>7. QED
    BY <1>8, <2>5, <2>6
<1>11. QED
  BY <1>9, <1>10

\* Three fields of an id string, from a filter to a result.
IdGoes(f, p, q) ==
  /\ q \in Result
  /\ ~q.error <=> /\ p.vendor \in Parts("vendor") /\ p.device \in Parts("device")
                  /\ p.class \in Parts("class")
  /\ \A m \in AddressField : q.filter[m] = f[m]
  /\ ~q.error => /\ q.filter["vendor"] = Chosen(f, "vendor", p.vendor)
                 /\ q.filter["device"] = Chosen(f, "device", p.device)
                 /\ q.filter["class"] = Chosen(f, "class", p.class)

\* Where no star misleads it, the class is parsed as the others are.
LEMMA IdParsed ==
  ASSUME NEW T, NEW f \in [Field -> Int], NEW text \in Seq(T),
         text # <<>>, FirstSpot(text, Colon) # 0, ~StarBesideClass(text)
  PROVE  IdGoes(f, IdParts(text), ParseId(f, text))
<1>14. PICK p : p = IdParts(text)
  OBVIOUS
<1>15. PICK q : q = ParseId(f, text)
  OBVIOUS
<1> DEFINE r0 == Ok(f)
           r1 == ParseField(r0, "vendor", p.vendor)
           r2 == ParseField(r1, "device", p.device)
           r3 == ParseField(r2, "class", p.class)
<1>1. p.vendor \in Seq(T) /\ p.device \in Seq(T) /\ p.class \in Seq(T)
  BY <1>14, IdSpelled
<1>2. {"vendor", "device", "class"} \subseteq Field /\ AddressField \subseteq Field
  BY DEF Field, OldField, IdentField
<1>3. r0 \in Result /\ r0.filter = f /\ r0.error = FALSE
  BY DEF Ok, Result
<1>4. q = r3
  <2>1. q = ParseClass(r2, p.device, p.class)
    BY <1>14, <1>15, IdParseBy, Zenon
  <2>2. ASSUME p.class # <<>> PROVE p.device # <<Star>> /\ p.class # <<Star>>
    <3>1. text = p.vendor \o <<Colon>> \o (p.device \o <<Colon>> \o p.class)
      BY <1>14, <2>2, IdSpelled
    <3>2. PICK v, d, c \in Seq(T \cup {Colon}) : v = p.vendor /\ d = p.device /\ c = p.class
      BY <1>1
    <3>3. text = v \o <<Colon>> \o (d \o <<Colon>> \o c)
      BY <3>1, <3>2
    <3>4. Colon \in T \cup {Colon}
      OBVIOUS
    <3>5. d # <<Star>> /\ c # <<Star>>
      BY <3>3, <3>4, StarsOut
    <3>6. QED
      BY <3>2, <3>5
  <2> HIDE DEF r2
  <2>3. ParseClass(r2, p.device, p.class) = ParseField(r2, "class", p.class)
    BY <2>2 DEF ParseClass, ParseField, Open
  <2>4. QED
    BY <2>1, <2>3
<1> HIDE DEF r0
<1>5. /\ r1 \in Result
      /\ r1.error <=> r0.error \/ p.vendor \notin Parts("vendor")
      /\ \A m \in Field : m # "vendor" => r1.filter[m] = r0.filter[m]
      /\ ~r1.error => r1.filter["vendor"] = Chosen(r0.filter, "vendor", p.vendor)
  BY <1>1, <1>2, <1>3, FieldParsed
<1> HIDE DEF r1
<1>6. /\ r2 \in Result
      /\ r2.error <=> r1.error \/ p.device \notin Parts("device")
      /\ \A m \in Field : m # "device" => r2.filter[m] = r1.filter[m]
      /\ ~r2.error => r2.filter["device"] = Chosen(r1.filter, "device", p.device)
  BY <1>1, <1>2, <1>5, FieldParsed
<1> HIDE DEF r2
<1>7. /\ r3 \in Result
      /\ r3.error <=> r2.error \/ p.class \notin Parts("class")
      /\ \A m \in Field : m # "class" => r3.filter[m] = r2.filter[m]
      /\ ~r3.error => r3.filter["class"] = Chosen(r2.filter, "class", p.class)
  BY <1>1, <1>2, <1>6, FieldParsed
<1> HIDE DEF r3
<1>8. /\ ~r3.error <=> /\ p.vendor \in Parts("vendor") /\ p.device \in Parts("device")
                       /\ p.class \in Parts("class")
      /\ ~r3.error => ~r2.error /\ ~r1.error
  BY <1>3, <1>5, <1>6, <1>7
<1>9. \A m \in AddressField : r3.filter[m] = f[m]
  BY <1>2, <1>3, <1>5, <1>6, <1>7 DEF AddressField
<1>10. r1.filter["device"] = f["device"] /\ r2.filter["class"] = f["class"]
  BY <1>2, <1>3, <1>5, <1>6
<1>11. /\ Chosen(r1.filter, "device", p.device) = Chosen(f, "device", p.device)
       /\ Chosen(r2.filter, "class", p.class) = Chosen(f, "class", p.class)
  BY <1>10, ChosenSame
<1>12. ASSUME ~r3.error
       PROVE  /\ r3.filter["vendor"] = Chosen(f, "vendor", p.vendor)
              /\ r3.filter["device"] = Chosen(f, "device", p.device)
              /\ r3.filter["class"] = Chosen(f, "class", p.class)
  <2>1. r3.filter["vendor"] = r1.filter["vendor"] /\ r3.filter["device"] = r2.filter["device"]
    BY <1>2, <1>6, <1>7
  <2>2. QED
    BY <1>3, <1>5, <1>6, <1>7, <1>8, <1>11, <1>12, <2>1
<1>13. IdGoes(f, p, q)
  BY <1>4, <1>7, <1>8, <1>9, <1>12 DEF IdGoes
<1>16. QED
  BY <1>13, <1>14, <1>15

\* What is spelled by three parts has these parts.
LEMMA IdReading ==
  ASSUME NEW v \in Parts("vendor"), NEW d \in Parts("device"), NEW c \in Parts("class"),
         NEW text, text # <<>>, text \in IdSpellings(v, d, c)
  PROVE  /\ FirstSpot(text, Colon) # 0
         /\ IdParts(text) = [vendor |-> v, device |-> d, class |-> c]
<1>1. Colon \in Token
  BY DEF Token
<1>2. v \in Seq(Token) /\ Free(v, Colon)
  BY PartsFree
<1>3. d \in Seq(Token) /\ Free(d, Colon)
  BY PartsFree
<1>4. c \in Seq(Token)
  BY PartsFree
<1>5. QED
  BY <1>1, <1>2, <1>3, <1>4, IdReadOnce

\* Nothing spells an empty string but empty parts.
LEMMA NothingSpelled ==
  ASSUME NEW T, Colon \in T, NEW v \in Seq(T), NEW d \in Seq(T), NEW c \in Seq(T),
         <<>> \in IdSpellings(v, d, c)
  PROVE  v = <<>> /\ d = <<>> /\ c = <<>>
<1>1. PICK x : x = v \o <<Colon>> \o d
  OBVIOUS
<1>2. x \in Seq(T) /\ Len(x) = Len(v) + 1 + Len(d)
  BY <1>1, JoinAt
<1>3. PICK y : y = x \o <<Colon>> \o c
  OBVIOUS
<1>4. y \in Seq(T) /\ Len(y) = Len(x) + 1 + Len(c)
  <2>1. PICK z \in Seq(T) : z = x
    BY <1>2
  <2>2. y = z \o <<Colon>> \o c
    BY <1>3, <2>1
  <2>3. y \in Seq(T) /\ Len(y) = Len(z) + 1 + Len(c)
    BY <2>2, JoinAt
  <2>4. QED
    BY <2>1, <2>3
<1>5. Len(v) \in Nat /\ Len(d) \in Nat /\ Len(c) \in Nat
  OBVIOUS
<1>6. x # <<>> /\ y # <<>>
  <2>1. Len(x) # 0 /\ Len(y) # 0
    BY <1>2, <1>4, <1>5
  <2>2. QED
    BY <2>1
<1>7. y = v \o <<Colon>> \o d \o <<Colon>> \o c
  BY <1>1, <1>3
<1>8. QED
  BY <1>1, <1>6, <1>7 DEF IdSpellings

\* An id string is read as its syntax says, from a filter to a result.
IdTold(f, text, q) ==
  LET readings == {r \in Parts("vendor") \X Parts("device") \X Parts("class") :
                     text \in IdSpellings(r[1], r[2], r[3])}
  IN  /\ q.error <=> readings = {}
      /\ \A p \in readings :
           q.filter = [f EXCEPT !["vendor"] = Chosen(f, "vendor", p[1]),
                                !["device"] = Chosen(f, "device", p[2]),
                                !["class"]  = Chosen(f, "class", p[3])]

\* pci_filter_parse_id does, where no star misleads it.
LEMMA IdFollows ==
  ASSUME NEW T, NEW f \in [Field -> Int], NEW text \in Seq(T), ~StarBesideClass(text)
  PROVE  IdTold(f, text, ParseId(f, text))
<1> DEFINE triples == Parts("vendor") \X Parts("device") \X Parts("class")
           readings == {r \in triples : text \in IdSpellings(r[1], r[2], r[3])}
<1>7. PICK q : q = ParseId(f, text)
  OBVIOUS
<1> SUFFICES /\ q.error <=> readings = {}
             /\ \A r \in readings :
                  q.filter = [f EXCEPT !["vendor"] = Chosen(f, "vendor", r[1]),
                                       !["device"] = Chosen(f, "device", r[2]),
                                       !["class"]  = Chosen(f, "class", r[3])]
  BY <1>7 DEF IdTold
<1>1. PICK p : p = IdParts(text)
  OBVIOUS
<1>2. ASSUME NEW r \in readings
      PROVE  /\ r[1] \in Parts("vendor") /\ r[2] \in Parts("device") /\ r[3] \in Parts("class")
             /\ text \in IdSpellings(r[1], r[2], r[3])
  OBVIOUS
<1>3. CASE text = <<>>
  <2>1. q = Ok(f)
    BY <1>1, <1>3, <1>7, IdParseBy
  <2>2. q.error = FALSE /\ q.filter = f
    BY <2>1 DEF Ok
  <2>3. PICK r : r = << <<>>, <<>>, <<>> >>
    OBVIOUS
  <2>4. r \in readings
    <3>1. \A k \in Field : <<>> \in Parts(k)
      BY DEF Parts
    <3>2. {"vendor", "device", "class"} \subseteq Field
      BY DEF Field, OldField, IdentField
    <3>3. r \in triples
      BY <2>3, <3>1, <3>2
    <3>4. r[1] = <<>> /\ r[2] = <<>> /\ r[3] = <<>>
      BY <2>3
    <3>5. text \in IdSpellings(r[1], r[2], r[3])
      BY <1>3, <3>4 DEF IdSpellings
    <3>6. QED
      BY <3>3, <3>5
  <2>5. ASSUME NEW u \in readings
        PROVE  f = [f EXCEPT !["vendor"] = Chosen(f, "vendor", u[1]),
                             !["device"] = Chosen(f, "device", u[2]),
                             !["class"]  = Chosen(f, "class", u[3])]
    <3>1. PICK v, d, c \in Seq(Token) : v = u[1] /\ d = u[2] /\ c = u[3]
      BY <1>2, <2>5, PartsFree
    <3>2. <<>> \in IdSpellings(v, d, c)
      BY <1>2, <1>3, <2>5, <3>1
    <3>3. Colon \in Token
      BY DEF Token
    <3>4. v = <<>> /\ d = <<>> /\ c = <<>>
      BY <3>2, <3>3, NothingSpelled
    <3>5. /\ Chosen(f, "vendor", u[1]) = f["vendor"] /\ Chosen(f, "device", u[2]) = f["device"]
          /\ Chosen(f, "class", u[3]) = f["class"]
      BY <3>1, <3>4 DEF Chosen, Open
    <3>6. f = [f EXCEPT !["vendor"] = f["vendor"], !["device"] = f["device"],
                        !["class"] = f["class"]]
      BY IdentsMake
    <3>7. QED
      BY <3>5, <3>6
  <2>6. QED
    BY <2>2, <2>4, <2>5
<1>4. CASE text # <<>> /\ FirstSpot(text, Colon) = 0
  <2>1. q = [Ok(f) EXCEPT !.error = TRUE]
    BY <1>1, <1>4, <1>7, IdParseBy
  <2>2. q.error = TRUE
    BY <2>1 DEF Ok
  <2>3. readings = {}
    <3>1. SUFFICES ASSUME NEW r \in readings PROVE FALSE
      OBVIOUS
    <3>2. FirstSpot(text, Colon) # 0
      BY <1>2, <1>4, IdReading
    <3>3. QED
      BY <1>4, <3>2
  <2>4. QED
    BY <2>2, <2>3
<1>5. CASE text # <<>> /\ FirstSpot(text, Colon) # 0
  <2>1. /\ q \in Result
        /\ ~q.error <=> /\ p.vendor \in Parts("vendor") /\ p.device \in Parts("device")
                        /\ p.class \in Parts("class")
        /\ \A m \in AddressField : q.filter[m] = f[m]
        /\ ~q.error => /\ q.filter["vendor"] = Chosen(f, "vendor", p.vendor)
                       /\ q.filter["device"] = Chosen(f, "device", p.device)
                       /\ q.filter["class"] = Chosen(f, "class", p.class)
    <3>1. IdGoes(f, p, q)
      BY <1>1, <1>5, <1>7, IdParsed
    <3>2. QED
      BY <3>1 DEF IdGoes
  <2>2. text \in IdSpellings(p.vendor, p.device, p.class)
    BY <1>1, <1>5, IdSpelled
  <2>3. ASSUME NEW r \in readings
        PROVE  p.vendor = r[1] /\ p.device = r[2] /\ p.class = r[3]
    <3>1. p = [vendor |-> r[1], device |-> r[2], class |-> r[3]]
      BY <1>1, <1>2, <1>5, <2>3, IdReading
    <3>2. QED
      BY <3>1
  <2>4. ASSUME ~q.error PROVE readings # {}
    <3>1. PICK r : r = <<p.vendor, p.device, p.class>>
      OBVIOUS
    <3>2. r \in triples
      BY <2>1, <2>4, <3>1
    <3>3. r[1] = p.vendor /\ r[2] = p.device /\ r[3] = p.class
      BY <3>1
    <3>4. text \in IdSpellings(r[1], r[2], r[3])
      BY <2>2, <3>3
    <3>5. r \in readings
      BY <3>2, <3>4
    <3>6. QED
      BY <3>5
  <2>5. ASSUME readings # {} PROVE ~q.error
    <3>1. PICK r \in readings : TRUE
      BY <2>5
    <3>2. p.vendor = r[1] /\ p.device = r[2] /\ p.class = r[3]
      BY <2>3, <3>1
    <3>3. QED
      BY <1>2, <2>1, <3>1, <3>2
  <2>6. ASSUME NEW r \in readings
        PROVE  q.filter = [f EXCEPT !["vendor"] = Chosen(f, "vendor", r[1]),
                                    !["device"] = Chosen(f, "device", r[2]),
                                    !["class"]  = Chosen(f, "class", r[3])]
    <3>1. ~q.error
      BY <2>5, <2>6
    <3>2. p.vendor = r[1] /\ p.device = r[2] /\ p.class = r[3]
      BY <2>3, <2>6
    <3>3. PICK g \in [Field -> Int] : g = q.filter
      BY <2>1 DEF Result
    <3>4. /\ g["vendor"] = Chosen(f, "vendor", r[1]) /\ g["device"] = Chosen(f, "device", r[2])
          /\ g["class"] = Chosen(f, "class", r[3])
      BY <2>1, <3>1, <3>2, <3>3
    <3>5. \A m \in AddressField : g[m] = f[m]
      BY <2>1, <3>3
    <3>6. g = [f EXCEPT !["vendor"] = g["vendor"], !["device"] = g["device"],
                        !["class"] = g["class"]]
      BY <3>5, IdentsMake
    <3>7. QED
      BY <3>3, <3>4, <3>6
  <2>7. QED
    BY <2>4, <2>5, <2>6
<1>6. QED
  BY <1>3, <1>4, <1>5

(***************************************************************************)
(* The filters of devices, and all of them.                                *)
(***************************************************************************)

\* What is printed for a field is read back.
LEMMA LiteralRead ==
  ASSUME NEW d \in Device, NEW k \in Field, \E t \in DOMAIN Number : Number[t] = d[k],
         NEW a, a = Literal(d[k]), NEW f
  PROVE  /\ a \in DOMAIN Number /\ a # Star /\ <<a>> \in Parts(k)
         /\ Chosen(f, k, <<a>>) = d[k]
<1>1. a \in DOMAIN Number /\ Number[a] = d[k]
  BY DEF Literal
<1>2. 0 <= d[k] /\ d[k] <= Largest[k]
  BY DEF Device
<1>3. <<a>> \in Parts(k)
  BY <1>1, <1>2 DEF Parts
<1>4. a # Star
  BY <1>1, NumberAssumption
<1>5. ~Open(<<a>>)
  <2>1. <<a>> # <<Star>> /\ <<a>> # <<>>
    BY <1>4
  <2>2. QED
    BY <2>1 DEF Open
<1>6. Chosen(f, k, <<a>>) = Number[a]
  BY <1>5 DEF Chosen
<1>7. QED
  BY <1>1, <1>3, <1>4, <1>6

\* The address of a device is spelled by its parts.
LEMMA SlotTextSpelled ==
  ASSUME NEW T, Colon \in T, Dot \in T,
         NEW a \in T, NEW b \in T, NEW s \in T, NEW f \in T
  PROVE  <<a, Colon, b, Colon, s, Dot, f>> \in SlotSpellings(<<a>>, <<b>>, <<s>>, <<f>>)
<1>1. PICK x : x = <<a, Colon, b>>
  OBVIOUS
<1>2. x \in Seq(T) /\ x = <<a>> \o <<Colon>> \o <<b>>
  <2>1. x \in Seq(T)
    BY <1>1, ThreeIn
  <2>2. x = <<a>> \o <<Colon>> \o <<b>>
    BY <1>1, ThreeJoined
  <2>3. QED
    BY <2>1, <2>2
<1>3. Len(x) = 3 /\ x[1] = a /\ x[2] = Colon /\ x[3] = b
  BY <1>1
<1>4. PICK h : h = x \o <<Colon>>
  OBVIOUS
<1>5. h \in Seq(T) /\ Len(h) = 3 + 1 /\ h[3 + 1] = Colon /\ \A j \in 1 .. 3 : h[j] = x[j]
  <2>1. PICK n \in Nat : n = 3
    OBVIOUS
  <2>2. h \in Seq(T) /\ Len(h) = n + 1 /\ h[n + 1] = Colon /\ \A j \in 1 .. n : h[j] = x[j]
    BY <1>2, <1>3, <1>4, <2>1, Appended
  <2>3. QED
    BY <2>1, <2>2
<1>6. Len(h) = 4 /\ h[1] = a /\ h[2] = Colon /\ h[3] = b /\ h[4] = Colon
  BY <1>3, <1>5
<1>7. PICK t : t = <<s, Dot, f>>
  OBVIOUS
<1>8. t \in Seq(T) /\ t = <<s>> \o <<Dot>> \o <<f>>
  <2>1. t \in Seq(T)
    BY <1>7, ThreeIn
  <2>2. t = <<s>> \o <<Dot>> \o <<f>>
    BY <1>7, ThreeJoined
  <2>3. QED
    BY <2>1, <2>2
<1>9. Len(t) = 3 /\ t[1] = s /\ t[2] = Dot /\ t[3] = f
  BY <1>7
<1>10. h \o t = <<h[1], h[2], h[3], h[4], t[1], t[2], t[3]>>
  BY <1>5, <1>6, <1>8, <1>9, SevenJoined
<1>11. h \o t = <<a, Colon, b, Colon, s, Dot, f>>
  BY <1>6, <1>9, <1>10
<1>12. IsHead(h, <<a>>, <<b>>) /\ IsTail(t, <<s>>, <<f>>)
  BY <1>2, <1>4, <1>8 DEF IsHead, IsTail
<1>13. h \o t \in SlotSpellings(<<a>>, <<b>>, <<s>>, <<f>>)
  BY <1>12, HeadTail
<1>14. QED
  BY <1>11, <1>13

\* And its ids by theirs.
LEMMA IdTextSpelled ==
  ASSUME NEW T, Colon \in T, NEW v \in T, NEW d \in T, NEW c \in T
  PROVE  <<v, Colon, d, Colon, c>> \in IdSpellings(<<v>>, <<d>>, <<c>>)
<1>1. PICK x : x = <<v, Colon, d>>
  OBVIOUS
<1>2. x \in Seq(T) /\ x = <<v>> \o <<Colon>> \o <<d>>
  BY <1>1, ThreeIn, ThreeJoined
<1>3. Len(x) = 3 /\ x[1] = v /\ x[2] = Colon /\ x[3] = d
  BY <1>1
<1>4. PICK y : y = x \o <<Colon>>
  OBVIOUS
<1>5. y \in Seq(T) /\ Len(y) = 3 + 1 /\ y[3 + 1] = Colon /\ \A j \in 1 .. 3 : y[j] = x[j]
  <2>1. PICK n \in Nat : n = 3
    OBVIOUS
  <2>2. y \in Seq(T) /\ Len(y) = n + 1 /\ y[n + 1] = Colon /\ \A j \in 1 .. n : y[j] = x[j]
    BY <1>2, <1>3, <1>4, <2>1, Appended
  <2>3. QED
    BY <2>1, <2>2
<1>6. Len(y) = 4 /\ y[1] = v /\ y[2] = Colon /\ y[3] = d /\ y[4] = Colon
  BY <1>3, <1>5
<1>7. PICK z : z = y \o <<c>>
  OBVIOUS
<1>8. z \in Seq(T) /\ Len(z) = 4 + 1 /\ z[4 + 1] = c /\ \A j \in 1 .. 4 : z[j] = y[j]
  <2>1. y \in Seq(T)
    BY <1>5
  <2>2. Len(y) = 4
    BY <1>6
  <2>3. PICK w \in Seq(T) : w = y
    BY <2>1
  <2>4. z = w \o <<c>>
    BY <1>7, <2>3
  <2>5. /\ z \in Seq(T) /\ Len(z) = Len(w) + 1 /\ z[Len(w) + 1] = c
        /\ \A j \in 1 .. Len(w) : z[j] = w[j]
    BY <2>4, OneMore
  <2>6. Len(w) = 4
    BY <2>2, <2>3
  <2>7. QED
    BY <2>3, <2>5, <2>6
<1>9. Len(z) = 5 /\ z[1] = v /\ z[2] = Colon /\ z[3] = d /\ z[4] = Colon /\ z[5] = c
  BY <1>6, <1>8
<1>10. z = <<z[1], z[2], z[3], z[4], z[5]>>
  BY <1>8, <1>9, FiveAre
<1>11. <<v, Colon, d, Colon, c>> = <<v>> \o <<Colon>> \o <<d>> \o <<Colon>> \o <<c>>
  BY <1>2, <1>4, <1>7, <1>9, <1>10
<1>12. QED
  BY <1>11 DEF IdSpellings

\* The filter save_to_adna_list stores has the fields of the device.
LEMMA PortRight ==
  ASSUME NEW d \in Device, NEW m \in [Field -> Int],
         \A k \in Field : \E t \in DOMAIN Number : Number[t] = d[k],
         NEW g, g = FilterOf(m, d)
  PROVE  g \in [Field -> Int] /\ \A k \in Field : g[k] = d[k]
<1>1. /\ {"domain", "bus", "slot", "func"} \subseteq Field
      /\ {"vendor", "device", "class"} \subseteq Field
      /\ AddressField = {"domain", "bus", "slot", "func"}
      /\ Field = {"domain", "bus", "slot", "func"} \cup {"vendor", "device", "class"}
  BY DEF Field, OldField, AddressField, IdentField
<1>2. PICK lit : lit = [k \in Field |-> Literal(d[k])]
  OBVIOUS
<1>3. ASSUME NEW k \in Field, NEW f
      PROVE  /\ lit[k] \in DOMAIN Number /\ lit[k] # Star /\ <<lit[k]>> \in Parts(k)
             /\ Chosen(f, k, <<lit[k]>>) = d[k]
  <2>1. PICK a : a = Literal(d[k])
    OBVIOUS
  <2>2. lit[k] = a
    BY <1>2, <2>1
  <2>3. /\ a \in DOMAIN Number /\ a # Star /\ <<a>> \in Parts(k)
        /\ Chosen(f, k, <<a>>) = d[k]
    BY <2>1, LiteralRead
  <2>4. QED
    BY <2>2, <2>3
<1>4. PICK slot : slot = <<lit["domain"], Colon, lit["bus"], Colon, lit["slot"], Dot, lit["func"]>>
  OBVIOUS
<1>5. slot = SlotText(d)
  BY <1>1, <1>2, <1>4 DEF SlotText
<1>6. slot \in Seq(Token)
  BY <1>1, <1>3, <1>4 DEF Token
<1>7. slot \in SlotSpellings(<<lit["domain"]>>, <<lit["bus"]>>, <<lit["slot"]>>, <<lit["func"]>>)
  <2>1. /\ lit["domain"] \in Token /\ lit["bus"] \in Token /\ lit["slot"] \in Token
        /\ lit["func"] \in Token /\ Colon \in Token /\ Dot \in Token
    BY <1>1, <1>3 DEF Token
  <2>2. QED
    BY <1>4, <2>1, SlotTextSpelled
<1>8. SlotParts(slot) = [domain |-> <<lit["domain"]>>, bus |-> <<lit["bus"]>>,
                         slot |-> <<lit["slot"]>>, func |-> <<lit["func"]>>]
  <2>1. /\ <<lit["domain"]>> \in Parts("domain") /\ <<lit["bus"]>> \in Parts("bus")
        /\ <<lit["slot"]>> \in Parts("slot") /\ <<lit["func"]>> \in Parts("func")
    BY <1>1, <1>3
  <2>2. QED
    BY <1>7, <2>1, SlotReading
<1>9. PICK q : q = ParseSlot(m, slot)
  OBVIOUS
<1>10. /\ q.filter \in [Field -> Int]
       /\ \A k \in AddressField : q.filter[k] = d[k]
  <2>1. PICK p : p = SlotParts(slot)
    OBVIOUS
  <2>2. /\ q \in Result
        /\ ~q.error <=> /\ p.domain \in Parts("domain") /\ p.bus \in Parts("bus")
                        /\ p.slot \in Parts("slot") /\ p.func \in Parts("func")
        /\ \A k \in IdentField \cup {"class"} : q.filter[k] = m[k]
        /\ ~q.error => /\ q.filter["domain"] = Chosen(m, "domain", p.domain)
                       /\ q.filter["bus"] = Chosen(m, "bus", p.bus)
                       /\ q.filter["slot"] = Chosen(m, "slot", p.slot)
                       /\ q.filter["func"] = Chosen(m, "func", p.func)
    BY <1>6, <1>9, <2>1, SlotParsed
  <2>3. /\ p.domain = <<lit["domain"]>> /\ p.bus = <<lit["bus"]>>
        /\ p.slot = <<lit["slot"]>> /\ p.func = <<lit["func"]>>
    BY <1>8, <2>1
  <2>4. ~q.error
    BY <1>1, <1>3, <2>2, <2>3
  <2>5. /\ q.filter["domain"] = d["domain"] /\ q.filter["bus"] = d["bus"]
        /\ q.filter["slot"] = d["slot"] /\ q.filter["func"] = d["func"]
    BY <1>1, <1>3, <2>2, <2>3, <2>4
  <2>6. QED
    BY <1>1, <2>2, <2>5 DEF Result
<1>11. PICK f \in [Field -> Int] : f = q.filter
  BY <1>10
<1>12. PICK ids : ids = <<lit["vendor"], Colon, lit["device"], Colon, lit["class"]>>
  OBVIOUS
<1>13. ids = IdText(d)
  BY <1>1, <1>2, <1>12 DEF IdText
<1>14. ids \in Seq(Token) /\ ids # <<>>
  BY <1>1, <1>3, <1>12 DEF Token
<1>15. ids \in IdSpellings(<<lit["vendor"]>>, <<lit["device"]>>, <<lit["class"]>>)
  <2>1. /\ lit["vendor"] \in Token /\ lit["device"] \in Token /\ lit["class"] \in Token
        /\ Colon \in Token
    BY <1>1, <1>3 DEF Token
  <2>2. QED
    BY <1>12, <2>1, IdTextSpelled
<1>16. /\ FirstSpot(ids, Colon) # 0
       /\ IdParts(ids) = [vendor |-> <<lit["vendor"]>>, device |-> <<lit["device"]>>,
                          class |-> <<lit["class"]>>]
  <2>1. /\ <<lit["vendor"]>> \in Parts("vendor") /\ <<lit["device"]>> \in Parts("device")
        /\ <<lit["class"]>> \in Parts("class")
    BY <1>1, <1>3
  <2>2. QED
    BY <1>14, <1>15, <2>1, IdReading
<1>17. ~StarBesideClass(ids)
  <2>1. Colon # Star
    BY DEF Colon, Star
  <2>2. lit["vendor"] # Star /\ lit["device"] # Star /\ lit["class"] # Star
    BY <1>1, <1>3
  <2>3. DOMAIN ids = 1 .. 5
    BY <1>12
  <2>4. \A i \in 1 .. 5 : ids[i] # Star
    BY <1>12, <2>1, <2>2
  <2>5. QED
    BY <2>3, <2>4 DEF StarBesideClass
<1>18. PICK r : r = ParseId(f, ids)
  OBVIOUS
<1>19. /\ r.filter \in [Field -> Int]
       /\ \A k \in Field : r.filter[k] = d[k]
  <2>1. PICK p : p = IdParts(ids)
    OBVIOUS
  <2>2. /\ r \in Result
        /\ ~r.error <=> /\ p.vendor \in Parts("vendor") /\ p.device \in Parts("device")
                        /\ p.class \in Parts("class")
        /\ \A k \in AddressField : r.filter[k] = f[k]
        /\ ~r.error => /\ r.filter["vendor"] = Chosen(f, "vendor", p.vendor)
                       /\ r.filter["device"] = Chosen(f, "device", p.device)
                       /\ r.filter["class"] = Chosen(f, "class", p.class)
    <3>1. IdGoes(f, p, r)
      BY <1>14, <1>16, <1>17, <1>18, <2>1, IdParsed
    <3>2. QED
      BY <3>1 DEF IdGoes
  <2>3. p.vendor = <<lit["vendor"]>> /\ p.device = <<lit["device"]>> /\ p.class = <<lit["class"]>>
    BY <1>16, <2>1
  <2>4. ~r.error
    BY <1>1, <1>3, <2>2, <2>3
  <2>5. r.filter["vendor"] = d["vendor"] /\ r.filter["device"] = d["device"] /\ r.filter["class"] = d["class"]
    BY <1>1, <1>3, <2>2, <2>3, <2>4
  <2>6. \A k \in AddressField : r.filter[k] = d[k]
    BY <1>10, <1>11, <2>2
  <2>7. QED
    BY <1>1, <2>2, <2>5, <2>6 DEF Result
<1>20. g = r.filter
  BY <1>5, <1>9, <1>11, <1>13, <1>18 DEF FilterOf
<1>21. QED
  BY <1>19, <1>20

\* What a filter call returned is right.
LEMMA ReturnedSelects ==
  ASSUME Returned
  PROVE  FiltersSelectAsTold
<1>1. ASSUME call.fn = "slot"
      PROVE  SlotFilterFollowsSyntax
  <2>1. PICK f \in [Field -> Int] : f = call.f
    BY <1>1, FiltersAssumption DEF Returned
  <2>2. PICK text \in Seq(ToSet(call.text)) : text = call.text
    BY <1>1, StringsAssumption DEF Returned
  <2>3. call.result = ParseSlot(f, text)
    BY <1>1, <2>1, <2>2 DEF Returned
  <2>4. SlotTold(f, text, ParseSlot(f, text))
    BY SlotFollows
  <2>5. SlotTold(call.f, call.text, call.result)
    BY <2>1, <2>2, <2>3, <2>4
  <2>6. QED
    BY <2>5, Zenon DEF SlotTold, SlotFilterFollowsSyntax
<1>2. ASSUME call.fn = "id" /\ ~StarBesideClass(call.text)
      PROVE  IdFilterFollowsSyntax
  <2>1. PICK f \in [Field -> Int] : f = call.f
    BY <1>2, FiltersAssumption DEF Returned
  <2>2. PICK text \in Seq(ToSet(call.text)) : text = call.text
    BY <1>2, StringsAssumption DEF Returned
  <2>3. call.result = ParseId(f, text) /\ ~StarBesideClass(text)
    BY <1>2, <2>1, <2>2 DEF Returned
  <2>4. IdTold(f, text, ParseId(f, text))
    BY <2>3, IdFollows
  <2>5. IdTold(call.f, call.text, call.result)
    BY <2>1, <2>2, <2>3, <2>4
  <2>6. QED
    BY <2>5, Zenon DEF IdTold, IdFilterFollowsSyntax
<1>3. ASSUME call.fn = "port"
      PROVE  PortFilterIsExact
  <2>1. PICK d \in Devices, m \in Filters : call.device = d /\ call.filter = FilterOf(m, d)
    BY <1>3 DEF Returned
  <2>2. d \in Device /\ m \in [Field -> Int]
    BY DevicesAssumption, FiltersAssumption
  <2>3. PICK g : g = FilterOf(m, d)
    OBVIOUS
  <2>4. \A k \in Field : \E t \in DOMAIN Number : Number[t] = d[k]
    BY LiteralsAssumption
  <2>5. g \in [Field -> Int] /\ \A k \in Field : g[k] = d[k]
    BY <2>2, <2>3, <2>4, PortRight
  <2>6. \A e \in Devices : Match(g, e) <=> e = d
    BY <2>2, <2>5, DevicesAssumption, PortAlone
  <2>7. QED
    BY <2>1, <2>3, <2>6 DEF PortFilterIsExact
<1>4. ASSUME call.fn \in {"slot", "id"}
      PROVE  OldAbiAgrees
  <2>1. PICK f \in [Field -> Int] : f = call.f
    BY <1>4, FiltersAssumption DEF Returned
  <2>2. PICK r, q : /\ Twin(r, q) /\ q = call.result
                    /\ \/ call.old = [Ok(Export(f)) EXCEPT !.error = TRUE]
                       \/ ~r.error /\ call.old = Ok(Export(r.filter))
    <3>1. CASE call.fn = "slot"
      <4>1. PICK r : r = ParseSlot(Import(Export(f)), call.text)
        OBVIOUS
      <4>2. Twin(r, ParseSlot(f, call.text))
        BY <2>1, <4>1, TwinStart, AlikeSlot, TwinBy
      <4>3. call.result = ParseSlot(f, call.text) /\ call.old = ParseSlotOld(Export(f), call.text)
        BY <2>1, <3>1 DEF Returned
      <4>4. \/ call.old = [Ok(Export(f)) EXCEPT !.error = TRUE]
            \/ ~r.error /\ call.old = Ok(Export(r.filter))
        BY <4>1, <4>3 DEF ParseSlotOld
      <4>5. QED
        BY <4>2, <4>3, <4>4
    <3>2. CASE call.fn = "id"
      <4>1. PICK r : r = ParseId(Import(Export(f)), call.text)
        OBVIOUS
      <4>2. Twin(r, ParseId(f, call.text))
        BY <2>1, <4>1, TwinStart, AlikeId, TwinBy
      <4>3. call.result = ParseId(f, call.text) /\ call.old = ParseIdOld(Export(f), call.text)
        BY <2>1, <3>2 DEF Returned
      <4>4. \/ call.old = [Ok(Export(f)) EXCEPT !.error = TRUE]
            \/ ~r.error /\ call.old = Ok(Export(r.filter))
        BY <4>1, <4>3 DEF ParseIdOld
      <4>5. QED
        BY <4>2, <4>3, <4>4
    <3>3. QED
      BY <1>4, <3>1, <3>2
  <2>3. CASE call.old = [Ok(Export(f)) EXCEPT !.error = TRUE]
    <3>1. call.old.error = TRUE /\ call.old.filter = Export(f)
      BY <2>3 DEF Ok
    <3>2. QED
      BY <2>1, <3>1 DEF OldAbiAgrees
  <2>4. CASE ~r.error /\ call.old = Ok(Export(r.filter))
    <3>1. call.old.error = FALSE /\ call.old.filter = Export(r.filter)
      BY <2>4 DEF Ok
    <3>2. ~q.error
      BY <2>2, <2>4 DEF Twin
    <3>3. \A d \in Devices :
            MatchOld(Export(r.filter), d) <=> Match([q.filter EXCEPT !["class"] = -1], d)
      BY <2>2, TwinSelects
    <3>4. QED
      BY <2>2, <3>1, <3>2, <3>3 DEF OldAbiAgrees
  <2>5. QED
    BY <2>2, <2>3, <2>4
<1>5. SlotFilterFollowsSyntax
  BY <1>1 DEF SlotFilterFollowsSyntax
<1>6. IdFilterFollowsSyntax
  BY <1>2 DEF IdFilterFollowsSyntax
<1>7. PortFilterIsExact
  BY <1>3 DEF PortFilterIsExact
<1>8. OldAbiAgrees
  BY <1>4 DEF OldAbiAgrees
<1>9. QED
  BY <1>5, <1>6, <1>7, <1>8 DEF FiltersSelectAsTold

\* Filter strings of both kinds are read as their documented syntax says, whatever
\* the literals and the devices, by the new functions and the old; and the filter
\* of a device selects it alone.
THEOREM FiltersExact == Spec => []FiltersSelectAsTold
BY AlwaysReturned, ReturnedSelects, PTL

\* What a call on operations returned is the function of its arguments.
OpsReturned ==
  /\ "fn" \in DOMAIN call
  /\ call.fn = "op" => call.text \in OpStrings /\ call.result = ParseOp(call.text)
  /\ call.fn = "exec" =>
       /\ call.op \in Operations /\ call.d \in DOMAIN Targets /\ call.demo \in BOOLEAN
       /\ call.result = ExecOp(call.op, Targets[call.d], Memory[call.d], call.demo)
  /\ call.fn = "setpci" =>
       /\ call.args \in CommandLines /\ call.demo \in BOOLEAN /\ call.raw \in BOOLEAN
       /\ call.result = RunSetpci(call.args, [demo |-> call.demo, raw |-> call.raw], Targets, Memory)

\* It is so in every state.
LEMMA AlwaysOpsReturned == Spec => []OpsReturned
<1>1. Init => OpsReturned
  BY DEF Init, NoCall, OpsReturned
<1>2. OpsReturned /\ [Next]_call => OpsReturned'
  <2>1. SUFFICES ASSUME OpsReturned, [Next]_call
                 PROVE  OpsReturned'
    OBVIOUS
  <2>2. CASE "fn" \in DOMAIN call' /\ call'.fn \notin {"op", "exec", "setpci"}
    BY <2>2 DEF OpsReturned
  <2>3. CASE SlotFilter
    BY <2>2, <2>3 DEF SlotFilter
  <2>4. CASE IdFilter
    BY <2>2, <2>4 DEF IdFilter
  <2>5. CASE PortFilter
    BY <2>2, <2>5 DEF PortFilter
  <2>6. CASE BlockTransfer
    BY <2>2, <2>6 DEF BlockTransfer
  <2>7. CASE BusScan
    BY <2>2, <2>7 DEF BusScan
  <2>8. CASE FillBases
    BY <2>2, <2>8 DEF FillBases
  <2>9. CASE OpParse
    BY <2>9 DEF OpParse, OpsReturned
  <2>10. CASE OpExec
    BY <2>10 DEF OpExec, OpsReturned
  <2>11. CASE SetpciRun
    BY <2>11 DEF SetpciRun, OpsReturned
  <2>12. CASE MapTheBus
    BY <2>2, <2>12 DEF MapTheBus
  <2>13. CASE VpdRun
    BY <2>2, <2>13 DEF VpdRun
  <2>14. CASE ScanTurn \/ MapTurn \/ MapPrint \/ VpdTurn
    <3>1. "fn" \in DOMAIN call
      BY <2>1 DEF OpsReturned
    <3>2. "fn" \in DOMAIN call' /\ call'.fn \in {"scan", "map", "mapped", "vpd"}
      BY <2>14, <3>1, TurnsKeepCall, PrintMaps
    <3>3. QED
      BY <2>2, <3>2
  <2>15. CASE call' = call
    BY <2>1, <2>15 DEF OpsReturned
  <2>16. QED
    BY <2>1, <2>3, <2>4, <2>5, <2>6, <2>7, <2>8, <2>9, <2>10, <2>11, <2>12, <2>13, <2>14, <2>15 DEF Next, Call
<1>3. QED
  BY <1>1, <1>2, PTL DEF Spec

\* Where a capability is found, its address is a number.
LEMMA AddressIsNat ==
  ASSUME NEW d \in DOMAIN Targets, NEW op, op.addr \in Nat, ~OpDies(op, Targets[d])
  PROVE  OpAddress(op, Targets[d]) \in Nat
<1>1. CASE op.type = "none"
  BY <1>1 DEF OpAddress
<1>2. CASE op.type # "none"
  <2>1. PICK caps : caps = Targets[d].caps
    OBVIOUS
  <2>2. PICK i : i = CHOOSE x \in FindCapNr(caps, op) : TRUE
    OBVIOUS
  <2>3. FindCapNr(caps, op) # {}
    BY <1>2, <2>1 DEF OpDies
  <2>4. i \in FindCapNr(caps, op)
    BY <2>2, <2>3
  <2>5. i \in DOMAIN caps
    BY <2>4 DEF FindCapNr
  <2>6. caps \in Seq([type : {"CAP", "ECAP"}, id : Nat, addr : Nat])
    <3>1. PICK R : R = [type : {"CAP", "ECAP"}, id : Nat, addr : Nat]
      OBVIOUS
    <3>2. PICK D : D = [id : [Field -> Nat], caps : Seq(R)]
      OBVIOUS
    <3>3. Targets \in Seq(D)
      BY <3>1, <3>2, TargetsAssumption
    <3>4. Targets[d] \in D
      BY <3>3
    <3>5. QED
      BY <2>1, <3>1, <3>2, <3>4
  <2>7. caps[i].addr \in Nat
    <3>0. PICK R : R = [type : {"CAP", "ECAP"}, id : Nat, addr : Nat]
      OBVIOUS
    <3>3. caps \in Seq(R)
      BY <2>6, <3>0
    <3>1. caps[i] \in R
      BY <2>5, <3>3
    <3>2. QED
      BY <3>0, <3>1
  <2>8. QED
    BY <1>2, <2>1, <2>2, <2>7 DEF OpAddress
<1>3. QED
  BY <1>1, <1>2

\* With one value at most, the access that is made is the one that is checked.
LEMMA OneAccessFits ==
  ASSUME NEW d \in DOMAIN Targets, NEW op, NEW n \in Nat, FitsSpace(op, n), n <= 1,
         ~OpDies(op, Targets[d])
  PROVE  \A j \in 1 .. OpTurns(op) : ~Misplaced(OpAccess(op, Targets[d], j), op.width)
<1>1. OpTurns(op) = 1
  BY FitTurns
<1>2. PICK w : w = op.width
  OBVIOUS
<1>3. w \in {1, 2, 4} /\ op.addr \in Nat
  <2>1. Size \in Nat
    BY DEF Size
  <2>2. QED
    BY <1>2, <2>1 DEF FitsSpace
<1>4. PICK a : a = OpAddress(op, Targets[d])
  OBVIOUS
<1>5. a \in Nat
  BY <1>3, <1>4, AddressIsNat
<1>6. a % w = 0 /\ a + w <= Size
  BY <1>2, <1>4 DEF OpDies, ReachableReg
<1>7. ASSUME NEW j \in 1 .. OpTurns(op)
      PROVE  ~Misplaced(OpAccess(op, Targets[d], j), w)
  <2>1. j = 1
    BY <1>1, <1>7
  <2>2. OpAccess(op, Targets[d], j) = a + w * (1 - 1)
    BY <1>2, <1>4, <2>1 DEF OpAccess
  <2>3. a + w * (1 - 1) = a
    BY <1>3, <1>5
  <2>4. Size \in Nat
    BY DEF Size
  <2>5. ~Misplaced(a, w)
    BY <1>3, <1>5, <1>6, <2>4 DEF Misplaced
  <2>6. QED
    BY <2>2, <2>3, <2>5
<1>8. QED
  BY <1>2, <1>7

\* An accepted operation makes no misplaced access, but where it has several
\* values and goes to a capability.
LEMMA AcceptedFits ==
  ASSUME NEW d \in DOMAIN Targets, NEW op, NEW n \in Nat, FitsSpace(op, n),
         NEW done, done = ExecOp(op, Targets[d], Memory[d], FALSE),
         NEW bad, bad = {a \in done.accesses : Misplaced(a, op.width)}
  PROVE  RunsWell(op, done, bad)
<1>1. OpDies(op, Targets[d]) => DeadResult(done, Memory[d])
  BY ExecIs
<1>2. ~OpDies(op, Targets[d]) => RunResult(done, op, Targets[d], Memory[d], FALSE)
  BY ExecIs
<1>3. CASE op.type = "none"
  <2>1. ~OpDies(op, Targets[d]) /\ \A j \in 1 .. OpTurns(op) : ~Misplaced(OpAccess(op, Targets[d], j), op.width)
    BY <1>3, AbsoluteFits
  <2>2. done.died = FALSE /\ done.accesses = {OpAccess(op, Targets[d], j) : j \in 1 .. OpTurns(op)}
    BY <1>2, <2>1 DEF RunResult
  <2>3. bad = {}
    BY <2>1, <2>2
  <2>4. QED
    BY <1>3, <2>2, <2>3 DEF RunsWell
<1>4. CASE op.type # "none"
  <2>1. Len(op.values) = n
    BY DEF FitsSpace
  <2>2. CASE n > 1
    BY <1>4, <2>1, <2>2 DEF RunsWell
  <2>3. CASE n <= 1
    <3>1. CASE OpDies(op, Targets[d])
      <4>1. done.accesses = {}
        BY <1>1, <3>1 DEF DeadResult
      <4>2. bad = {}
        BY <4>1
      <4>3. QED
        BY <1>4, <4>2 DEF RunsWell
    <3>2. CASE ~OpDies(op, Targets[d])
      <4>1. \A j \in 1 .. OpTurns(op) : ~Misplaced(OpAccess(op, Targets[d], j), op.width)
        BY <2>3, <3>2, OneAccessFits
      <4>2. done.accesses = {OpAccess(op, Targets[d], j) : j \in 1 .. OpTurns(op)}
        BY <1>2, <3>2 DEF RunResult
      <4>3. bad = {}
        BY <4>1, <4>2
      <4>4. QED
        BY <1>4, <4>3 DEF RunsWell
    <3>3. QED
      BY <3>1, <3>2
  <2>4. n > 1 \/ n <= 1
    OBVIOUS
  <2>5. QED
    BY <2>2, <2>3, <2>4
<1>5. QED
  BY <1>3, <1>4

\* Whatever string is accepted, exec_op can do the operation it means: every access
\* by address is aligned and inside the configuration space, and one relative to a
\* capability leaves it at most for a value after the first.
THEOREM AcceptedFit == Spec => []AcceptedOpsFit
<1>1. OpsReturned => AcceptedOpsFit
  <2>1. SUFFICES ASSUME OpsReturned, call.fn = "op", ~call.result.error
                 PROVE  AcceptedOpsFit
    BY DEF AcceptedOpsFit
  <2>2. call.text \in OpStrings /\ call.result = ParseOp(call.text)
    BY <2>1 DEF OpsReturned
  <2>3. PICK text : text = call.text
    OBVIOUS
  <2>4. PICK r : r = ParseOp(text)
    OBVIOUS
  <2>5. PICK T : T = ToSet(text) \cup OpSeps
    OBVIOUS
  <2>6. text \in Seq(T)
    <3>1. text \in Seq(ToSet(text))
      BY <2>2, <2>3, StringsAssumption
    <3>2. PICK U : U = ToSet(text)
      OBVIOUS
    <3>3. QED
      BY <2>5, <3>1, <3>2
  <2>7. r # RefusedOp
    BY <2>1, <2>2, <2>3, <2>4 DEF RefusedOp
  <2>8. PICK n \in Nat : FitsSpace(r.op, n)
    BY <2>4, <2>5, <2>6, <2>7, ParsedFits
  <2>9. PICK op : op = r.op
    OBVIOUS
  <2>10. ASSUME NEW d \in DOMAIN Targets
         PROVE  LET done == ExecOp(op, Targets[d], Memory[d], FALSE)
                    bad  == {a \in done.accesses : a % op.width # 0 \/ a + op.width > Size}
                IN  IF op.type = "none" THEN ~done.died /\ bad = {} ELSE bad # {} => Len(op.values) > 1
    <3>1. PICK done : done = ExecOp(op, Targets[d], Memory[d], FALSE)
      OBVIOUS
    <3>2. PICK bad : bad = {a \in done.accesses : Misplaced(a, op.width)}
      OBVIOUS
    <3>3. RunsWell(op, done, bad)
      BY <2>8, <2>9, <3>1, <3>2, AcceptedFits
    <3>4. QED
      BY <3>1, <3>2, <3>3 DEF Misplaced, RunsWell
  <2>11. call.result.op = op
    BY <2>2, <2>3, <2>4, <2>9
  <2>12. QED
    BY <2>1, <2>10, <2>11 DEF AcceptedOpsFit
<1>2. QED
  BY <1>1, AlwaysOpsReturned, PTL

\* Of an operation that is given: its width and its values are sound.
LEMMA OperationSound ==
  ASSUME NEW op \in Operations
  PROVE  /\ op.width \in {1, 2, 4} /\ op.addr \in Nat
         /\ Len(op.values) \in Nat /\ DOMAIN op.values = 1 .. Len(op.values)
         /\ ValuesMasked(op, Len(op.values))
<1>1. PICK V : V = {v \in [value : SUBSET AllBits, mask : SUBSET AllBits] : v.value \subseteq v.mask}
  OBVIOUS
<1>2. PICK O : O = [type : {"none", "CAP", "ECAP"}, id : Nat, number : Nat, addr : Nat,
                    width : {1, 2, 4}, values : Seq(V)]
  OBVIOUS
<1>3. op \in O
  BY <1>1, <1>2, OperationsAssumption
<1>4. op.width \in {1, 2, 4} /\ op.addr \in Nat /\ op.values \in Seq(V)
  BY <1>2, <1>3
<1>5. PICK values \in Seq(V) : values = op.values
  BY <1>4
<1>6. Len(values) \in Nat /\ DOMAIN values = 1 .. Len(values) /\ \A j \in 1 .. Len(values) : values[j] \in V
  OBVIOUS
<1>7. \A v \in V : v.value \subseteq v.mask
  BY <1>1
<1>8. ValuesMasked(op, Len(op.values))
  BY <1>5, <1>6, <1>7 DEF ValuesMasked
<1>9. QED
  BY <1>4, <1>5, <1>6, <1>8

\* The accesses that write at a the bit of a register.
Over(op, reach, r, b, rank) ==
  {a \in reach : /\ op.values # <<>> /\ r \in a .. a + op.width - 1
                 /\ 8 * (r - a) + b \in op.values[rank[a]].mask}

\* What an operation leaves of one bit, by the accesses.
BitTold(left, op, reach, r, b, rank, before) ==
  b \in left[r] <=>
    IF Over(op, reach, r, b, rank) = {} THEN b \in before[r]
    ELSE \A a \in Over(op, reach, r, b, rank) : 8 * (r - a) + b \in op.values[rank[a]].value

\* How many accesses there are up to each.
IsRank(rank, reach) == rank = [a \in reach |-> Cardinality({c \in reach : c <= a})]

\* The accesses stand for the values.
LEMMA AccessesTold ==
  ASSUME NEW op, op.width \in {1, 2, 4}, NEW dev, OpAddress(op, dev) \in Nat,
         NEW n \in Nat, n = Len(op.values), DOMAIN op.values = 1 .. n,
         NEW reach, IsReach(reach, op, dev, OpTurns(op)), NEW rank, IsRank(rank, reach),
         NEW left, NEW before, NEW r, NEW b, BitLeft(left, n, op, dev, before, r, b)
  PROVE  BitTold(left, op, reach, r, b, rank, before)
<1> DEFINE over == Over(op, reach, r, b, rank)
<1>1. CASE op.values = <<>>
  <2>1. n = 0
    BY <1>1
  <2>2. over = {}
    BY <1>1 DEF Over
  <2>3. ~\E j \in 1 .. 0 : TRUE
    OBVIOUS
  <2>4. b \in left[r] <=> b \in before[r]
    BY <2>1, <2>3 DEF BitLeft
  <2>5. QED
    BY <2>2, <2>4 DEF BitTold
<1>2. CASE op.values # <<>>
  <2>1. OpTurns(op) = n
    BY <1>2 DEF OpTurns
  <2>2. ASSUME NEW j \in 1 .. n PROVE rank[OpAccess(op, dev, j)] = j
    <3>1. IsReach(reach, op, dev, n)
      BY <2>1
    <3>2. RankIs(reach, OpAccess(op, dev, j), j)
      BY <3>1, AccessRank
    <3>3. OpAccess(op, dev, j) \in reach
      BY <3>1 DEF IsReach
    <3>4. QED
      BY <3>2, <3>3 DEF IsRank, RankIs
  <2>3. ASSUME NEW j \in 1 .. n
        PROVE  /\ Hits(op, dev, r, b, j) <=> OpAccess(op, dev, j) \in over
               /\ Puts(op, dev, r, b, j) <=>
                    8 * (r - OpAccess(op, dev, j)) + b \in op.values[rank[OpAccess(op, dev, j)]].value
    <3>1. PICK a : a = OpAccess(op, dev, j)
      OBVIOUS
    <3>2. rank[a] = j
      BY <2>2, <3>1
    <3>3. a \in reach
      BY <2>1, <3>1 DEF IsReach
    <3>4. Hits(op, dev, r, b, j) <=> a \in over
      BY <1>2, <3>1, <3>2, <3>3 DEF Hits, Over, BitNr
    <3>5. Puts(op, dev, r, b, j) <=> 8 * (r - a) + b \in op.values[rank[a]].value
      BY <3>1, <3>2 DEF Puts, BitNr
    <3>6. QED
      BY <3>1, <3>4, <3>5
  <2>4. ASSUME NEW a \in over PROVE \E j \in 1 .. n : a = OpAccess(op, dev, j)
    <3>1. a \in reach
      BY DEF Over
    <3>2. QED
      BY <2>1, <3>1 DEF IsReach
  <2> HIDE DEF over
  <2>5. over = {} <=> ~\E j \in 1 .. n : Hits(op, dev, r, b, j)
    BY <2>3, <2>4
  <2> DEFINE Set(a) == 8 * (r - a) + b \in op.values[rank[a]].value
  <2>6. ASSUME NEW j \in 1 .. n PROVE Puts(op, dev, r, b, j) <=> Set(OpAccess(op, dev, j))
    BY <2>3
  <2> HIDE DEF Set
  <2>7. (\A a \in over : Set(a)) <=> \A j \in 1 .. n : Hits(op, dev, r, b, j) => Puts(op, dev, r, b, j)
    <3>1. ASSUME \A a \in over : Set(a), NEW j \in 1 .. n, Hits(op, dev, r, b, j) PROVE Puts(op, dev, r, b, j)
      BY <2>3, <2>6, <3>1
    <3>2. ASSUME \A j \in 1 .. n : Hits(op, dev, r, b, j) => Puts(op, dev, r, b, j), NEW a \in over PROVE Set(a)
      <4>1. PICK j \in 1 .. n : a = OpAccess(op, dev, j)
        BY <2>4
      <4>2. Hits(op, dev, r, b, j)
        BY <2>3, <4>1
      <4>3. Puts(op, dev, r, b, j)
        BY <3>2, <4>2
      <4>4. QED
        BY <2>6, <4>1, <4>3
    <3>3. QED
      BY <3>1, <3>2
  <2>8. b \in left[r] <=> IF over = {} THEN b \in before[r] ELSE \A a \in over : Set(a)
    BY <2>5, <2>7 DEF BitLeft
  <2>9. QED
    BY <2>8 DEF over, Set, BitTold
<1>3. QED
  BY <1>1, <1>2

\* What MaskedBitsOnly says of one bit.
TellsBit(op, before, reach, left, r, b) ==
  LET Put(a) == op.values[Cardinality({c \in reach : c <= a})]
      over == {a \in reach : op.values # <<>> /\ r \in a .. a + op.width - 1
                               /\ 8 * (r - a) + b \in Put(a).mask}
  IN  b \in left[r] <=>
        IF over = {} THEN b \in before[r]
        ELSE \A a \in over : 8 * (r - a) + b \in Put(a).value

\* With no access nothing changes.
LEMMA NothingTold ==
  ASSUME NEW op, NEW r, NEW b, NEW rank, NEW before
  PROVE  BitTold(before, op, {}, r, b, rank, before)
<1>1. Over(op, {}, r, b, rank) = {}
  BY DEF Over
<1>2. QED
  BY <1>1, Zenon DEF BitTold

\* Whatever an operation writes, by however many values and through whatever masks:
\* the bits under its masks become its values', and every other bit of the device
\* stays; read, listed or refused, it changes nothing.
THEOREM MasksHold == Spec => []MaskedBitsOnly
<1>1. OpsReturned => MaskedBitsOnly
  <2>1. SUFFICES ASSUME OpsReturned, call.fn = "exec"
                 PROVE  MaskedBitsOnly
    BY DEF MaskedBitsOnly
  <2>2. /\ call.op \in Operations /\ call.d \in DOMAIN Targets /\ call.demo \in BOOLEAN
        /\ call.result = ExecOp(call.op, Targets[call.d], Memory[call.d], call.demo)
    BY <2>1 DEF OpsReturned
  <2>3. PICK op \in Operations : op = call.op
    BY <2>2
  <2>4. PICK d \in DOMAIN Targets : d = call.d
    BY <2>2
  <2>5. PICK demo : demo = call.demo
    OBVIOUS
  <2>6. PICK result : result = ExecOp(op, Targets[d], Memory[d], demo)
    OBVIOUS
  <2>7. call.result = result
    BY <2>2, <2>3, <2>4, <2>5, <2>6
  <2>8. PICK before : before = Memory[d]
    OBVIOUS
  <2>9. PICK D : D = DOMAIN before
    OBVIOUS
  <2>10. D \subseteq Nat /\ before \in Registers(D)
    BY <2>8, <2>9, MemoryAssumption DEF Registers
  <2>11. PICK reach : reach = IF demo THEN {} ELSE result.accesses
    OBVIOUS
  <2>12. PICK rank : IsRank(rank, reach)
    BY DEF IsRank
  <2>13. OpDies(op, Targets[d]) => DeadResult(result, before)
    BY <2>6, <2>8, ExecIs
  <2>14. ~OpDies(op, Targets[d]) => RunResult(result, op, Targets[d], before, demo)
    BY <2>6, <2>8, ExecIs
  <2>15. ASSUME NEW r \in D, NEW b \in 0 .. 7
         PROVE  BitTold(result.mem, op, reach, r, b, rank, before)
    <3>1. CASE OpDies(op, Targets[d]) \/ demo
      <4>1. reach = {}
        BY <2>11, <2>13, <3>1 DEF DeadResult
      <4>2. result.mem = before
        BY <2>13, <2>14, <3>1 DEF DeadResult, RunResult
      <4>3. QED
        BY <4>1, <4>2, NothingTold
    <3>2. CASE ~OpDies(op, Targets[d]) /\ ~demo
      <4>1. /\ op.width \in {1, 2, 4} /\ op.addr \in Nat
            /\ Len(op.values) \in Nat /\ DOMAIN op.values = 1 .. Len(op.values)
            /\ ValuesMasked(op, Len(op.values))
        BY OperationSound
      <4>2. PICK n \in Nat : n = Len(op.values)
        BY <4>1
      <4>3. PICK dev : dev = Targets[d]
        OBVIOUS
      <4>4. OpAddress(op, dev) \in Nat
        BY <3>2, <4>1, <4>3, AddressIsNat
      <4>5. r \in Nat
        BY <2>10
      <4>6. SoundBit(op, dev, n, D, r, b)
        BY <4>1, <4>2, <4>4, <4>5 DEF SoundBit
      <4>7. DOMAIN op.values = 1 .. n
        BY <4>1, <4>2
      <4>8. BitLeft(OpLeaves(op, dev, before), n, op, dev, before, r, b)
        BY <2>10, <4>6, <4>7, BitsLeft
      <4>9. result.mem = OpLeaves(op, dev, before)
        BY <2>14, <3>2, <4>3 DEF RunResult
      <4>10. IsReach(reach, op, dev, OpTurns(op))
        BY <2>11, <2>14, <3>2, <4>3 DEF RunResult, IsReach
      <4>11. PICK left : left = result.mem
        OBVIOUS
      <4>12. BitLeft(left, n, op, dev, before, r, b)
        BY <4>8, <4>9, <4>11
      <4>13. BitTold(left, op, reach, r, b, rank, before)
        BY <2>12, <4>1, <4>2, <4>4, <4>7, <4>10, <4>12, AccessesTold
      <4>14. QED
        BY <4>11, <4>13
    <3>3. QED
      BY <3>1, <3>2
  <2>16. ASSUME NEW r \in DOMAIN before, NEW b \in 0 .. 7
         PROVE  TellsBit(op, before, reach, result.mem, r, b)
    <3> DEFINE Put(a) == op.values[Cardinality({c \in reach : c <= a})]
               over == {a \in reach : op.values # <<>> /\ r \in a .. a + op.width - 1
                                        /\ 8 * (r - a) + b \in Put(a).mask}
    <3>1. \A a \in reach : rank[a] = Cardinality({c \in reach : c <= a})
      BY <2>12 DEF IsRank
    <3>2. \A a \in reach : op.values[rank[a]] = Put(a)
      BY <3>1
    <3> HIDE DEF Put
    <3>3. over = Over(op, reach, r, b, rank)
      BY <3>2 DEF Over
    <3>4. BitTold(result.mem, op, reach, r, b, rank, before)
      BY <2>9, <2>15
    <3>5. \A a \in over : a \in reach
      OBVIOUS
    <3> HIDE DEF over
    <3>6. b \in result.mem[r] <=>
            IF over = {} THEN b \in before[r]
            ELSE \A a \in over : 8 * (r - a) + b \in Put(a).value
      BY <3>2, <3>3, <3>4, <3>5 DEF BitTold
    <3>7. QED
      BY <3>6 DEF over, Put, TellsBit
  <2>17. ASSUME NEW r \in DOMAIN Memory[call.d], NEW b \in 0 .. 7
         PROVE  TellsBit(call.op, Memory[call.d], IF call.demo THEN {} ELSE call.result.accesses,
                         call.result.mem, r, b)
    <3>1. /\ before = Memory[call.d] /\ reach = IF call.demo THEN {} ELSE call.result.accesses
          /\ result = call.result /\ op = call.op
      BY <2>3, <2>4, <2>5, <2>7, <2>8, <2>11
    <3>2. r \in DOMAIN before
      BY <3>1
    <3>3. TellsBit(op, before, reach, result.mem, r, b)
      BY <2>16, <3>2
    <3>4. QED
      BY <3>1, <3>3
  <2>18. QED
    BY <2>17, Zenon DEF MaskedBitsOnly, TellsBit
<1>2. QED
  BY <1>1, AlwaysOpsReturned, PTL

(***************************************************************************)
(* setpci's command line: groups of filters and operations.                *)
(***************************************************************************)

\* A filter argument sets the fields it names and no other.
FilterRead(r, f, arg) ==
  /\ r \in Result
  /\ \A k \in Field : IF k \in DOMAIN Named(arg) THEN r.filter[k] = Named(arg)[k] /\ r.filter[k] >= 0
                      ELSE r.filter[k] = f[k]

\* What an argument does to a filter depends on the argument only.
LEMMA ArgRead ==
  ASSUME NEW f \in [Field -> Int], NEW arg
  PROVE  FilterRead(ParseArg(f, arg), f, arg)
<1>1. PICK any \in [Field -> Int] : any = AnyDevice /\ \A k \in Field : any[k] = -1
  <2>1. AnyDevice \in [Field -> Int] /\ \A k \in Field : AnyDevice[k] = -1
    BY DEF AnyDevice
  <2>2. QED
    BY <2>1
<1>2. PICK r : r = ParseArg(f, arg)
  OBVIOUS
<1>3. PICK q : q = ParseArg(any, arg)
  OBVIOUS
<1>4. Alike(r, q, f, any)
  <2>1. CASE arg.kind = "s"
    <3>1. r = ParseSlot(f, arg.text) /\ q = ParseSlot(any, arg.text)
      BY <1>2, <1>3, <2>1 DEF ParseArg
    <3>2. Alike(ParseSlot(f, arg.text), ParseSlot(any, arg.text), f, any)
      BY AlikeSlot
    <3>3. QED
      BY <3>1, <3>2
  <2>2. CASE arg.kind # "s"
    <3>1. r = ParseId(f, arg.text) /\ q = ParseId(any, arg.text)
      BY <1>2, <1>3, <2>2 DEF ParseArg
    <3>2. Alike(ParseId(f, arg.text), ParseId(any, arg.text), f, any)
      BY AlikeId
    <3>3. QED
      BY <3>1, <3>2
  <2>3. QED
    BY <2>1, <2>2
<1>5. Named(arg) = [k \in {l \in Field : q.filter[l] >= 0} |-> q.filter[k]]
  BY <1>1, <1>3 DEF Named, ParseArg
<1>6. r \in Result
  BY <1>4 DEF Alike
<1>7. ASSUME NEW k \in Field
      PROVE  IF k \in DOMAIN Named(arg) THEN r.filter[k] = Named(arg)[k] /\ r.filter[k] >= 0
             ELSE r.filter[k] = f[k]
  <2>1. SetInBoth(r, q, f, any, k)
    BY <1>4 DEF Alike
  <2>2. any[k] = -1
    BY <1>1
  <2>3. CASE q.filter[k] >= 0
    <3>1. k \in DOMAIN Named(arg) /\ Named(arg)[k] = q.filter[k]
      BY <1>5, <2>3
    <3>2. r.filter[k] = q.filter[k]
      BY <2>1, <2>2, <2>3 DEF SetInBoth
    <3>3. QED
      BY <2>3, <3>1, <3>2
  <2>4. CASE ~(q.filter[k] >= 0)
    <3>1. k \notin DOMAIN Named(arg)
      BY <1>5, <2>4
    <3>2. r.filter[k] = f[k]
      BY <2>1, <2>4 DEF SetInBoth
    <3>3. QED
      BY <3>1, <3>2
  <2>5. QED
    BY <2>3, <2>4
<1>8. FilterRead(r, f, arg)
  BY <1>6, <1>7 DEF FilterRead
<1>9. QED
  BY <1>2, <1>8

\* Argument j names field k, and none after it up to m does.
NamesLast(args, m, j, k) ==
  k \in DOMAIN Named(args[j]) /\ \A l \in j + 1 .. m : k \notin DOMAIN Named(args[l])

\* A filter holds what arguments a + 1 .. m named last.
FieldIs(f, args, a, m, k) ==
  /\ f[k] < 0 => \A j \in a + 1 .. m : k \notin DOMAIN Named(args[j])
  /\ f[k] >= 0 => \E j \in a + 1 .. m : NamesLast(args, m, j, k) /\ f[k] = Named(args[j])[k]

\* A filter is what the arguments from a + 1 to m make of any device.
FilterIs(f, args, a, m) == f \in [Field -> Int] /\ \A k \in Field : FieldIs(f, args, a, m, k)

\* So it does without arguments, and with one more.
LEMMA FilterBegins ==
  ASSUME NEW args, NEW a \in Nat
  PROVE  FilterIs(AnyDevice, args, a, a)
<1>1. AnyDevice \in [Field -> Int] /\ \A k \in Field : AnyDevice[k] = -1
  BY DEF AnyDevice
<1>2. a + 1 .. a = {}
  OBVIOUS
<1>3. \A k \in Field : FieldIs(AnyDevice, args, a, a, k)
  BY <1>1, <1>2 DEF FieldIs
<1>4. QED
  BY <1>1, <1>3 DEF FilterIs

\* One more argument makes it the filter of one more.
LEMMA FilterGrows ==
  ASSUME NEW args, NEW a \in Nat, NEW m \in Nat, a <= m, NEW f, FilterIs(f, args, a, m)
  PROVE  FilterIs(ParseArg(f, args[m + 1]).filter, args, a, m + 1)
<1>1. PICK r : r = ParseArg(f, args[m + 1])
  OBVIOUS
<1>2. f \in [Field -> Int]
  BY DEF FilterIs
<1>3. FilterRead(r, f, args[m + 1])
  BY <1>1, <1>2, ArgRead
<1>4. PICK e : e = r.filter
  OBVIOUS
<1>5. e \in [Field -> Int]
  BY <1>3, <1>4 DEF FilterRead, Result
<1>6. ASSUME NEW k \in Field PROVE FieldIs(e, args, a, m + 1, k)
  <2>1. FieldIs(f, args, a, m, k)
    BY DEF FilterIs
  <2>2. CASE k \in DOMAIN Named(args[m + 1])
    <3>1. e[k] = Named(args[m + 1])[k] /\ e[k] >= 0
      BY <1>3, <1>4, <2>2 DEF FilterRead
    <3>2. NamesLast(args, m + 1, m + 1, k)
      BY <2>2 DEF NamesLast
    <3>3. m + 1 \in a + 1 .. m + 1
      OBVIOUS
    <3>4. e[k] \in Int
      BY <1>5
    <3>5. QED
      BY <3>1, <3>2, <3>3, <3>4 DEF FieldIs
  <2>3. CASE k \notin DOMAIN Named(args[m + 1])
    <3>1. e[k] = f[k] /\ f[k] \in Int
      BY <1>2, <1>3, <1>4, <2>3 DEF FilterRead
    <3>2. CASE f[k] < 0
      <4>1. \A j \in a + 1 .. m : k \notin DOMAIN Named(args[j])
        BY <2>1, <3>2 DEF FieldIs
      <4>2. ASSUME NEW j \in a + 1 .. m + 1 PROVE k \notin DOMAIN Named(args[j])
        <5>1. j \in a + 1 .. m \/ j = m + 1
          OBVIOUS
        <5>2. QED
          BY <2>3, <4>1, <5>1
      <4>3. QED
        BY <3>1, <3>2, <4>2 DEF FieldIs
    <3>3. CASE f[k] >= 0
      <4>1. PICK j \in a + 1 .. m : NamesLast(args, m, j, k) /\ f[k] = Named(args[j])[k]
        BY <2>1, <3>3 DEF FieldIs
      <4>2. ASSUME NEW l \in j + 1 .. m + 1 PROVE k \notin DOMAIN Named(args[l])
        <5>1. l \in j + 1 .. m \/ l = m + 1
          OBVIOUS
        <5>2. QED
          BY <2>3, <4>1, <5>1 DEF NamesLast
      <4>3. NamesLast(args, m + 1, j, k)
        BY <4>1, <4>2 DEF NamesLast
      <4>4. j \in a + 1 .. m + 1
        OBVIOUS
      <4>5. QED
        BY <3>1, <3>3, <4>1, <4>3, <4>4 DEF FieldIs
    <3>4. QED
      BY <3>1, <3>2, <3>3
  <2>4. QED
    BY <2>2, <2>3
<1>7. FilterIs(e, args, a, m + 1)
  BY <1>5, <1>6 DEF FilterIs
<1>8. QED
  BY <1>1, <1>4, <1>7

\* A filter narrows the last group or begins one.
LEMMA FilterAdded ==
  ASSUME NEW O, NEW s \in ParseState(O), NEW arg, NEW t, t = AddFilter(s, arg)
  PROVE  /\ t \in ParseState(O)
         /\ FilterNarrows(t.groups, s.groups, arg) \/ GroupBegins(t.groups, s.groups, arg)
<1>1. PICK G : G = GroupOf(O)
  OBVIOUS
<1>2. PICK before \in Seq(G) : before = s.groups
  BY <1>1 DEF ParseState
<1>3. PICK groups : groups = IF StartsGroup(before) THEN Append(before, NewGroup) ELSE before
  OBVIOUS
<1>4. NewGroup \in G /\ NewGroup.filter = AnyDevice /\ NewGroup.ops = <<>>
  BY <1>1 DEF NewGroup, GroupOf, AnyDevice
<1>5. PICK N \in G : N = NewGroup
  BY <1>4
<1>6. PICK b \in Nat : b = Len(before)
  OBVIOUS
<1>7. StartsGroup(before) <=> b = 0 \/ before[b].ops # <<>>
  BY <1>6 DEF StartsGroup, Last
<1>8. /\ groups \in Seq(G) /\ Len(groups) # 0
      /\ StartsGroup(before) => Len(groups) = b + 1 /\ groups[b + 1] = N /\ \A g \in 1 .. b : groups[g] = before[g]
      /\ ~StartsGroup(before) => groups = before
  <2>1. CASE StartsGroup(before)
    <3>1. groups = Append(before, N)
      BY <1>3, <1>5, <2>1
    <3>2. QED
      BY <1>6, <2>1, <3>1
  <2>2. CASE ~StartsGroup(before)
    BY <1>3, <1>6, <1>7, <2>2
  <2>3. QED
    BY <2>1, <2>2
<1>9. PICK n \in Nat : n = Len(groups) /\ n # 0
  BY <1>8
<1>10. PICK old \in G : old = groups[n]
  BY <1>8, <1>9
<1>11. old.filter \in [Field -> Int] /\ old.ops \in Seq(O)
  BY <1>1, <1>10 DEF GroupOf
<1>12. PICK r : r = ParseArg(old.filter, arg)
  OBVIOUS
<1>13. r \in Result
  <2>1. FilterRead(ParseArg(old.filter, arg), old.filter, arg)
    BY <1>11, ArgRead
  <2>2. QED
    BY <1>12, <2>1 DEF FilterRead
<1>14. PICK e \in G : e = [filter |-> r.filter, ops |-> old.ops]
  <2>1. [filter |-> r.filter, ops |-> old.ops] \in G
    BY <1>1, <1>11, <1>13 DEF GroupOf, Result
  <2>2. QED
    BY <2>1
<1>15. [old EXCEPT !.filter = r.filter] = e
  <2>1. old \in [filter : [Field -> Int], ops : Seq(O)]
    BY <1>1, <1>10 DEF GroupOf
  <2>2. PICK f : f = r.filter
    OBVIOUS
  <2>3. [old EXCEPT !.filter = f] = [filter |-> f, ops |-> old.ops]
    BY <2>1, GroupChanged
  <2>4. QED
    BY <1>14, <2>2, <2>3
<1>16. PICK after : after = [groups EXCEPT ![n] = e]
  OBVIOUS
<1>17. /\ after \in Seq(G) /\ Len(after) = n /\ after[n] = e
       /\ \A g \in 1 .. n - 1 : after[g] = groups[g]
  BY <1>8, <1>9, <1>16, LastChanged
<1>18. t = [groups |-> after, error |-> r.error]
  <2>1. Last(groups) = old
    BY <1>9, <1>10 DEF Last
  <2>2. t = [groups |-> [groups EXCEPT ![Len(groups)].filter = r.filter], error |-> r.error]
    BY <1>2, <1>3, <1>12, <2>1 DEF AddFilter, ParseArg
  <2>3. [groups EXCEPT ![Len(groups)].filter = r.filter] = after
    <3>1. [groups EXCEPT ![n].filter = r.filter] = [groups EXCEPT ![n] = [groups[n] EXCEPT !.filter = r.filter]]
      OBVIOUS
    <3>2. QED
      BY <1>9, <1>10, <1>15, <1>16, <3>1
  <2>4. QED
    BY <2>2, <2>3
<1>19. t.groups = after /\ t \in ParseState(O)
  BY <1>1, <1>13, <1>17, <1>18 DEF ParseState, Result
<1>20. after[n].filter = ParseArg(groups[n].filter, arg).filter /\ after[n].ops = groups[n].ops
  BY <1>10, <1>12, <1>14, <1>17
<1>21. CASE StartsGroup(before)
  <2>1. n = b + 1 /\ groups[n] = N /\ \A g \in 1 .. b : groups[g] = before[g]
    BY <1>8, <1>9, <1>21
  <2>2. after[n].filter = ParseArg(AnyDevice, arg).filter /\ after[n].ops = <<>>
    BY <1>4, <1>5, <1>20, <2>1
  <2>3. \A g \in 1 .. b : after[g] = before[g]
    BY <1>17, <2>1
  <2>4. GroupBegins(after, before, arg)
    BY <1>6, <1>7, <1>17, <1>21, <2>1, <2>2, <2>3 DEF GroupBegins
  <2>5. QED
    BY <1>2, <1>19, <2>4
<1>22. CASE ~StartsGroup(before)
  <2>1. groups = before /\ n = b /\ before[b].ops = <<>>
    BY <1>6, <1>7, <1>8, <1>9, <1>22
  <2>2. FilterNarrows(after, before, arg)
    BY <1>6, <1>9, <1>17, <1>20, <2>1 DEF FilterNarrows
  <2>3. QED
    BY <1>2, <1>19, <2>2
<1>23. QED
  BY <1>21, <1>22

\* Arguments a + 1 .. b are a group: filters up to m, then operations.
GroupIs(group, args, a, m, b) ==
  /\ a \in Nat /\ m \in Nat /\ b \in Nat /\ a < m /\ m <= b
  /\ \A j \in a + 1 .. m : args[j].kind # "op"
  /\ \A j \in m + 1 .. b : args[j].kind = "op"
  /\ FilterIs(group.filter, args, a, m)
  /\ Len(group.ops) = b - m
  /\ \A o \in 1 .. b - m : group.ops[o] = ParseOp(args[m + o].text).op

\* Arguments 1 .. i are these groups; all but the last have operations.
Chain(groups, n, args, cut, mid, i) ==
  /\ n = Len(groups) /\ cut \in [0 .. n -> Nat] /\ mid \in [1 .. n -> Nat]
  /\ cut[0] = 0 /\ cut[n] = i
  /\ \A g \in 1 .. n : GroupIs(groups[g], args, cut[g - 1], mid[g], cut[g])
  /\ \A g \in 1 .. n - 1 : mid[g] < cut[g]

\* The groups are those of the first i arguments, one after the other.
Chained(groups, args, i) ==
  \E cut \in [0 .. Len(groups) -> Nat], mid \in [1 .. Len(groups) -> Nat] :
    Chain(groups, Len(groups), args, cut, mid, i)

\* A group gets an operation.
LEMMA GroupGetsOp ==
  ASSUME NEW O, NEW group \in GroupOf(O), NEW args, NEW a, NEW m, NEW b,
         GroupIs(group, args, a, m, b), args[b + 1].kind = "op",
         NEW op \in O, op = ParseOp(args[b + 1].text).op,
         NEW t \in GroupOf(O), t.filter = group.filter, t.ops = Append(group.ops, op)
  PROVE  GroupIs(t, args, a, m, b + 1)
<1>1. /\ a \in Nat /\ m \in Nat /\ b \in Nat /\ a < m /\ m <= b
      /\ \A j \in a + 1 .. m : args[j].kind # "op"
      /\ \A j \in m + 1 .. b : args[j].kind = "op"
      /\ FilterIs(group.filter, args, a, m)
      /\ Len(group.ops) = b - m
      /\ \A o \in 1 .. b - m : group.ops[o] = ParseOp(args[m + o].text).op
  BY DEF GroupIs
<1>2. PICK x \in Seq(O) : x = group.ops
  BY DEF GroupOf
<1>3. PICK n \in Nat : n = b - m
  BY <1>1
<1>4. PICK y : y = Append(x, op)
  OBVIOUS
<1>5. Len(y) = n + 1 /\ y[n + 1] = op /\ \A o \in 1 .. n : y[o] = x[o]
  <2>1. Len(x) = n
    BY <1>1, <1>2, <1>3
  <2>2. QED
    BY <1>4, <2>1
<1>6. t.ops = y
  BY <1>2, <1>4
<1>7. \A j \in m + 1 .. b + 1 : args[j].kind = "op"
  <2>1. ASSUME NEW j \in m + 1 .. b + 1 PROVE args[j].kind = "op"
    <3>1. j \in m + 1 .. b \/ j = b + 1
      BY <1>1
    <3>2. QED
      BY <1>1, <3>1
  <2>2. QED
    BY <2>1
<1>8. \A o \in 1 .. n + 1 : y[o] = ParseOp(args[m + o].text).op
  <2>1. ASSUME NEW o \in 1 .. n + 1 PROVE y[o] = ParseOp(args[m + o].text).op
    <3>1. CASE o = n + 1
      <4>1. m + o = b + 1
        BY <1>1, <1>3, <3>1
      <4>2. QED
        BY <1>5, <3>1, <4>1
    <3>2. CASE o \in 1 .. n
      BY <1>1, <1>2, <1>3, <1>5, <3>2
    <3>3. QED
      BY <3>1, <3>2
  <2>2. QED
    BY <2>1
<1>9. n + 1 = (b + 1) - m /\ b + 1 \in Nat /\ m <= b + 1
  BY <1>1, <1>3
<1>10. FilterIs(t.filter, args, a, m)
  BY <1>1
<1>11. QED
  BY <1>1, <1>5, <1>6, <1>7, <1>8, <1>9, <1>10 DEF GroupIs

\* A group begins with a filter, or gets one more.
LEMMA GroupGetsFilter ==
  ASSUME NEW args, NEW a \in Nat, NEW m \in Nat, a <= m, NEW f, FilterIs(f, args, a, m),
         \A j \in a + 1 .. m : args[j].kind # "op", args[m + 1].kind # "op",
         NEW t, t.filter = ParseArg(f, args[m + 1]).filter, t.ops = <<>>
  PROVE  GroupIs(t, args, a, m + 1, m + 1)
<1>1. FilterIs(t.filter, args, a, m + 1)
  BY FilterGrows
<1>2. \A j \in a + 1 .. m + 1 : args[j].kind # "op"
  <2>1. ASSUME NEW j \in a + 1 .. m + 1 PROVE args[j].kind # "op"
    <3>1. j \in a + 1 .. m \/ j = m + 1
      OBVIOUS
    <3>2. QED
      BY <3>1
  <2>2. QED
    BY <2>1
<1>3. Len(t.ops) = 0
  OBVIOUS
<1>4. (m + 2 .. m + 1) = {} /\ (1 .. 0) = {} /\ (m + 1) - (m + 1) = 0 /\ (m + 1) + 1 = m + 2
  OBVIOUS
<1>5. a < m + 1 /\ m + 1 \in Nat
  OBVIOUS
<1>6. QED
  BY <1>1, <1>2, <1>3, <1>4, <1>5 DEF GroupIs

\* One more argument: the last group gets an operation,
LEMMA ChainGetsOp ==
  ASSUME NEW O, NEW before \in Seq(GroupOf(O)), NEW after \in Seq(GroupOf(O)),
         NEW args, NEW i \in Nat, Chained(before, args, i), args[i + 1].kind = "op",
         ParseOp(args[i + 1].text).op \in O,
         OpJoins(after, before, ParseOp(args[i + 1].text).op)
  PROVE  Chained(after, args, i + 1)
<1>1. PICK n \in Nat : n = Len(before)
  OBVIOUS
<1>2. PICK cut \in [0 .. n -> Nat], mid \in [1 .. n -> Nat] : Chain(before, n, args, cut, mid, i)
  BY <1>1 DEF Chained
<1>3. PICK op \in O : op = ParseOp(args[i + 1].text).op
  OBVIOUS
<1>4. /\ n # 0 /\ Len(after) = n
      /\ \A g \in 1 .. n - 1 : after[g] = before[g]
      /\ after[n].filter = before[n].filter
      /\ after[n].ops = Append(before[n].ops, op)
  BY <1>1, <1>3 DEF OpJoins
<1>5. /\ cut[0] = 0 /\ cut[n] = i
      /\ \A g \in 1 .. n : GroupIs(before[g], args, cut[g - 1], mid[g], cut[g])
      /\ \A g \in 1 .. n - 1 : mid[g] < cut[g]
  BY <1>2 DEF Chain
<1>6. PICK cut2 : cut2 = [cut EXCEPT ![n] = i + 1]
  OBVIOUS
<1>7. cut2 \in [0 .. n -> Nat] /\ cut2[n] = i + 1 /\ \A g \in 0 .. n - 1 : cut2[g] = cut[g]
  BY <1>4, <1>6
<1>8. GroupIs(after[n], args, cut2[n - 1], mid[n], cut2[n])
  <2>1. PICK old \in GroupOf(O) : old = before[n]
    BY <1>1, <1>4
  <2>2. PICK t \in GroupOf(O) : t = after[n]
    BY <1>4
  <2>3. GroupIs(old, args, cut[n - 1], mid[n], i)
    BY <1>4, <1>5, <2>1
  <2>4. GroupIs(t, args, cut[n - 1], mid[n], i + 1)
    BY <1>3, <1>4, <2>1, <2>2, <2>3, GroupGetsOp
  <2>5. n - 1 \in 0 .. n - 1
    BY <1>4
  <2>6. QED
    BY <1>7, <2>2, <2>4, <2>5
<1>9. ASSUME NEW g \in 1 .. n PROVE GroupIs(after[g], args, cut2[g - 1], mid[g], cut2[g])
  <2>1. CASE g = n
    BY <1>8, <2>1
  <2>2. CASE g \in 1 .. n - 1
    <3>1. after[g] = before[g] /\ cut2[g] = cut[g] /\ cut2[g - 1] = cut[g - 1]
      BY <1>4, <1>7, <2>2
    <3>2. QED
      BY <1>5, <3>1
  <2>3. QED
    BY <2>1, <2>2
<1>10. \A g \in 1 .. n - 1 : mid[g] < cut2[g]
  BY <1>5, <1>7
<1>11. cut2[0] = 0
  BY <1>4, <1>5, <1>7
<1>12. Chain(after, n, args, cut2, mid, i + 1)
  BY <1>4, <1>7, <1>9, <1>10, <1>11 DEF Chain
<1>13. QED
  BY <1>4, <1>7, <1>12 DEF Chained

\* or a filter,
LEMMA ChainGetsFilter ==
  ASSUME NEW O, NEW before \in Seq(GroupOf(O)), NEW after \in Seq(GroupOf(O)),
         NEW args, NEW i \in Nat, Chained(before, args, i), args[i + 1].kind # "op",
         FilterNarrows(after, before, args[i + 1])
  PROVE  Chained(after, args, i + 1)
<1>1. PICK n \in Nat : n = Len(before)
  OBVIOUS
<1>2. PICK cut \in [0 .. n -> Nat], mid \in [1 .. n -> Nat] : Chain(before, n, args, cut, mid, i)
  BY <1>1 DEF Chained
<1>4. /\ n # 0 /\ Len(after) = n
      /\ before[n].ops = <<>>
      /\ \A g \in 1 .. n - 1 : after[g] = before[g]
      /\ after[n].filter = ParseArg(before[n].filter, args[i + 1]).filter
      /\ after[n].ops = <<>>
  BY <1>1 DEF FilterNarrows
<1>5. /\ cut[0] = 0 /\ cut[n] = i
      /\ \A g \in 1 .. n : GroupIs(before[g], args, cut[g - 1], mid[g], cut[g])
      /\ \A g \in 1 .. n - 1 : mid[g] < cut[g]
  BY <1>2 DEF Chain
<1>6. PICK cut2 : cut2 = [cut EXCEPT ![n] = i + 1]
  OBVIOUS
<1>7. cut2 \in [0 .. n -> Nat] /\ cut2[n] = i + 1 /\ \A g \in 0 .. n - 1 : cut2[g] = cut[g]
  BY <1>4, <1>6
<1>16. PICK mid2 : mid2 = [mid EXCEPT ![n] = i + 1]
  OBVIOUS
<1>17. mid2 \in [1 .. n -> Nat] /\ mid2[n] = i + 1 /\ \A g \in 1 .. n - 1 : mid2[g] = mid[g]
  BY <1>4, <1>16
<1>8. GroupIs(after[n], args, cut2[n - 1], mid2[n], cut2[n])
  <2>1. PICK a \in Nat : a = cut[n - 1]
    <3>1. n - 1 \in 0 .. n
      BY <1>4
    <3>2. cut[n - 1] \in Nat
      BY <3>1
    <3>3. QED
      BY <3>2
  <2>2. GroupIs(before[n], args, a, mid[n], i)
    BY <1>4, <1>5, <2>1
  <2>3. /\ a <= i /\ mid[n] = i
        /\ \A j \in a + 1 .. i : args[j].kind # "op"
        /\ FilterIs(before[n].filter, args, a, i)
    <3>1. mid[n] \in Nat /\ a < mid[n] /\ mid[n] <= i /\ Len(before[n].ops) = i - mid[n]
      BY <2>2 DEF GroupIs
    <3>2. mid[n] = i
      BY <1>4, <3>1
    <3>3. QED
      BY <2>2, <3>1, <3>2 DEF GroupIs
  <2>4. GroupIs(after[n], args, a, i + 1, i + 1)
    BY <1>4, <2>3, GroupGetsFilter
  <2>5. n - 1 \in 0 .. n - 1
    BY <1>4
  <2>6. QED
    BY <1>7, <1>17, <2>1, <2>4, <2>5
<1>9. ASSUME NEW g \in 1 .. n PROVE GroupIs(after[g], args, cut2[g - 1], mid2[g], cut2[g])
  <2>1. CASE g = n
    BY <1>8, <2>1
  <2>2. CASE g \in 1 .. n - 1
    <3>1. after[g] = before[g] /\ cut2[g] = cut[g] /\ cut2[g - 1] = cut[g - 1] /\ mid2[g] = mid[g]
      BY <1>4, <1>7, <1>17, <2>2
    <3>2. QED
      BY <1>5, <3>1
  <2>3. QED
    BY <2>1, <2>2
<1>10. \A g \in 1 .. n - 1 : mid2[g] < cut2[g]
  BY <1>5, <1>7, <1>17
<1>11. cut2[0] = 0
  BY <1>4, <1>5, <1>7
<1>12. Chain(after, n, args, cut2, mid2, i + 1)
  BY <1>4, <1>7, <1>9, <1>10, <1>11, <1>17 DEF Chain
<1>13. QED
  BY <1>4, <1>7, <1>12, <1>17 DEF Chained

\* or a new group begins.
LEMMA ChainGetsGroup ==
  ASSUME NEW O, NEW before \in Seq(GroupOf(O)), NEW after \in Seq(GroupOf(O)),
         NEW args, NEW i \in Nat, Chained(before, args, i), args[i + 1].kind # "op",
         GroupBegins(after, before, args[i + 1])
  PROVE  Chained(after, args, i + 1)
<1>1. PICK n \in Nat : n = Len(before)
  OBVIOUS
<1>2. PICK cut \in [0 .. n -> Nat], mid \in [1 .. n -> Nat] : Chain(before, n, args, cut, mid, i)
  BY <1>1 DEF Chained
<1>3. PICK k \in Nat : k = n + 1
  OBVIOUS
<1>4. /\ Len(after) = k
      /\ n # 0 => before[n].ops # <<>>
      /\ \A g \in 1 .. n : after[g] = before[g]
      /\ after[k].filter = ParseArg(AnyDevice, args[i + 1]).filter
      /\ after[k].ops = <<>>
  BY <1>1, <1>3 DEF GroupBegins
<1>5. /\ cut[0] = 0 /\ cut[n] = i
      /\ \A g \in 1 .. n : GroupIs(before[g], args, cut[g - 1], mid[g], cut[g])
      /\ \A g \in 1 .. n - 1 : mid[g] < cut[g]
  BY <1>2 DEF Chain
<1>6. PICK cut2 \in [0 .. k -> Nat] : cut2 = [g \in 0 .. k |-> IF g = k THEN i + 1 ELSE cut[g]]
  <2>1. [g \in 0 .. k |-> IF g = k THEN i + 1 ELSE cut[g]] \in [0 .. k -> Nat]
    BY <1>3
  <2>2. QED
    BY <2>1
<1>7. cut2[k] = i + 1 /\ \A g \in 0 .. n : cut2[g] = cut[g]
  BY <1>3, <1>6
<1>16. PICK mid2 \in [1 .. k -> Nat] : mid2 = [g \in 1 .. k |-> IF g = k THEN i + 1 ELSE mid[g]]
  <2>1. [g \in 1 .. k |-> IF g = k THEN i + 1 ELSE mid[g]] \in [1 .. k -> Nat]
    BY <1>3
  <2>2. QED
    BY <2>1
<1>17. mid2[k] = i + 1 /\ \A g \in 1 .. n : mid2[g] = mid[g]
  BY <1>3, <1>16
<1>8. GroupIs(after[k], args, cut2[k - 1], mid2[k], cut2[k])
  <2>1. FilterIs(AnyDevice, args, i, i)
    BY FilterBegins
  <2>2. \A j \in i + 1 .. i : args[j].kind # "op"
    OBVIOUS
  <2>3. GroupIs(after[k], args, i, i + 1, i + 1)
    <3>1. PICK f : f = AnyDevice
      OBVIOUS
    <3>2. PICK t : t = after[k]
      OBVIOUS
    <3>3. t.filter = ParseArg(f, args[i + 1]).filter /\ t.ops = <<>>
      BY <1>4, <3>1, <3>2
    <3>4. FilterIs(f, args, i, i)
      BY <2>1, <3>1
    <3>5. i <= i
      OBVIOUS
    <3>6. GroupIs(t, args, i, i + 1, i + 1)
      BY <2>2, <3>3, <3>4, <3>5, GroupGetsFilter
    <3>7. QED
      BY <3>2, <3>6
  <2>4. cut2[k - 1] = i
    BY <1>3, <1>5, <1>7
  <2>5. QED
    BY <1>7, <1>17, <2>3, <2>4
<1>9. ASSUME NEW g \in 1 .. k PROVE GroupIs(after[g], args, cut2[g - 1], mid2[g], cut2[g])
  <2>1. CASE g = k
    BY <1>8, <2>1
  <2>2. CASE g \in 1 .. n
    <3>1. after[g] = before[g] /\ cut2[g] = cut[g] /\ cut2[g - 1] = cut[g - 1] /\ mid2[g] = mid[g]
      BY <1>4, <1>7, <1>17, <2>2
    <3>2. QED
      BY <1>5, <2>2, <3>1
  <2>3. QED
    BY <1>3, <2>1, <2>2
<1>10. ASSUME NEW g \in 1 .. k - 1 PROVE mid2[g] < cut2[g]
  <2>1. g \in 1 .. n /\ mid2[g] = mid[g] /\ cut2[g] = cut[g]
    BY <1>3, <1>7, <1>17
  <2>2. CASE g \in 1 .. n - 1
    BY <1>5, <2>1, <2>2
  <2>3. CASE g = n
    <3>1. GroupIs(before[n], args, cut[n - 1], mid[n], cut[n])
      BY <1>5, <2>1, <2>3
    <3>2. before[n] \in GroupOf(O)
      BY <1>1, <2>1, <2>3
    <3>3. PICK x \in Seq(O) : x = before[n].ops
      BY <3>2 DEF GroupOf
    <3>4. Len(x) # 0
      BY <1>4, <2>1, <2>3, <3>3
    <3>5. mid[n] \in Nat /\ cut[n] \in Nat /\ mid[n] <= cut[n] /\ Len(x) = cut[n] - mid[n]
      BY <3>1, <3>3 DEF GroupIs
    <3>6. QED
      BY <2>1, <2>3, <3>4, <3>5
  <2>4. QED
    BY <2>1, <2>2, <2>3
<1>11. cut2[0] = 0
  BY <1>5, <1>7
<1>12. Chain(after, k, args, cut2, mid2, i + 1)
  BY <1>4, <1>6, <1>7, <1>9, <1>10, <1>11, <1>16, <1>17 DEF Chain
<1>13. QED
  BY <1>4, <1>12 DEF Chained

\* An argument leaves it among its states.
LEMMA ParseTurnStays ==
  ASSUME NEW O, NEW arg, ParseOp(arg.text).op \in O, NEW s \in ParseState(O)
  PROVE  ParseTurn(s, arg) \in ParseState(O)
<1>1. PICK t : t = AddOp(s, arg)
  OBVIOUS
<1>2. PICK u : u = AddFilter(s, arg)
  OBVIOUS
<1>3. t \in ParseState(O)
  BY <1>1, OpAdded
<1>4. u \in ParseState(O)
  BY <1>2, FilterAdded
<1>5. QED
  BY <1>1, <1>2, <1>3, <1>4 DEF ParseTurn

\* parse_ops goes argument by argument.
LEMMA ParseOpsTurns ==
  ASSUME NEW O, NEW A, NEW args \in Seq(A), \A arg \in A : ParseOp(arg.text).op \in O
  PROVE  HasParseTurns(Len(args), args, O)
<1> DEFINE n == Len(args)
           V == ParseState(O)
           one == ParseStart
           G == [i \in 1 .. n |-> [s \in V |-> ParseTurn(s, args[i])]]
           Turn(f, s) == IF s = {} THEN one ELSE ParseTurn(f[s \ {Max(s)}], args[Max(s)])
           Def(f) == f = [s \in SUBSET (1 .. n) |-> Turn(f, s)]
           iter == CHOOSE f : Def(f)
<1>1. n \in Nat /\ \A i \in 1 .. n : args[i] \in A
  OBVIOUS
<1>2. Parsed(ParseOps(args), iter[1 .. n])
  <2>1. DOMAIN args = 1 .. n
    OBVIOUS
  <2>2. QED
    BY <2>1 DEF ParseOps, FoldLeft, MapThenFoldSet, ParseTurn, ParseStart, Parsed
<1>3. G \in [1 .. n -> [V -> V]]
  <2> HIDE DEF n, V
  <2>1. ASSUME NEW i \in 1 .. n, NEW s \in V PROVE ParseTurn(s, args[i]) \in V
    <3>1. PICK arg \in A : arg = args[i]
      BY <1>1
    <3>2. ParseTurn(s, arg) \in ParseState(O)
      BY ParseTurnStays DEF V
    <3>3. QED
      BY <3>1, <3>2 DEF V
  <2>2. QED
    BY <2>1
<1>4. one \in V
  <2>1. <<>> \in Seq(GroupOf(O))
    OBVIOUS
  <2>2. QED
    BY <2>1 DEF ParseState, ParseStart
<1>5. PICK it \in [SUBSET (1 .. n) -> V] : IsFold(it, n, one, G)
  <2> HIDE DEF n, V, G, one
  <2>1. QED
    BY <1>1, <1>3, <1>4, FoldExists
<1>6. Def(it)
  <2>1. ASSUME NEW s \in SUBSET (1 .. n) PROVE FoldStep(it, one, G, s) = Turn(it, s)
    <3>1. CASE s = {}
      BY <3>1 DEF FoldStep
    <3>2. CASE s # {}
      <4>1. Max(s) \in 1 .. n /\ s \ {Max(s)} \in SUBSET (1 .. n)
        <5>1. Max(s) \in s
          BY <1>1, <3>2, LastOfSet
        <5>2. QED
          BY <5>1
      <4>2. it[s \ {Max(s)}] \in V
        BY <4>1
      <4> HIDE DEF V, n
      <4>3. G[Max(s)][it[s \ {Max(s)}]] = ParseTurn(it[s \ {Max(s)}], args[Max(s)])
        BY <4>1, <4>2
      <4>4. QED
        BY <3>2, <4>3 DEF FoldStep
    <3>3. QED
      BY <3>1, <3>2
  <2> HIDE DEF Turn, G, n, one
  <2>2. it = [s \in SUBSET (1 .. n) |-> FoldStep(it, one, G, s)]
    BY <1>5 DEF IsFold
  <2>3. QED
    BY <2>1, <2>2, Zenon
<1>7. Def(iter)
  <2> HIDE DEF Def
  <2>1. QED
    BY <1>6
<1> HIDE DEF iter
<1>8. Folds(iter, n, V, one, G)
  <2>1. iter[{}] = one
    BY <1>7
  <2>2. ASSUME NEW s \in SUBSET (1 .. n), s # {}, iter[s \ {Max(s)}] \in V
        PROVE  iter[s] = G[Max(s)][iter[s \ {Max(s)}]]
    <3>1. iter[s] = Turn(iter, s)
      <4> HIDE DEF Turn
      <4>1. QED
        BY <1>7
    <3>2. Max(s) \in 1 .. n
      BY <1>1, <2>2, LastOfSet
    <3> HIDE DEF V, n
    <3>3. G[Max(s)][iter[s \ {Max(s)}]] = ParseTurn(iter[s \ {Max(s)}], args[Max(s)])
      BY <2>2, <3>2
    <3>4. QED
      BY <2>2, <3>1, <3>3
  <2> HIDE DEF G, V, n, one
  <2>3. QED
    BY <2>1, <2>2 DEF Folds
<1>9. PICK R \in [0 .. n -> V] : Turns(R, n, one, G) /\ R[n] = iter[1 .. n]
  <2> HIDE DEF G, V, n, one
  <2>1. TurnsTo(n, V, one, G, iter[1 .. n])
    BY <1>1, <1>3, <1>4, <1>8, FoldTurns
  <2>2. QED
    BY <2>1 DEF TurnsTo
<1>10. ASSUME NEW i \in 1 .. n PROVE R[i] = ParseTurn(R[i - 1], args[i])
  <2> HIDE DEF V, n
  <2>1. R[i - 1] \in V
    BY <1>9, <1>1
  <2>2. R[i] = G[i][R[i - 1]]
    BY <1>9 DEF Turns
  <2>3. QED
    BY <2>1, <2>2
<1> HIDE DEF V
<1>11. R[0] = ParseStart
  BY <1>9 DEF Turns
<1>12. R \in [0 .. n -> ParseState(O)]
  BY <1>9 DEF V
<1>13. Parsed(ParseOps(args), R[n])
  BY <1>2, <1>9
<1>14. QED
  BY <1>10, <1>11, <1>12, <1>13 DEF ParseTurns, HasParseTurns

\* A turn without error carries the groups on.
LEMMA TurnChains ==
  ASSUME NEW O, NEW args, NEW i \in Nat, ParseOp(args[i + 1].text).op \in O,
         NEW s \in ParseState(O), NEW t, t = ParseTurn(s, args[i + 1]), ~t.error,
         ~s.error => Chained(s.groups, args, i)
  PROVE  Chained(t.groups, args, i + 1)
<1>1. PICK arg : arg = args[i + 1]
  OBVIOUS
<1>2. ~s.error
  BY DEF ParseTurn
<1>3. PICK before \in Seq(GroupOf(O)) : before = s.groups
  BY DEF ParseState
<1>4. Chained(before, args, i)
  BY <1>2, <1>3
<1>5. CASE arg.kind = "op"
  <2>1. t = AddOp(s, arg)
    BY <1>1, <1>2, <1>5 DEF ParseTurn
  <2>2. t \in ParseState(O) /\ OpJoins(t.groups, s.groups, ParseOp(arg.text).op)
    BY <1>1, <2>1, OpAdded
  <2>3. PICK after \in Seq(GroupOf(O)) : after = t.groups
    BY <2>2 DEF ParseState
  <2>4. Chained(after, args, i + 1)
    BY <1>1, <1>3, <1>4, <1>5, <2>2, <2>3, ChainGetsOp
  <2>5. QED
    BY <2>3, <2>4
<1>6. CASE arg.kind # "op"
  <2>1. t = AddFilter(s, arg)
    BY <1>1, <1>2, <1>6 DEF ParseTurn
  <2>2. t \in ParseState(O) /\ (FilterNarrows(t.groups, s.groups, arg) \/ GroupBegins(t.groups, s.groups, arg))
    BY <1>1, <2>1, FilterAdded
  <2>3. PICK after \in Seq(GroupOf(O)) : after = t.groups
    BY <2>2 DEF ParseState
  <2>4. ASSUME FilterNarrows(after, before, arg) PROVE Chained(after, args, i + 1)
    BY <1>1, <1>4, <1>6, <2>4, ChainGetsFilter
  <2>5. ASSUME GroupBegins(after, before, arg) PROVE Chained(after, args, i + 1)
    BY <1>1, <1>4, <1>6, <2>5, ChainGetsGroup
  <2>6. QED
    BY <1>3, <2>2, <2>3, <2>4, <2>5
<1>7. QED
  BY <1>5, <1>6

\* Without an error, all arguments are in groups.
LEMMA ParsedChained ==
  ASSUME NEW O, NEW A, NEW args \in Seq(A), \A arg \in A : ParseOp(arg.text).op \in O,
         NEW st, st = ParseOps(args), ~st.error
  PROVE  st.groups \in Seq(GroupOf(O)) /\ Chained(st.groups, args, Len(args))
<1>1. PICK n \in Nat : n = Len(args)
  OBVIOUS
<1>2. HasParseTurns(n, args, O)
  BY <1>1, ParseOpsTurns
<1>3. PICK R \in [0 .. n -> ParseState(O)] : ParseTurns(R, n, args) /\ Parsed(st, R[n])
  BY <1>2 DEF HasParseTurns
<1> DEFINE S == {i \in 0 .. n : ~R[i].error => Chained(R[i].groups, args, i)}
<1>4. 0 \in S
  <2>1. R[0].groups = <<>>
    BY <1>3 DEF ParseTurns, ParseStart
  <2>2. PICK cut : cut = [g \in 0 .. 0 |-> 0]
    OBVIOUS
  <2>3. PICK mid : mid = [g \in 1 .. 0 |-> 0]
    OBVIOUS
  <2>4. cut \in [0 .. 0 -> Nat] /\ cut[0] = 0
    BY <2>2
  <2>5. mid \in [1 .. 0 -> Nat]
    BY <2>3
  <2>6. 1 .. 0 = {} /\ 1 .. 0 - 1 = {} /\ Len(<<>>) = 0
    OBVIOUS
  <2>7. Chain(<<>>, 0, args, cut, mid, 0)
    BY <2>4, <2>5, <2>6 DEF Chain
  <2>8. Chained(<<>>, args, 0)
    BY <2>4, <2>5, <2>6, <2>7 DEF Chained
  <2>9. QED
    BY <2>1, <2>8
<1>5. ASSUME NEW i \in 1 .. n, i - 1 \in S PROVE i \in S
  <2>1. PICK m \in Nat : m = i - 1
    OBVIOUS
  <2>2. PICK s \in ParseState(O) : s = R[m]
    BY <2>1
  <2>3. PICK t : t = R[i]
    OBVIOUS
  <2>4. t = ParseTurn(s, args[m + 1])
    BY <1>3, <2>1, <2>2, <2>3 DEF ParseTurns
  <2>5. ParseOp(args[m + 1].text).op \in O
    BY <1>1, <2>1
  <2>6. ~s.error => Chained(s.groups, args, m)
    BY <1>5, <2>1, <2>2
  <2>7. ~t.error => Chained(t.groups, args, m + 1)
    BY <2>4, <2>5, <2>6, TurnChains
  <2>8. QED
    BY <2>1, <2>3, <2>7
<1>6. n \in S
  <2> HIDE DEF S
  <2>1. 0 .. n \subseteq S
    BY <1>4, <1>5, UpToInduct
  <2>2. QED
    BY <2>1
<1>7. PICK last \in ParseState(O) : last = R[n]
  OBVIOUS
<1>8. ~last.error /\ st.groups = last.groups
  BY <1>3, <1>7 DEF Parsed, ParseState
<1>9. QED
  BY <1>1, <1>6, <1>7, <1>8 DEF ParseState

\* The filters of an operation are those its group begins with.
LEMMA GroupFilters ==
  ASSUME NEW args, NEW group, NEW a, NEW m, NEW b, GroupIs(group, args, a, m, b),
         a = 0 \/ args[a].kind = "op", NEW p \in m + 1 .. b
  PROVE  FiltersOf(args, p) = a + 1 .. m
<1>1. /\ a \in Nat /\ m \in Nat /\ b \in Nat /\ a < m /\ m <= b
      /\ \A j \in a + 1 .. m : args[j].kind # "op"
      /\ \A j \in m + 1 .. b : args[j].kind = "op"
  BY DEF GroupIs
<1>2. ASSUME NEW j \in a + 1 .. m PROVE j \in FiltersOf(args, p)
  <2>1. j \in 1 .. p - 1 /\ args[j].kind # "op"
    BY <1>1
  <2>2. ASSUME NEW k \in j + 1 .. p - 1, args[k].kind # "op" PROVE args[k - 1].kind # "op"
    <3>1. k \notin m + 1 .. b
      BY <1>1, <2>2
    <3>2. k - 1 \in a + 1 .. m
      BY <1>1, <3>1
    <3>3. QED
      BY <1>1, <3>2
  <2>3. QED
    BY <2>1, <2>2 DEF FiltersOf
<1>3. ASSUME NEW j \in FiltersOf(args, p) PROVE j \in a + 1 .. m
  <2>1. /\ j \in 1 .. p - 1 /\ args[j].kind # "op"
        /\ \A k \in j + 1 .. p - 1 : args[k].kind # "op" => args[k - 1].kind # "op"
    BY DEF FiltersOf
  <2>2. j \notin m + 1 .. b
    BY <1>1, <2>1
  <2>3. j <= m
    BY <1>1, <2>1, <2>2
  <2>4. ASSUME j <= a PROVE FALSE
    <3>1. a # 0
      BY <1>1, <2>1, <2>4
    <3>2. PICK k \in Nat : k = a + 1
      BY <1>1
    <3>3. k \in j + 1 .. p - 1 /\ k \in a + 1 .. m /\ k - 1 = a
      BY <1>1, <2>1, <2>4, <3>2
    <3>4. args[k].kind # "op"
      BY <1>1, <3>3
    <3>5. args[a].kind # "op"
      BY <2>1, <3>3, <3>4
    <3>6. QED
      BY <3>1, <3>5
  <2>5. QED
    BY <1>1, <2>1, <2>3, <2>4
<1>4. QED
  BY <1>2, <1>3

\* What a filter matches is what its arguments select.
LEMMA FilterSelects ==
  ASSUME NEW args, NEW a \in Nat, NEW m \in Nat, NEW f, FilterIs(f, args, a, m),
         NEW p, FiltersOf(args, p) = a + 1 .. m, NEW id
  PROVE  Match(f, id) <=> Selects(args, p, id)
<1>1. f \in [Field -> Int] /\ \A k \in Field : FieldIs(f, args, a, m, k)
  BY DEF FilterIs
<1>2. ASSUME Match(f, id), NEW j \in a + 1 .. m, NEW k \in DOMAIN Named(args[j])
      PROVE  \/ id[k] = Named(args[j])[k]
             \/ \E l \in a + 1 .. m : l > j /\ k \in DOMAIN Named(args[l])
  <2>1. k \in Field
    BY DEF Named
  <2>2. FieldIs(f, args, a, m, k) /\ f[k] \in Int
    BY <1>1, <2>1
  <2>3. f[k] >= 0
    BY <2>2 DEF FieldIs
  <2>4. PICK i \in a + 1 .. m : NamesLast(args, m, i, k) /\ f[k] = Named(args[i])[k]
    BY <2>2, <2>3 DEF FieldIs
  <2>5. k \in DOMAIN Named(args[i]) /\ \A l \in i + 1 .. m : k \notin DOMAIN Named(args[l])
    BY <2>4 DEF NamesLast
  <2>6. j \notin i + 1 .. m
    BY <2>5
  <2>7. CASE j = i
    <3>1. f[k] = id[k]
      BY <1>2, <2>1, <2>3 DEF Match
    <3>2. QED
      BY <2>4, <2>7, <3>1
  <2>8. CASE j < i
    BY <2>5, <2>8
  <2>9. QED
    BY <2>6, <2>7, <2>8
<1>3. ASSUME Selects(args, p, id), NEW k \in Field, f[k] >= 0
      PROVE  f[k] = id[k]
  <2>1. FieldIs(f, args, a, m, k)
    BY <1>1
  <2>2. PICK i \in a + 1 .. m : NamesLast(args, m, i, k) /\ f[k] = Named(args[i])[k]
    BY <1>3, <2>1 DEF FieldIs
  <2>3. k \in DOMAIN Named(args[i]) /\ \A l \in i + 1 .. m : k \notin DOMAIN Named(args[l])
    BY <2>2 DEF NamesLast
  <2>4. \/ id[k] = Named(args[i])[k]
        \/ \E l \in a + 1 .. m : l > i /\ k \in DOMAIN Named(args[l])
    BY <1>3, <2>3 DEF Selects
  <2>5. ASSUME NEW l \in a + 1 .. m, l > i PROVE k \notin DOMAIN Named(args[l])
    <3>1. l \in i + 1 .. m
      BY <2>5
    <3>2. QED
      BY <2>3, <3>1
  <2>6. QED
    BY <2>2, <2>4, <2>5
<1>4. Match(f, id) => Selects(args, p, id)
  BY <1>2 DEF Selects
<1>5. Selects(args, p, id) => Match(f, id)
  BY <1>3 DEF Match
<1>6. QED
  BY <1>4, <1>5

\* So the devices of a group are those its operations are for, and the arguments
\* before those are for none.
GroupServes(group, args, a, m, b, d) ==
  /\ \A p \in a + 1 .. m : ~IsFor(args, p, d)
  /\ \A p \in m + 1 .. b : IsFor(args, p, d) <=> Match(group.filter, Targets[d].id)

\* Whichever device: the operations of a group are those for the devices it matches.
LEMMA GroupServesAll ==
  ASSUME NEW args, NEW group, NEW a, NEW m, NEW b, GroupIs(group, args, a, m, b),
         a = 0 \/ args[a].kind = "op", NEW d
  PROVE  GroupServes(group, args, a, m, b, d)
<1>1. /\ a \in Nat /\ m \in Nat /\ FilterIs(group.filter, args, a, m)
      /\ \A j \in a + 1 .. m : args[j].kind # "op"
      /\ \A j \in m + 1 .. b : args[j].kind = "op"
  BY DEF GroupIs
<1>2. \A p \in a + 1 .. m : ~IsFor(args, p, d)
  BY <1>1 DEF IsFor
<1>3. PICK f : f = group.filter
  OBVIOUS
<1>4. PICK id : id = Targets[d].id
  OBVIOUS
<1>5. ASSUME NEW p \in m + 1 .. b PROVE IsFor(args, p, d) <=> Match(f, id)
  <2>1. FiltersOf(args, p) = a + 1 .. m
    BY GroupFilters
  <2>2. Match(f, id) <=> Selects(args, p, id)
    BY <1>1, <1>3, <2>1, FilterSelects
  <2>3. args[p].kind = "op"
    BY <1>1
  <2>4. QED
    BY <1>4, <2>2, <2>3 DEF IsFor
<1>6. QED
  BY <1>2, <1>3, <1>4, <1>5 DEF GroupServes

\* Every group of a command line.
LEMMA ChainServes ==
  ASSUME NEW groups, NEW n \in Nat, NEW args, NEW cut, NEW mid, NEW i,
         Chain(groups, n, args, cut, mid, i), NEW g \in 1 .. n, NEW d
  PROVE  GroupServes(groups[g], args, cut[g - 1], mid[g], cut[g], d)
<1>1. /\ cut \in [0 .. n -> Nat] /\ mid \in [1 .. n -> Nat] /\ cut[0] = 0
      /\ \A h \in 1 .. n : GroupIs(groups[h], args, cut[h - 1], mid[h], cut[h])
      /\ \A h \in 1 .. n - 1 : mid[h] < cut[h]
  BY DEF Chain
<1>2. PICK a : a = cut[g - 1]
  OBVIOUS
<1>3. a = 0 \/ args[a].kind = "op"
  <2>1. CASE g = 1
    BY <1>1, <1>2, <2>1
  <2>2. CASE g # 1
    <3>1. PICK h \in 1 .. n - 1 : h = g - 1
      BY <2>2
    <3>2. PICK m : m = mid[h]
      OBVIOUS
    <3>3. GroupIs(groups[h], args, cut[h - 1], m, a)
      BY <1>1, <1>2, <3>1, <3>2
    <3>4. m \in Nat /\ a \in Nat /\ \A j \in m + 1 .. a : args[j].kind = "op"
      BY <3>3 DEF GroupIs
    <3>5. m < a
      BY <1>1, <1>2, <3>1, <3>2
    <3>6. a \in m + 1 .. a
      BY <3>4, <3>5
    <3>7. QED
      BY <3>4, <3>6
  <2>3. QED
    BY <2>1, <2>2
<1>4. GroupIs(groups[g], args, a, mid[g], cut[g])
  BY <1>1, <1>2
<1>5. PICK group : group = groups[g]
  OBVIOUS
<1>6. PICK m : m = mid[g]
  OBVIOUS
<1>7. PICK b : b = cut[g]
  OBVIOUS
<1>8. GroupServes(group, args, a, m, b, d)
  BY <1>3, <1>4, <1>5, <1>6, <1>7, GroupServesAll
<1>9. QED
  BY <1>2, <1>5, <1>6, <1>7, <1>8

(***************************************************************************)
(* setpci's execution: groups, devices, operations.                        *)
(***************************************************************************)

\* What the registers of a device can hold.
MemoryOf(d) == Registers(DOMAIN Memory[d])

\* The registers of a device after each argument.
AfterEach(f, n, args, d, demo) ==
  /\ f[0] = Memory[d]
  /\ \A i \in 1 .. n :
       f[i] = IF IsFor(args, i, d) THEN ExecArg(args, i, d, f[i - 1], demo).mem ELSE f[i - 1]

\* The recursion RegistersAfter is defined by.
LEMMA AfterIs ==
  ASSUME NEW args, Len(args) \in Nat, OpsHaveValues(args), NEW d \in DOMAIN Targets, NEW demo
  PROVE  /\ RegistersAfter(args, d, demo) \in [0 .. Len(args) -> MemoryOf(d)]
         /\ AfterEach(RegistersAfter(args, d, demo), Len(args), args, d, demo)
<1> DEFINE n == Len(args)
           V == MemoryOf(d)
           turn(i, m) == IF IsFor(args, i, d) THEN ExecArg(args, i, d, m, demo).mem ELSE m
           G == [i \in 1 .. n |-> [m \in V |-> turn(i, m)]]
           Def(f) == f = [i \in 0 .. n |-> IF i = 0 THEN Memory[d] ELSE turn(i, f[i - 1])]
           upto == CHOOSE f : Def(f)
<1>1. n \in Nat
  OBVIOUS
<1>2. Memory[d] \in V
  BY MemoryAssumption DEF MemoryOf, Registers
<1>3. G \in [1 .. n -> [V -> V]]
  <2>1. ASSUME NEW i \in 1 .. n, NEW m \in V PROVE turn(i, m) \in V
    <3>1. HasValues(OpAt(args, i))
      BY DEF OpsHaveValues
    <3>2. ExecArg(args, i, d, m, demo) = ExecOp(OpAt(args, i), Targets[d], m, demo)
      BY DEF ExecArg, OpAt
    <3>3. PICK op : op = OpAt(args, i)
      OBVIOUS
    <3>4. PICK D : D = DOMAIN Memory[d]
      OBVIOUS
    <3>5. m \in Registers(D)
      BY <3>4 DEF MemoryOf
    <3>6. PICK r : r = ExecOp(op, Targets[d], m, demo)
      OBVIOUS
    <3>7. r.mem \in Registers(D)
      BY <3>1, <3>3, <3>5, <3>6, ExecLeaves
    <3>8. QED
      BY <3>2, <3>3, <3>4, <3>6, <3>7 DEF MemoryOf
  <2> HIDE DEF V, turn
  <2>2. QED
    BY <2>1
<1>4. PICK h \in [0 .. n -> V] : Recursively(h, n, Memory[d], G)
  <2> HIDE DEF n, V, G
  <2>1. QED
    BY <1>1, <1>2, <1>3, RecursionExists
<1>5. Def(h)
  <2>1. ASSUME NEW i \in 0 .. n PROVE h[i] = IF i = 0 THEN Memory[d] ELSE turn(i, h[i - 1])
    <3>1. CASE i = 0
      BY <1>4, <3>1 DEF Recursively
    <3>2. CASE i # 0
      <4> HIDE DEF V, turn
      <4>1. i \in 1 .. n /\ h[i - 1] \in V
        BY <1>1, <3>2
      <4>2. h[i] = G[i][h[i - 1]]
        BY <1>4, <4>1 DEF Recursively
      <4>3. QED
        BY <3>2, <4>1, <4>2
    <3>3. QED
      BY <3>1, <3>2
  <2> HIDE DEF V, turn, n
  <2>2. QED
    BY <2>1
<1>6. Def(upto)
  <2> HIDE DEF Def
  <2>1. QED
    BY <1>5
<1>7. RegistersAfter(args, d, demo) = upto
  BY DEF RegistersAfter
<1> HIDE DEF upto
<1>8. upto[0] = Memory[d] /\ \A i \in 1 .. n : upto[i] = turn(i, upto[i - 1])
  <2> HIDE DEF turn
  <2>1. QED
    BY <1>1, <1>6
<1>9. upto \in [0 .. n -> V]
  <2> DEFINE S == {i \in 0 .. n : upto[i] \in V}
  <2>1. 0 \in S
    BY <1>1, <1>2, <1>8
  <2>2. ASSUME NEW i \in 1 .. n, i - 1 \in S PROVE i \in S
    <3> HIDE DEF V, turn, n
    <3>1. upto[i - 1] \in V /\ G[i] \in [V -> V]
      BY <1>3, <2>2
    <3>2. G[i][upto[i - 1]] = turn(i, upto[i - 1])
      BY <3>1
    <3>3. QED
      BY <1>1, <1>8, <3>1, <3>2
  <2>3. 0 .. n \subseteq S
    <3> HIDE DEF S, n
    <3>1. QED
      BY <1>1, <2>1, <2>2, UpToInduct
  <2>4. upto = [i \in 0 .. n |-> upto[i]]
    <3>1. DOMAIN upto = 0 .. n
      <4> HIDE DEF turn, n
      <4>1. QED
        BY <1>6
    <3>2. PICK g : g = [i \in 0 .. n |-> IF i = 0 THEN Memory[d] ELSE turn(i, upto[i - 1])]
      OBVIOUS
    <3>3. upto = g
      BY <1>6, <3>2
    <3>4. g = [i \in 0 .. n |-> g[i]]
      <4> HIDE DEF turn, n
      <4>1. QED
        BY <3>2
    <3>5. QED
      BY <3>3, <3>4
  <2>5. QED
    <3> HIDE DEF V, n
    <3>1. QED
      BY <2>3, <2>4
<1>10. AfterEach(upto, n, args, d, demo)
  BY <1>8 DEF AfterEach
<1>11. QED
  BY <1>7, <1>9, <1>10

\* The registers of every device.
AllMemories ==
  {m \in [DOMAIN Targets -> UNION {MemoryOf(d) : d \in DOMAIN Targets}] :
     \A d \in DOMAIN Targets : m[d] \in MemoryOf(d)}

\* Where execute is.
ExecState == [mem : AllMemories, died : BOOLEAN]

\* A group whose operations have values.
ValuedGroup(group) == \E k \in Nat : DOMAIN group.ops = 1 .. k /\ \A o \in 1 .. k : HasValues(group.ops[o])

\* An operation is run on a device, and a group.
OpRun(t, op, d, demo) ==
  LET r == ExecOp(op, Targets[d], t.mem[d], demo)
  IN  IF t.died THEN t ELSE [mem |-> [t.mem EXCEPT ![d] = r.mem], died |-> r.died]

\* A group is run on a device if it selects it.
DeviceRun(t, group, scanned, d, demo) ==
  IF Selected(group, scanned, Targets[d]) THEN ExecOps(t, group, d, Targets, demo) ELSE t

\* What an operation does to the registers.
OpRuns(u, t, op, d, demo) ==
  IF t.died THEN u = t
  ELSE /\ u.mem[d] = ExecOp(op, Targets[d], t.mem[d], demo).mem
       /\ \A e \in DOMAIN Targets \ {d} : u.mem[e] = t.mem[e]
       /\ u.died => OpDies(op, Targets[d])

\* One device gets other registers.
WithMemory(m, d, x) == [m EXCEPT ![d] = x]

\* The other devices keep theirs.
LEMMA MemoryChanged ==
  ASSUME NEW m \in AllMemories, NEW d \in DOMAIN Targets, NEW x \in MemoryOf(d),
         NEW l, l = WithMemory(m, d, x)
  PROVE  l \in AllMemories /\ l[d] = x /\ \A e \in DOMAIN Targets \ {d} : l[e] = m[e]
<1> DEFINE X == UNION {MemoryOf(e) : e \in DOMAIN Targets}
<1>1. m \in [DOMAIN Targets -> X] /\ \A e \in DOMAIN Targets : m[e] \in MemoryOf(e)
  BY DEF AllMemories
<1>2. x \in X
  OBVIOUS
<1> HIDE DEF X
<1>3. l \in [DOMAIN Targets -> X] /\ l[d] = x /\ \A e \in DOMAIN Targets \ {d} : l[e] = m[e]
  BY <1>1, <1>2 DEF WithMemory
<1>4. \A e \in DOMAIN Targets : l[e] \in MemoryOf(e)
  BY <1>1, <1>3
<1>5. l \in AllMemories
  BY <1>3, <1>4 DEF AllMemories, X
<1>6. QED
  BY <1>3, <1>5

\* An operation changes the registers of its device, as exec_op does.
LEMMA OpRunIs ==
  ASSUME NEW t \in ExecState, NEW op, HasValues(op), NEW d \in DOMAIN Targets, NEW demo,
         NEW u, u = OpRun(t, op, d, demo)
  PROVE  u \in ExecState /\ OpRuns(u, t, op, d, demo)
<1>1. PICK m \in AllMemories : m = t.mem
  BY DEF ExecState
<1>2. PICK r : r = ExecOp(op, Targets[d], m[d], demo)
  OBVIOUS
<1>3. PICK D : D = DOMAIN Memory[d]
  OBVIOUS
<1>4. PICK y \in Registers(D) : y = m[d]
  BY <1>3 DEF AllMemories, MemoryOf
<1>5. PICK dev : dev = Targets[d]
  OBVIOUS
<1>6. r.mem \in Registers(D) /\ r.died \in BOOLEAN /\ (r.died <=> OpDies(op, dev))
  <2>1. r = ExecOp(op, dev, y, demo)
    BY <1>2, <1>4, <1>5
  <2>2. QED
    BY <2>1, ExecLeaves
<1>7. PICK x \in MemoryOf(d) : x = r.mem
  BY <1>3, <1>6 DEF MemoryOf
<1>8. PICK l : l = WithMemory(m, d, x)
  OBVIOUS
<1>9. l \in AllMemories /\ l[d] = x /\ \A e \in DOMAIN Targets \ {d} : l[e] = m[e]
  BY <1>8, MemoryChanged
<1>10. CASE t.died
  BY <1>10 DEF OpRun, OpRuns
<1>11. CASE ~t.died
  <2>1. u = [mem |-> l, died |-> r.died]
    BY <1>1, <1>2, <1>7, <1>8, <1>11 DEF OpRun, WithMemory
  <2>2. u \in ExecState
    BY <1>6, <1>9, <2>1 DEF ExecState
  <2>3. u.mem = l /\ u.died = r.died
    BY <2>1
  <2>4. QED
    BY <1>1, <1>2, <1>5, <1>6, <1>7, <1>9, <1>11, <2>2, <2>3 DEF OpRuns
<1>12. QED
  BY <1>10, <1>11

\* execute's three loops, turn by turn.
OpLoop(R, n, s, group, d, demo) ==
  R[0] = s /\ \A i \in 1 .. n : R[i] = OpRun(R[i - 1], group.ops[i], d, demo)

\* It runs the operations of a group that way,
HasOpLoop(n, s, group, d, demo) ==
  \E R \in [0 .. n -> ExecState] : OpLoop(R, n, s, group, d, demo) /\ R[n] = ExecOps(s, group, d, Targets, demo)

\* the devices,
DeviceLoop(R, n, s, group, scanned, demo) ==
  R[0] = s /\ \A i \in 1 .. n : R[i] = DeviceRun(R[i - 1], group, scanned, i, demo)

\* each with all the operations,
HasDeviceLoop(n, s, group, scanned, demo) ==
  \E R \in [0 .. n -> ExecState] :
    DeviceLoop(R, n, s, group, scanned, demo) /\ R[n] = ExecGroup(s, group, scanned, Targets, demo)

\* and, from the registers as they are,
ExecStart == [mem |-> Memory, died |-> FALSE]

\* the groups,
GroupLoop(R, n, groups, scanned, demo) ==
  R[0] = ExecStart /\ \A i \in 1 .. n : R[i] = ExecGroup(R[i - 1], groups[i], scanned, Targets, demo)

\* each with all the devices.
HasGroupLoop(n, groups, scanned, demo) ==
  \E R \in [0 .. n -> ExecState] :
    GroupLoop(R, n, groups, scanned, demo) /\ R[n] = Execute(groups, scanned, Targets, Memory, demo)

\* Operation after operation,
LEMMA OpsLoop ==
  ASSUME NEW s \in ExecState, NEW group, NEW n \in Nat, DOMAIN group.ops = 1 .. n,
         \A o \in 1 .. n : HasValues(group.ops[o]), NEW d \in DOMAIN Targets, NEW demo
  PROVE  HasOpLoop(n, s, group, d, demo)
<1> DEFINE V == ExecState
           G == [i \in 1 .. n |-> [t \in V |-> OpRun(t, group.ops[i], d, demo)]]
           Turn(f, a) == IF a = {} THEN s ELSE OpRun(f[a \ {Max(a)}], group.ops[Max(a)], d, demo)
           Def(f) == f = [a \in SUBSET (1 .. n) |-> Turn(f, a)]
           iter == CHOOSE f : Def(f)
<1>2. ExecOps(s, group, d, Targets, demo) = iter[1 .. n]
  BY DEF ExecOps, FoldLeft, MapThenFoldSet, OpRun
<1>3. G \in [1 .. n -> [V -> V]]
  <2>1. ASSUME NEW i \in 1 .. n, NEW t \in V PROVE OpRun(t, group.ops[i], d, demo) \in V
    <3>1. PICK op : op = group.ops[i]
      OBVIOUS
    <3>2. HasValues(op)
      BY <3>1
    <3>3. PICK u : u = OpRun(t, op, d, demo)
      OBVIOUS
    <3>4. u \in ExecState
      BY <3>2, <3>3, OpRunIs
    <3>5. QED
      BY <3>1, <3>3, <3>4
  <2> HIDE DEF V
  <2>2. QED
    BY <2>1
<1>4. s \in V
  OBVIOUS
<1>5. PICK it \in [SUBSET (1 .. n) -> V] : IsFold(it, n, s, G)
  <2> HIDE DEF V, G
  <2>1. QED
    BY <1>3, <1>4, FoldExists
<1>6. Def(it)
  <2>1. ASSUME NEW a \in SUBSET (1 .. n) PROVE FoldStep(it, s, G, a) = Turn(it, a)
    <3>1. CASE a = {}
      BY <3>1 DEF FoldStep
    <3>2. CASE a # {}
      <4>1. Max(a) \in 1 .. n /\ a \ {Max(a)} \in SUBSET (1 .. n)
        <5>1. Max(a) \in a
          BY <3>2, LastOfSet
        <5>2. QED
          BY <5>1
      <4>2. it[a \ {Max(a)}] \in V
        BY <4>1
      <4> HIDE DEF V
      <4>4. G[Max(a)][it[a \ {Max(a)}]] = OpRun(it[a \ {Max(a)}], group.ops[Max(a)], d, demo)
        BY <4>1, <4>2
      <4>5. QED
        BY <3>2, <4>4 DEF FoldStep
    <3>3. QED
      BY <3>1, <3>2
  <2> HIDE DEF Turn, G
  <2>2. it = [a \in SUBSET (1 .. n) |-> FoldStep(it, s, G, a)]
    BY <1>5 DEF IsFold
  <2>3. QED
    BY <2>1, <2>2, Zenon
<1>7. Def(iter)
  <2> HIDE DEF Def
  <2>1. QED
    BY <1>6
<1> HIDE DEF iter
<1>8. Folds(iter, n, V, s, G)
  <2>1. iter[{}] = s
    BY <1>7
  <2>2. ASSUME NEW a \in SUBSET (1 .. n), a # {}, iter[a \ {Max(a)}] \in V
        PROVE  iter[a] = G[Max(a)][iter[a \ {Max(a)}]]
    <3>1. iter[a] = Turn(iter, a)
      <4> HIDE DEF Turn
      <4>1. QED
        BY <1>7
    <3>2. Max(a) \in 1 .. n
      BY <2>2, LastOfSet
    <3> HIDE DEF V
    <3>4. G[Max(a)][iter[a \ {Max(a)}]] = OpRun(iter[a \ {Max(a)}], group.ops[Max(a)], d, demo)
      BY <2>2, <3>2
    <3>5. QED
      BY <2>2, <3>1, <3>4
  <2> HIDE DEF G, V
  <2>3. QED
    BY <2>1, <2>2 DEF Folds
<1>9. PICK R \in [0 .. n -> V] : Turns(R, n, s, G) /\ R[n] = iter[1 .. n]
  <2> HIDE DEF G, V, Turn, Def
  <2>1. TurnsTo(n, V, s, G, iter[1 .. n])
    BY <1>3, <1>4, <1>8, FoldTurns
  <2>2. QED
    BY <2>1 DEF TurnsTo
<1>10. ASSUME NEW i \in 1 .. n PROVE R[i] = OpRun(R[i - 1], group.ops[i], d, demo)
  <2> HIDE DEF V
  <2>1. R[i - 1] \in V
    BY <1>9
  <2>2. R[i] = G[i][R[i - 1]]
    BY <1>9 DEF Turns
  <2>3. QED
    BY <2>1, <2>2
<1> HIDE DEF V
<1>11. R[0] = s /\ R[n] = ExecOps(s, group, d, Targets, demo)
  BY <1>2, <1>9 DEF Turns
<1>12. R \in [0 .. n -> ExecState]
  BY <1>9 DEF V
<1>13. QED
  BY <1>10, <1>11, <1>12 DEF OpLoop, HasOpLoop

\* The operations leave execute among its states,
LEMMA OpsStay ==
  ASSUME NEW s \in ExecState, NEW group, ValuedGroup(group), NEW d \in DOMAIN Targets, NEW demo
  PROVE  ExecOps(s, group, d, Targets, demo) \in ExecState
<1>1. PICK n \in Nat : DOMAIN group.ops = 1 .. n /\ \A o \in 1 .. n : HasValues(group.ops[o])
  BY DEF ValuedGroup
<1>2. HasOpLoop(n, s, group, d, demo)
  BY <1>1, OpsLoop
<1>3. PICK R \in [0 .. n -> ExecState] : R[n] = ExecOps(s, group, d, Targets, demo)
  BY <1>2 DEF HasOpLoop
<1>4. R[n] \in ExecState
  OBVIOUS
<1>5. QED
  BY <1>3, <1>4

\* device after device,
LEMMA DevicesLoop ==
  ASSUME NEW s \in ExecState, NEW group, ValuedGroup(group), NEW scanned, NEW demo,
         NEW n \in Nat, DOMAIN Targets = 1 .. n
  PROVE  HasDeviceLoop(n, s, group, scanned, demo)
<1> DEFINE V == ExecState
           ids == [i \in DOMAIN Targets |-> i]
           G == [i \in 1 .. n |-> [t \in V |-> DeviceRun(t, group, scanned, i, demo)]]
           Turn(f, a) == IF a = {} THEN s ELSE DeviceRun(f[a \ {Max(a)}], group, scanned, ids[Max(a)], demo)
           Def(f) == f = [a \in SUBSET (1 .. n) |-> Turn(f, a)]
           iter == CHOOSE f : Def(f)
<1>1. DOMAIN ids = 1 .. n /\ \A i \in 1 .. n : ids[i] = i
  OBVIOUS
<1>2. ExecGroup(s, group, scanned, Targets, demo) = iter[1 .. n]
  <2>1. DOMAIN ids = 1 .. n
    OBVIOUS
  <2>2. QED
    BY <2>1 DEF ExecGroup, FoldLeftDomain, FoldLeft, MapThenFoldSet, DeviceRun
<1>3. G \in [1 .. n -> [V -> V]]
  <2>1. ASSUME NEW i \in 1 .. n, NEW t \in V PROVE DeviceRun(t, group, scanned, i, demo) \in V
    <3>1. i \in DOMAIN Targets
      OBVIOUS
    <3>2. ExecOps(t, group, i, Targets, demo) \in ExecState
      BY <3>1, OpsStay
    <3>3. QED
      BY <3>2 DEF DeviceRun
  <2> HIDE DEF V
  <2>2. QED
    BY <2>1
<1>4. s \in V
  OBVIOUS
<1>5. PICK it \in [SUBSET (1 .. n) -> V] : IsFold(it, n, s, G)
  <2> HIDE DEF V, G
  <2>1. QED
    BY <1>3, <1>4, FoldExists
<1>6. Def(it)
  <2>1. ASSUME NEW a \in SUBSET (1 .. n) PROVE FoldStep(it, s, G, a) = Turn(it, a)
    <3>1. CASE a = {}
      BY <3>1 DEF FoldStep
    <3>2. CASE a # {}
      <4>1. Max(a) \in 1 .. n /\ a \ {Max(a)} \in SUBSET (1 .. n)
        <5>1. Max(a) \in a
          BY <3>2, LastOfSet
        <5>2. QED
          BY <5>1
      <4>2. it[a \ {Max(a)}] \in V
        BY <4>1
      <4>3. ids[Max(a)] = Max(a)
        BY <1>1, <4>1
      <4> HIDE DEF V, ids
      <4>4. G[Max(a)][it[a \ {Max(a)}]] = DeviceRun(it[a \ {Max(a)}], group, scanned, Max(a), demo)
        BY <4>1, <4>2
      <4>5. QED
        BY <3>2, <4>3, <4>4 DEF FoldStep
    <3>3. QED
      BY <3>1, <3>2
  <2> HIDE DEF Turn, G
  <2>2. it = [a \in SUBSET (1 .. n) |-> FoldStep(it, s, G, a)]
    BY <1>5 DEF IsFold
  <2>3. QED
    BY <2>1, <2>2, Zenon
<1>7. Def(iter)
  <2> HIDE DEF Def
  <2>1. QED
    BY <1>6
<1> HIDE DEF iter
<1>8. Folds(iter, n, V, s, G)
  <2>1. iter[{}] = s
    BY <1>7
  <2>2. ASSUME NEW a \in SUBSET (1 .. n), a # {}, iter[a \ {Max(a)}] \in V
        PROVE  iter[a] = G[Max(a)][iter[a \ {Max(a)}]]
    <3>1. iter[a] = Turn(iter, a)
      <4> HIDE DEF Turn
      <4>1. QED
        BY <1>7
    <3>2. Max(a) \in 1 .. n
      BY <2>2, LastOfSet
    <3>3. ids[Max(a)] = Max(a)
      BY <1>1, <3>2
    <3> HIDE DEF V, ids
    <3>4. G[Max(a)][iter[a \ {Max(a)}]] = DeviceRun(iter[a \ {Max(a)}], group, scanned, Max(a), demo)
      BY <2>2, <3>2
    <3>5. QED
      BY <2>2, <3>1, <3>3, <3>4
  <2> HIDE DEF G, V
  <2>3. QED
    BY <2>1, <2>2 DEF Folds
<1>9. PICK R \in [0 .. n -> V] : Turns(R, n, s, G) /\ R[n] = iter[1 .. n]
  <2> HIDE DEF G, V, Turn, Def
  <2>1. TurnsTo(n, V, s, G, iter[1 .. n])
    BY <1>3, <1>4, <1>8, FoldTurns
  <2>2. QED
    BY <2>1 DEF TurnsTo
<1>10. ASSUME NEW i \in 1 .. n PROVE R[i] = DeviceRun(R[i - 1], group, scanned, i, demo)
  <2> HIDE DEF V
  <2>1. R[i - 1] \in V
    BY <1>9
  <2>2. R[i] = G[i][R[i - 1]]
    BY <1>9 DEF Turns
  <2>3. QED
    BY <2>1, <2>2
<1> HIDE DEF V
<1>11. R[0] = s /\ R[n] = ExecGroup(s, group, scanned, Targets, demo)
  BY <1>2, <1>9 DEF Turns
<1>12. R \in [0 .. n -> ExecState]
  BY <1>9 DEF V
<1>13. QED
  BY <1>10, <1>11, <1>12 DEF DeviceLoop, HasDeviceLoop

\* and so do the devices.
LEMMA DevicesStay ==
  ASSUME NEW s \in ExecState, NEW group, ValuedGroup(group), NEW scanned, NEW demo
  PROVE  ExecGroup(s, group, scanned, Targets, demo) \in ExecState
<1>1. PICK n \in Nat : DOMAIN Targets = 1 .. n
  BY TargetsAssumption
<1>2. HasDeviceLoop(n, s, group, scanned, demo)
  BY <1>1, DevicesLoop
<1>3. PICK R \in [0 .. n -> ExecState] : R[n] = ExecGroup(s, group, scanned, Targets, demo)
  BY <1>2 DEF HasDeviceLoop
<1>4. R[n] \in ExecState
  OBVIOUS
<1>5. QED
  BY <1>3, <1>4

\* group after group.
LEMMA GroupsLoop ==
  ASSUME NEW groups, NEW n \in Nat, DOMAIN groups = 1 .. n,
         \A g \in 1 .. n : ValuedGroup(groups[g]), NEW scanned, NEW demo
  PROVE  HasGroupLoop(n, groups, scanned, demo)
<1> DEFINE V == ExecState
           G == [i \in 1 .. n |-> [t \in V |-> ExecGroup(t, groups[i], scanned, Targets, demo)]]
           Turn(f, a) == IF a = {} THEN ExecStart ELSE ExecGroup(f[a \ {Max(a)}], groups[Max(a)], scanned, Targets, demo)
           Def(f) == f = [a \in SUBSET (1 .. n) |-> Turn(f, a)]
           iter == CHOOSE f : Def(f)
<1>2. Execute(groups, scanned, Targets, Memory, demo) = iter[1 .. n]
  BY DEF Execute, FoldLeft, MapThenFoldSet, ExecStart
<1>3. G \in [1 .. n -> [V -> V]]
  <2>1. ASSUME NEW i \in 1 .. n, NEW t \in V PROVE ExecGroup(t, groups[i], scanned, Targets, demo) \in V
    <3>1. PICK group : group = groups[i]
      OBVIOUS
    <3>2. ValuedGroup(group)
      BY <3>1
    <3>3. ExecGroup(t, group, scanned, Targets, demo) \in ExecState
      BY <3>2, DevicesStay
    <3>4. QED
      BY <3>1, <3>3
  <2> HIDE DEF V
  <2>2. QED
    BY <2>1
<1>4. ExecStart \in V
  <2>1. Memory \in AllMemories
    <3>1. ASSUME NEW d \in DOMAIN Targets PROVE Memory[d] \in MemoryOf(d)
      BY MemoryAssumption DEF MemoryOf, Registers
    <3>2. Memory = [d \in DOMAIN Targets |-> Memory[d]]
      BY MemoryAssumption
    <3>3. QED
      BY <3>1, <3>2 DEF AllMemories
  <2>2. QED
    BY <2>1 DEF ExecStart, ExecState
<1>5. PICK it \in [SUBSET (1 .. n) -> V] : IsFold(it, n, ExecStart, G)
  <2> HIDE DEF V, G
  <2>1. QED
    BY <1>3, <1>4, FoldExists
<1>6. Def(it)
  <2>1. ASSUME NEW a \in SUBSET (1 .. n) PROVE FoldStep(it, ExecStart, G, a) = Turn(it, a)
    <3>1. CASE a = {}
      BY <3>1 DEF FoldStep
    <3>2. CASE a # {}
      <4>1. Max(a) \in 1 .. n /\ a \ {Max(a)} \in SUBSET (1 .. n)
        <5>1. Max(a) \in a
          BY <3>2, LastOfSet
        <5>2. QED
          BY <5>1
      <4>2. it[a \ {Max(a)}] \in V
        BY <4>1
      <4> HIDE DEF V
      <4>4. G[Max(a)][it[a \ {Max(a)}]] = ExecGroup(it[a \ {Max(a)}], groups[Max(a)], scanned, Targets, demo)
        BY <4>1, <4>2
      <4>5. QED
        BY <3>2, <4>4 DEF FoldStep
    <3>3. QED
      BY <3>1, <3>2
  <2> HIDE DEF Turn, G
  <2>2. it = [a \in SUBSET (1 .. n) |-> FoldStep(it, ExecStart, G, a)]
    BY <1>5 DEF IsFold
  <2>3. QED
    BY <2>1, <2>2, Zenon
<1>7. Def(iter)
  <2> HIDE DEF Def
  <2>1. QED
    BY <1>6
<1> HIDE DEF iter
<1>8. Folds(iter, n, V, ExecStart, G)
  <2>1. iter[{}] = ExecStart
    BY <1>7
  <2>2. ASSUME NEW a \in SUBSET (1 .. n), a # {}, iter[a \ {Max(a)}] \in V
        PROVE  iter[a] = G[Max(a)][iter[a \ {Max(a)}]]
    <3>1. iter[a] = Turn(iter, a)
      <4> HIDE DEF Turn
      <4>1. QED
        BY <1>7
    <3>2. Max(a) \in 1 .. n
      BY <2>2, LastOfSet
    <3> HIDE DEF V
    <3>4. G[Max(a)][iter[a \ {Max(a)}]] = ExecGroup(iter[a \ {Max(a)}], groups[Max(a)], scanned, Targets, demo)
      BY <2>2, <3>2
    <3>5. QED
      BY <2>2, <3>1, <3>4
  <2> HIDE DEF G, V
  <2>3. QED
    BY <2>1, <2>2 DEF Folds
<1>9. PICK R \in [0 .. n -> V] : Turns(R, n, ExecStart, G) /\ R[n] = iter[1 .. n]
  <2> HIDE DEF G, V, Turn, Def
  <2>1. TurnsTo(n, V, ExecStart, G, iter[1 .. n])
    BY <1>3, <1>4, <1>8, FoldTurns
  <2>2. QED
    BY <2>1 DEF TurnsTo
<1>10. ASSUME NEW i \in 1 .. n PROVE R[i] = ExecGroup(R[i - 1], groups[i], scanned, Targets, demo)
  <2> HIDE DEF V
  <2>1. R[i - 1] \in V
    BY <1>9
  <2>2. R[i] = G[i][R[i - 1]]
    BY <1>9 DEF Turns
  <2>3. QED
    BY <2>1, <2>2
<1> HIDE DEF V
<1>11. R[0] = ExecStart /\ R[n] = Execute(groups, scanned, Targets, Memory, demo)
  BY <1>2, <1>9 DEF Turns
<1>12. R \in [0 .. n -> ExecState]
  BY <1>9 DEF V
<1>13. QED
  BY <1>10, <1>11, <1>12 DEF GroupLoop, HasGroupLoop

\* A command line whose operations have values.
ReadLine(args) == Len(args) \in Nat /\ DOMAIN args = 1 .. Len(args) /\ OpsHaveValues(args)

\* How many arguments each device is past.
Places(args) == [DOMAIN Targets -> 0 .. Len(args)]

\* An operation for a device dies on it.
OneDies(args) ==
  \E i \in DOMAIN args, d \in DOMAIN Targets : IsFor(args, i, d) /\ OpDies(OpAt(args, i), Targets[d])

\* Every device has the operations for it up to its place, or after one died some
\* first part of them.
Follows(s, at, args, demo) ==
  /\ \A d \in DOMAIN Targets :
       IF s.died THEN \E q \in 0 .. Len(args) : s.mem[d] = RegistersAfter(args, d, demo)[q]
       ELSE s.mem[d] = RegistersAfter(args, d, demo)[at[d]]
  /\ s.died => OneDies(args)

\* One device goes to another place.
MovesOne(to, at, d, p) == to[d] = p /\ \A e \in DOMAIN Targets \ {d} : to[e] = at[e]

\* An operation for a device takes that device one argument further.
LEMMA OpFollows ==
  ASSUME NEW args, ReadLine(args), NEW demo, NEW d \in DOMAIN Targets,
         NEW p \in 1 .. Len(args), IsFor(args, p, d), NEW at \in Places(args), at[d] = p - 1,
         NEW to \in Places(args), MovesOne(to, at, d, p),
         NEW t \in ExecState, Follows(t, at, args, demo),
         NEW u, u = OpRun(t, OpAt(args, p), d, demo)
  PROVE  Follows(u, to, args, demo)
<1>1. Len(args) \in Nat /\ DOMAIN args = 1 .. Len(args) /\ OpsHaveValues(args)
  BY DEF ReadLine
<1>2. PICK op : op = OpAt(args, p)
  OBVIOUS
<1>3. HasValues(op)
  BY <1>1, <1>2 DEF OpsHaveValues
<1>4. OpRuns(u, t, op, d, demo)
  BY <1>2, <1>3, OpRunIs
<1>5. CASE t.died
  <2>1. u = t
    BY <1>4, <1>5 DEF OpRuns
  <2>2. QED
    BY <1>5, <2>1 DEF Follows
<1>6. CASE ~t.died
  <2>1. PICK f : f = RegistersAfter(args, d, demo)
    OBVIOUS
  <2>2. AfterEach(f, Len(args), args, d, demo)
    BY <1>1, <2>1, AfterIs
  <2>3. f[p] = ExecArg(args, p, d, f[p - 1], demo).mem
    BY <2>2 DEF AfterEach
  <2>4. t.mem[d] = f[p - 1]
    BY <1>6, <2>1 DEF Follows
  <2>5. u.mem[d] = f[p]
    BY <1>2, <1>4, <1>6, <2>3, <2>4 DEF OpRuns, ExecArg, OpAt
  <2>6. ASSUME NEW e \in DOMAIN Targets PROVE u.mem[e] = RegistersAfter(args, e, demo)[to[e]]
    <3>1. CASE e = d
      BY <2>1, <2>5, <3>1 DEF MovesOne
    <3>2. CASE e # d
      <4>1. u.mem[e] = t.mem[e]
        BY <1>4, <1>6, <3>2 DEF OpRuns
      <4>2. t.mem[e] = RegistersAfter(args, e, demo)[at[e]]
        BY <1>6 DEF Follows
      <4>3. to[e] = at[e]
        BY <3>2 DEF MovesOne
      <4>4. QED
        BY <4>1, <4>2, <4>3
    <3>3. QED
      BY <3>1, <3>2
  <2>7. ASSUME NEW e \in DOMAIN Targets PROVE to[e] \in 0 .. Len(args)
    BY DEF Places
  <2>8. u.died => OneDies(args)
    <3>1. u.died => OpDies(op, Targets[d])
      BY <1>4, <1>6 DEF OpRuns
    <3>2. p \in DOMAIN args
      BY <1>1
    <3>3. QED
      BY <1>2, <3>1, <3>2 DEF OneDies
  <2>9. QED
    BY <2>6, <2>7, <2>8 DEF Follows
<1>7. QED
  BY <1>5, <1>6

\* Arguments that are not for a device change nothing.
LEMMA OthersIdle ==
  ASSUME NEW args, ReadLine(args), NEW demo, NEW d \in DOMAIN Targets,
         NEW a \in 0 .. Len(args), NEW b \in 0 .. Len(args), a <= b,
         \A p \in a + 1 .. b : ~IsFor(args, p, d)
  PROVE  RegistersAfter(args, d, demo)[b] = RegistersAfter(args, d, demo)[a]
<1>1. Len(args) \in Nat /\ OpsHaveValues(args)
  BY DEF ReadLine
<1>2. PICK f : f = RegistersAfter(args, d, demo)
  OBVIOUS
<1>3. AfterEach(f, Len(args), args, d, demo)
  BY <1>1, <1>2, AfterIs
<1>4. PICK n \in Nat : n = b - a
  BY <1>1
<1> DEFINE S == {i \in 0 .. n : f[a + i] = f[a]}
<1>5. 0 \in S
  BY <1>1
<1>6. ASSUME NEW i \in 1 .. n, i - 1 \in S PROVE i \in S
  <2>1. PICK p \in a + 1 .. b : p = a + i
    BY <1>1, <1>4
  <2>2. p \in 1 .. Len(args) /\ p - 1 = a + (i - 1)
    BY <1>1, <2>1
  <2>3. f[p] = f[p - 1]
    BY <1>3, <2>2 DEF AfterEach
  <2>4. QED
    BY <1>6, <2>1, <2>2, <2>3
<1>7. n \in S
  <2> HIDE DEF S
  <2>1. 0 .. n \subseteq S
    BY <1>5, <1>6, UpToInduct
  <2>2. QED
    BY <2>1
<1>8. a + n = b
  BY <1>1, <1>4
<1>9. QED
  BY <1>2, <1>7, <1>8

\* Arguments that change nothing are passed.
LEMMA FollowsOver ==
  ASSUME NEW args, NEW demo, NEW d \in DOMAIN Targets, NEW at, NEW to, NEW p, MovesOne(to, at, d, p),
         NEW t, Follows(t, at, args, demo),
         RegistersAfter(args, d, demo)[p] = RegistersAfter(args, d, demo)[at[d]]
  PROVE  Follows(t, to, args, demo)
<1>1. ASSUME NEW e \in DOMAIN Targets
      PROVE  RegistersAfter(args, e, demo)[to[e]] = RegistersAfter(args, e, demo)[at[e]]
  BY DEF MovesOne
<1>2. QED
  BY <1>1 DEF Follows

\* The operations of a group on a device it selects.
LEMMA OpsFollow ==
  ASSUME NEW args, ReadLine(args), NEW demo, NEW d \in DOMAIN Targets,
         NEW group, NEW a, NEW m, NEW b, GroupIs(group, args, a, m, b), b <= Len(args),
         DOMAIN group.ops = 1 .. b - m, \A p \in m + 1 .. b : IsFor(args, p, d),
         NEW at \in Places(args), at[d] = m, NEW to \in Places(args), MovesOne(to, at, d, b),
         NEW s \in ExecState, Follows(s, at, args, demo)
  PROVE  Follows(ExecOps(s, group, d, Targets, demo), to, args, demo)
<1>1. Len(args) \in Nat /\ OpsHaveValues(args)
  BY DEF ReadLine
<1>2. /\ m \in Nat /\ b \in Nat /\ m <= b
      /\ \A o \in 1 .. b - m : group.ops[o] = OpAt(args, m + o)
  BY DEF GroupIs, OpAt
<1>3. PICK n \in Nat : n = b - m
  BY <1>2
<1>4. ASSUME NEW o \in 1 .. n PROVE HasValues(group.ops[o])
  <2>1. m + o \in 1 .. Len(args)
    BY <1>1, <1>2, <1>3
  <2>2. QED
    BY <1>1, <1>2, <1>3, <2>1 DEF OpsHaveValues
<1>5. HasOpLoop(n, s, group, d, demo)
  BY <1>3, <1>4, OpsLoop
<1>6. PICK R \in [0 .. n -> ExecState] :
        OpLoop(R, n, s, group, d, demo) /\ R[n] = ExecOps(s, group, d, Targets, demo)
  BY <1>5 DEF HasOpLoop
<1> DEFINE place(i) == [e \in DOMAIN Targets |-> IF e = d THEN m + i ELSE at[e]]
           S == {i \in 0 .. n : Follows(R[i], place(i), args, demo)}
<1>7. ASSUME NEW i \in 0 .. n PROVE place(i) \in Places(args)
  <2>1. m + i \in 0 .. Len(args)
    BY <1>1, <1>2, <1>3
  <2>2. QED
    BY <2>1 DEF Places
<1>8. 0 \in S
  <2>1. place(0) = at
    <3>1. \A e \in DOMAIN Targets : place(0)[e] = at[e]
      BY <1>2
    <3>2. QED
      BY <3>1 DEF Places
  <2>2. R[0] = s
    BY <1>6 DEF OpLoop
  <2>3. QED
    BY <2>1, <2>2
<1>9. ASSUME NEW i \in 1 .. n, i - 1 \in S PROVE i \in S
  <2>1. PICK p \in 1 .. Len(args) : p = m + i
    BY <1>1, <1>2, <1>3
  <2>2. IsFor(args, p, d)
    BY <1>2, <1>3, <2>1
  <2>12. i \in 0 .. n /\ i - 1 \in 0 .. n
    OBVIOUS
  <2>13. place(i) \in Places(args) /\ place(i - 1) \in Places(args)
    BY <1>7, <2>12
  <2>3. PICK x \in Places(args) : x = place(i - 1)
    BY <2>13
  <2>4. PICK y \in Places(args) : y = place(i)
    BY <2>13
  <2>5. x[d] = p - 1 /\ MovesOne(y, x, d, p)
    BY <1>2, <2>1, <2>3, <2>4 DEF MovesOne
  <2>6. PICK t \in ExecState : t = R[i - 1]
    OBVIOUS
  <2>7. PICK u : u = R[i]
    OBVIOUS
  <2>8. u = OpRun(t, OpAt(args, p), d, demo)
    BY <1>2, <1>3, <1>6, <2>1, <2>6, <2>7 DEF OpLoop
  <2>9. Follows(t, x, args, demo)
    BY <1>9, <2>3, <2>6
  <2> HIDE DEF place
  <2>10. Follows(u, y, args, demo)
    BY <2>2, <2>5, <2>8, <2>9, OpFollows
  <2>11. QED
    BY <2>4, <2>7, <2>10
<1>10. n \in S
  <2> HIDE DEF S
  <2>1. 0 .. n \subseteq S
    BY <1>8, <1>9, UpToInduct
  <2>2. QED
    BY <2>1
<1>11. place(n) = to
  <2>1. m + n = b
    BY <1>2, <1>3
  <2>2. \A e \in DOMAIN Targets : place(n)[e] = to[e]
    BY <2>1 DEF MovesOne
  <2>3. QED
    BY <2>2 DEF Places
<1>12. QED
  BY <1>6, <1>10, <1>11

\* A group goes from argument a to b, for all devices.
AllAt(p) == [d \in DOMAIN Targets |-> p]

\* It is executed on what it matches, where it has operations.
Executed(group, scanned, m, b) == m = b \/ scanned \/ MatchesSingle(group.filter)

\* On one device, a group does what its arguments tell,
LEMMA DeviceFollows ==
  ASSUME NEW args, ReadLine(args), NEW demo, NEW d \in DOMAIN Targets,
         NEW group, NEW a, NEW m, NEW b, GroupIs(group, args, a, m, b), b <= Len(args),
         DOMAIN group.ops = 1 .. b - m, GroupServes(group, args, a, m, b, d),
         NEW scanned, Executed(group, scanned, m, b),
         NEW at \in Places(args), at[d] = a, NEW to \in Places(args), MovesOne(to, at, d, b),
         NEW t \in ExecState, Follows(t, at, args, demo)
  PROVE  Follows(DeviceRun(t, group, scanned, d, demo), to, args, demo)
<1>1. Len(args) \in Nat
  BY DEF ReadLine
<1>2. a \in Nat /\ m \in Nat /\ b \in Nat /\ a < m /\ m <= b
  BY DEF GroupIs
<1>3. a \in 0 .. Len(args) /\ m \in 0 .. Len(args) /\ b \in 0 .. Len(args) /\ a <= m /\ a <= b
  BY <1>1, <1>2
<1>4. /\ \A p \in a + 1 .. m : ~IsFor(args, p, d)
      /\ \A p \in m + 1 .. b : IsFor(args, p, d) <=> Match(group.filter, Targets[d].id)
  BY DEF GroupServes
<1>5. CASE Selected(group, scanned, Targets[d])
  <2>1. \A p \in m + 1 .. b : IsFor(args, p, d)
    BY <1>4, <1>5 DEF Selected
  <2>2. RegistersAfter(args, d, demo)[m] = RegistersAfter(args, d, demo)[a]
    <3>1. \A p \in a + 1 .. m : ~IsFor(args, p, d)
      BY <1>4
    <3>2. QED
      BY <1>3, <3>1, OthersIdle
  <2>3. PICK mid : mid = [e \in DOMAIN Targets |-> IF e = d THEN m ELSE at[e]]
    OBVIOUS
  <2>4. mid \in Places(args) /\ MovesOne(mid, at, d, m) /\ mid[d] = m /\ MovesOne(to, mid, d, b)
    BY <1>3, <2>3 DEF Places, MovesOne
  <2>5. Follows(t, mid, args, demo)
    BY <2>2, <2>4, FollowsOver
  <2>6. Follows(ExecOps(t, group, d, Targets, demo), to, args, demo)
    BY <2>1, <2>4, <2>5, OpsFollow
  <2>7. QED
    BY <1>5, <2>6 DEF DeviceRun
<1>6. CASE ~Selected(group, scanned, Targets[d])
  <2>1. m = b \/ ~Match(group.filter, Targets[d].id)
    BY <1>6 DEF Selected, Executed
  <2>2. ASSUME NEW p \in a + 1 .. b PROVE ~IsFor(args, p, d)
    <3>1. p \in a + 1 .. m \/ p \in m + 1 .. b
      BY <1>2
    <3>2. m = b => p \in a + 1 .. m
      OBVIOUS
    <3>3. QED
      BY <1>4, <2>1, <3>1, <3>2
  <2>3. RegistersAfter(args, d, demo)[b] = RegistersAfter(args, d, demo)[a]
    BY <1>3, <2>2, OthersIdle
  <2>4. Follows(t, to, args, demo)
    BY <2>3, FollowsOver
  <2>5. QED
    BY <1>6, <2>4 DEF DeviceRun
<1>7. QED
  BY <1>5, <1>6

\* and so on every device.
LEMMA GroupFollows ==
  ASSUME NEW args, ReadLine(args), NEW demo,
         NEW group, NEW a, NEW m, NEW b, GroupIs(group, args, a, m, b), b <= Len(args),
         DOMAIN group.ops = 1 .. b - m, ValuedGroup(group),
         \A d \in DOMAIN Targets : GroupServes(group, args, a, m, b, d),
         NEW scanned, Executed(group, scanned, m, b),
         NEW s \in ExecState, Follows(s, AllAt(a), args, demo)
  PROVE  Follows(ExecGroup(s, group, scanned, Targets, demo), AllAt(b), args, demo)
<1>1. Len(args) \in Nat
  BY DEF ReadLine
<1>2. a \in 0 .. Len(args) /\ b \in 0 .. Len(args)
  BY <1>1 DEF GroupIs
<1>3. PICK n \in Nat : DOMAIN Targets = 1 .. n
  BY TargetsAssumption
<1>4. HasDeviceLoop(n, s, group, scanned, demo)
  BY <1>3, DevicesLoop
<1>5. PICK R \in [0 .. n -> ExecState] :
        DeviceLoop(R, n, s, group, scanned, demo) /\ R[n] = ExecGroup(s, group, scanned, Targets, demo)
  BY <1>4 DEF HasDeviceLoop
<1> DEFINE place(i) == [e \in DOMAIN Targets |-> IF e <= i THEN b ELSE a]
           S == {i \in 0 .. n : Follows(R[i], place(i), args, demo)}
<1>6. ASSUME NEW i PROVE place(i) \in Places(args)
  BY <1>2 DEF Places
<1>7. 0 \in S
  <2>1. place(0) = AllAt(a)
    <3>1. \A e \in DOMAIN Targets : place(0)[e] = a
      BY <1>3
    <3>2. QED
      BY <3>1 DEF AllAt
  <2>2. R[0] = s
    BY <1>5 DEF DeviceLoop
  <2>3. QED
    BY <2>1, <2>2
<1>8. ASSUME NEW i \in 1 .. n, i - 1 \in S PROVE i \in S
  <2>1. PICK x \in Places(args) : x = place(i - 1)
    BY <1>6
  <2>2. PICK y \in Places(args) : y = place(i)
    BY <1>6
  <2>3. x[i] = a /\ MovesOne(y, x, i, b)
    BY <1>3, <2>1, <2>2 DEF MovesOne
  <2>4. i \in DOMAIN Targets
    BY <1>3
  <2>5. PICK t \in ExecState : t = R[i - 1]
    OBVIOUS
  <2>6. R[i] = DeviceRun(t, group, scanned, i, demo)
    BY <1>5, <2>5 DEF DeviceLoop
  <2>7. Follows(t, x, args, demo)
    BY <1>8, <2>1, <2>5
  <2> HIDE DEF place
  <2>8. GroupServes(group, args, a, m, b, i)
    BY <2>4
  <2>9. Follows(DeviceRun(t, group, scanned, i, demo), y, args, demo)
    BY <2>3, <2>4, <2>7, <2>8, DeviceFollows
  <2>10. QED
    BY <2>2, <2>6, <2>9
<1>9. n \in S
  <2> HIDE DEF S
  <2>1. 0 .. n \subseteq S
    BY <1>7, <1>8, UpToInduct
  <2>2. QED
    BY <2>1
<1>10. place(n) = AllAt(b)
  <2>1. \A e \in DOMAIN Targets : place(n)[e] = b
    BY <1>3
  <2>2. QED
    BY <2>1 DEF AllAt
<1>11. QED
  BY <1>5, <1>9, <1>10

\* The ends of the groups are in the command line.
LEMMA CutsInLine ==
  ASSUME NEW groups, NEW n \in Nat, NEW args, NEW cut, NEW mid, NEW l \in Nat,
         Chain(groups, n, args, cut, mid, l), NEW g \in 0 .. n
  PROVE  cut[g] <= l
<1>1. /\ cut \in [0 .. n -> Nat] /\ cut[n] = l
      /\ \A h \in 1 .. n : GroupIs(groups[h], args, cut[h - 1], mid[h], cut[h])
  BY DEF Chain
<1> DEFINE S == {i \in 0 .. n : cut[n - i] <= l}
<1>2. 0 \in S
  BY <1>1
<1>3. ASSUME NEW i \in 1 .. n, i - 1 \in S PROVE i \in S
  <2>1. PICK h \in 1 .. n : h = (n + 1) - i
    OBVIOUS
  <2>2. h - 1 = n - i /\ h = n - (i - 1) /\ h - 1 \in 0 .. n
    BY <2>1
  <2>3. GroupIs(groups[h], args, cut[h - 1], mid[h], cut[h])
    BY <1>1
  <2>4. cut[h - 1] \in Nat /\ mid[h] \in Nat /\ cut[h] \in Nat /\ cut[h - 1] < mid[h] /\ mid[h] <= cut[h]
    BY <2>3 DEF GroupIs
  <2>5. cut[h] <= l
    BY <1>3, <2>2
  <2>6. cut[n - i] <= l
    BY <2>2, <2>4, <2>5
  <2>7. QED
    BY <2>6
<1>4. n - g \in S
  <2> HIDE DEF S
  <2>1. 0 .. n \subseteq S
    BY <1>2, <1>3, UpToInduct
  <2>2. QED
    BY <2>1
<1>5. n - (n - g) = g
  OBVIOUS
<1>6. QED
  BY <1>4, <1>5

\* All groups.
LEMMA ExecutionFollows ==
  ASSUME NEW args, ReadLine(args), NEW demo, NEW O, \A op \in O : HasValues(op),
         NEW groups \in Seq(GroupOf(O)), Chained(groups, args, Len(args)), NEW scanned,
         \A g \in DOMAIN groups :
           groups[g].ops # <<>> => scanned \/ MatchesSingle(groups[g].filter)
  PROVE  /\ Execute(groups, scanned, Targets, Memory, demo) \in ExecState
         /\ Follows(Execute(groups, scanned, Targets, Memory, demo), AllAt(Len(args)), args, demo)
<1>1. PICK l \in Nat : l = Len(args)
  BY DEF ReadLine
<1>2. PICK n \in Nat : n = Len(groups)
  OBVIOUS
<1>3. PICK cut \in [0 .. n -> Nat], mid \in [1 .. n -> Nat] : Chain(groups, n, args, cut, mid, l)
  BY <1>1, <1>2 DEF Chained
<1>4. /\ cut[0] = 0 /\ cut[n] = l
      /\ \A g \in 1 .. n : GroupIs(groups[g], args, cut[g - 1], mid[g], cut[g])
  BY <1>3 DEF Chain
<1>5. ASSUME NEW g \in 1 .. n
      PROVE  /\ DOMAIN groups[g].ops = 1 .. cut[g] - mid[g] /\ ValuedGroup(groups[g])
             /\ Executed(groups[g], scanned, mid[g], cut[g])
  <2>1. PICK group \in GroupOf(O) : group = groups[g]
    BY <1>2
  <2>2. PICK ops \in Seq(O) : ops = group.ops
    BY DEF GroupOf
  <2>3. GroupIs(group, args, cut[g - 1], mid[g], cut[g])
    BY <1>4, <2>1
  <2>4. PICK k : k = cut[g] - mid[g]
    OBVIOUS
  <2>5. Len(ops) = k /\ mid[g] \in Nat /\ cut[g] \in Nat
    BY <2>2, <2>3, <2>4 DEF GroupIs
  <2>6. DOMAIN ops = 1 .. k /\ k \in Nat /\ \A o \in 1 .. k : ops[o] \in O
    BY <2>5
  <2>7. ValuedGroup(group)
    BY <2>2, <2>6 DEF ValuedGroup
  <2>8. Executed(group, scanned, mid[g], cut[g])
    <3>1. CASE ops = <<>>
      <4>1. k = 0
        BY <2>5, <3>1
      <4>2. mid[g] = cut[g]
        BY <2>4, <2>5, <4>1
      <4>3. QED
        BY <4>2 DEF Executed
    <3>2. CASE ops # <<>>
      <4>1. g \in DOMAIN groups
        BY <1>2
      <4>2. QED
        BY <2>1, <2>2, <3>2, <4>1 DEF Executed
    <3>3. QED
      BY <3>1, <3>2
  <2>9. QED
    BY <2>1, <2>2, <2>4, <2>6, <2>7, <2>8
<1>6. DOMAIN groups = 1 .. n
  BY <1>2
<1>7. HasGroupLoop(n, groups, scanned, demo)
  BY <1>5, <1>6, GroupsLoop
<1>8. PICK R \in [0 .. n -> ExecState] :
        GroupLoop(R, n, groups, scanned, demo) /\ R[n] = Execute(groups, scanned, Targets, Memory, demo)
  BY <1>7 DEF HasGroupLoop
<1> DEFINE S == {i \in 0 .. n : Follows(R[i], AllAt(cut[i]), args, demo)}
<1>9. 0 \in S
  <2>1. R[0] = ExecStart
    BY <1>8 DEF GroupLoop
  <2>2. ASSUME NEW d \in DOMAIN Targets PROVE Memory[d] = RegistersAfter(args, d, demo)[AllAt(cut[0])[d]]
    <3>1. Len(args) \in Nat /\ OpsHaveValues(args)
      BY DEF ReadLine
    <3>2. AfterEach(RegistersAfter(args, d, demo), Len(args), args, d, demo)
      BY <3>1, AfterIs
    <3>3. RegistersAfter(args, d, demo)[0] = Memory[d]
      BY <3>2 DEF AfterEach
    <3>4. AllAt(cut[0])[d] = 0
      BY <1>4 DEF AllAt
    <3>5. QED
      BY <3>3, <3>4
  <2>3. Follows(ExecStart, AllAt(cut[0]), args, demo)
    BY <2>2 DEF ExecStart, Follows
  <2>4. QED
    BY <2>1, <2>3
<1>10. ASSUME NEW i \in 1 .. n, i - 1 \in S PROVE i \in S
  <2>1. PICK s \in ExecState : s = R[i - 1]
    OBVIOUS
  <2>2. PICK group : group = groups[i]
    OBVIOUS
  <2>3. PICK a : a = cut[i - 1]
    OBVIOUS
  <2>4. PICK m : m = mid[i]
    OBVIOUS
  <2>5. PICK b : b = cut[i]
    OBVIOUS
  <2>6. GroupIs(group, args, a, m, b)
    BY <1>4, <2>2, <2>3, <2>4, <2>5
  <2>7. b <= Len(args)
    BY <1>1, <1>3, <2>5, CutsInLine
  <2>8. DOMAIN group.ops = 1 .. b - m /\ ValuedGroup(group) /\ Executed(group, scanned, m, b)
    BY <1>5, <2>2, <2>4, <2>5
  <2>9. \A d \in DOMAIN Targets : GroupServes(group, args, a, m, b, d)
    BY <1>3, <2>2, <2>3, <2>4, <2>5, ChainServes
  <2>10. Follows(s, AllAt(a), args, demo)
    BY <1>10, <2>1, <2>3
  <2>11. Follows(ExecGroup(s, group, scanned, Targets, demo), AllAt(b), args, demo)
    BY <2>6, <2>7, <2>8, <2>9, <2>10, GroupFollows
  <2>12. R[i] = ExecGroup(s, group, scanned, Targets, demo)
    BY <1>8, <2>1, <2>2 DEF GroupLoop
  <2>13. QED
    BY <2>5, <2>11, <2>12
<1>11. n \in S
  <2> HIDE DEF S
  <2>1. 0 .. n \subseteq S
    BY <1>9, <1>10, UpToInduct
  <2>2. QED
    BY <2>1
<1>12. R[n] \in ExecState
  OBVIOUS
<1>13. Follows(R[n], AllAt(l), args, demo)
  BY <1>4, <1>11
<1>14. QED
  BY <1>1, <1>8, <1>12, <1>13

\* A command line that is read is executed as told.
LEMMA LineFollowed ==
  ASSUME NEW args \in CommandLines, NEW demo, NEW raw, ~ParseOps(args).error,
         NEW result, result = RunSetpci(args, [demo |-> demo, raw |-> raw], Targets, Memory)
  PROVE  /\ ReadLine(args) /\ result \in ExecState
         /\ Follows(result, AllAt(Len(args)), args, demo)
<1>1. PICK A : A = ToSet(args)
  OBVIOUS
<1>2. args \in Seq(A) /\ \A arg \in A : arg.text \in Seq(ToSet(arg.text))
  BY <1>1, CommandLinesAssumption
<1>3. PICK O : O = {ParseOp(arg.text).op : arg \in A}
  OBVIOUS
<1>4. ASSUME NEW arg \in A PROVE ParseOp(arg.text).op \in O /\ HasValues(ParseOp(arg.text).op)
  <2>1. PICK text : text = arg.text
    OBVIOUS
  <2>2. text \in Seq(ToSet(text))
    BY <1>2, <2>1
  <2>3. HasValues(ParseOp(text).op)
    BY <2>2, ParsedHasValues
  <2>4. QED
    BY <1>3, <2>1, <2>3
<1>5. \A op \in O : HasValues(op)
  BY <1>3, <1>4
<1>6. ReadLine(args)
  <2>1. Len(args) \in Nat /\ DOMAIN args = 1 .. Len(args)
    BY <1>2
  <2>2. ASSUME NEW i \in 1 .. Len(args) PROVE HasValues(OpAt(args, i))
    <3>1. args[i] \in A
      BY <1>2
    <3>2. QED
      BY <1>4, <3>1 DEF OpAt
  <2>3. QED
    BY <2>1, <2>2 DEF ReadLine, OpsHaveValues
<1>7. PICK st : st = ParseOps(args)
  OBVIOUS
<1>8. st.groups \in Seq(GroupOf(O)) /\ Chained(st.groups, args, Len(args))
  <2>1. ~st.error
    BY <1>7
  <2>2. \A arg \in A : ParseOp(arg.text).op \in O
    BY <1>4
  <2>3. QED
    BY <1>2, <1>7, <2>1, <2>2, ParsedChained
<1>9. PICK groups \in Seq(GroupOf(O)) : groups = st.groups
  BY <1>8
<1>10. PICK scanned : scanned = NeedsScan(groups, raw)
  OBVIOUS
<1>11. result = Execute(groups, scanned, Targets, Memory, demo)
  BY <1>7, <1>9, <1>10 DEF RunSetpci, RunParsed
<1>12. \A g \in DOMAIN groups :
         groups[g].ops # <<>> => scanned \/ MatchesSingle(groups[g].filter)
  BY <1>10 DEF NeedsScan
<1>13. Chained(groups, args, Len(args))
  BY <1>8, <1>9
<1>14. /\ Execute(groups, scanned, Targets, Memory, demo) \in ExecState
       /\ Follows(Execute(groups, scanned, Targets, Memory, demo), AllAt(Len(args)), args, demo)
  BY <1>5, <1>6, <1>12, <1>13, ExecutionFollows
<1>15. QED
  BY <1>6, <1>11, <1>14

\* Whatever the command line: each device gets the operations for it, all or, where
\* one dies, a first part.
THEOREM SelectionHolds == Spec => []SelectedDevicesGetTheirOps
<1>1. OpsReturned => SelectedDevicesGetTheirOps
  <2>1. SUFFICES ASSUME OpsReturned, call.fn = "setpci"
                 PROVE  SelectedDevicesGetTheirOps
    BY DEF SelectedDevicesGetTheirOps
  <2>2. PICK args \in CommandLines : args = call.args
    BY <2>1 DEF OpsReturned
  <2>3. PICK demo : demo = call.demo
    OBVIOUS
  <2>4. PICK raw : raw = call.raw
    OBVIOUS
  <2>5. PICK result : result = RunSetpci(args, [demo |-> demo, raw |-> raw], Targets, Memory)
    OBVIOUS
  <2>6. call.result = result
    BY <2>1, <2>2, <2>3, <2>4, <2>5 DEF OpsReturned
  <2>7. CASE ParseOps(args).error
    <3>1. result.mem = Memory
      BY <2>5, <2>7 DEF RunSetpci, RunParsed
    <3>2. QED
      BY <2>1, <2>2, <2>6, <2>7, <3>1 DEF SelectedDevicesGetTheirOps
  <2>8. CASE ~ParseOps(args).error
    <3>1. ReadLine(args) /\ result \in ExecState /\ Follows(result, AllAt(Len(args)), args, demo)
      BY <2>5, <2>8, LineFollowed
    <3>2. Len(args) \in Nat /\ DOMAIN args = 1 .. Len(args) /\ OpsHaveValues(args)
      BY <3>1 DEF ReadLine
    <3>3. ASSUME result.died
          PROVE  \E i \in DOMAIN args, d \in DOMAIN Targets :
                   IsFor(args, i, d) /\ ExecArg(args, i, d, Memory[d], demo).died
      <4>1. PICK i \in DOMAIN args, d \in DOMAIN Targets :
              IsFor(args, i, d) /\ OpDies(OpAt(args, i), Targets[d])
        BY <3>1, <3>3 DEF Follows, OneDies
      <4>2. PICK op : op = OpAt(args, i)
        OBVIOUS
      <4>3. PICK dev : dev = Targets[d]
        OBVIOUS
      <4>4. HasValues(op)
        BY <3>2, <4>2 DEF OpsHaveValues
      <4>5. PICK D : D = DOMAIN Memory[d]
        OBVIOUS
      <4>6. PICK m \in Registers(D) : m = Memory[d]
        BY <4>5, MemoryAssumption DEF Registers
      <4>7. PICK r : r = ExecOp(op, dev, m, demo)
        OBVIOUS
      <4>8. r.died <=> OpDies(op, dev)
        BY <4>4, <4>7, ExecLeaves
      <4>9. r = ExecArg(args, i, d, Memory[d], demo)
        BY <4>2, <4>3, <4>6, <4>7 DEF ExecArg, OpAt
      <4>10. QED
        BY <4>1, <4>2, <4>3, <4>8, <4>9
    <3>4. ASSUME NEW d \in DOMAIN Targets
          PROVE  \E n \in 0 .. Len(args) :
                   /\ result.mem[d] = RegistersAfter(args, d, demo)[n]
                   /\ ~result.died => n = Len(args)
      <4>1. CASE result.died
        BY <3>1, <4>1 DEF Follows
      <4>2. CASE ~result.died
        <5>1. AllAt(Len(args))[d] = Len(args)
          BY DEF AllAt
        <5>2. result.mem[d] = RegistersAfter(args, d, demo)[Len(args)]
          BY <3>1, <4>2, <5>1 DEF Follows
        <5>3. Len(args) \in 0 .. Len(args)
          BY <3>2
        <5>4. QED
          BY <5>2, <5>3
      <4>3. QED
        BY <4>1, <4>2
    <3>5. QED
      BY <2>1, <2>2, <2>3, <2>6, <2>8, <3>3, <3>4, Zenon DEF SelectedDevicesGetTheirOps
  <2>9. QED
    BY <2>7, <2>8
<1>2. QED
  BY <1>1, AlwaysOpsReturned, PTL

\* What parse_op accepts can be done, and setpci does it, nothing else, and to the
\* devices that were selected.
THEOREM OperationsExact == Spec => []OperationsDoAsTold
BY AcceptedFit, MasksHold, SelectionHolds, PTL DEF OperationsDoAsTold
=============================================================================
