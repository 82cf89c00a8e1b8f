--------------------------- MODULE CapListProofs ---------------------------
(***************************************************************************)
(* What CapList promises, for chains of any shape and length, requests in  *)
(* any order and any number of capabilities: the list is well formed, it   *)
(* stands for the chains, and pci_find_cap finds the first of the chain.   *)
(*                                                                         *)
(* The invariant says how far a scan has come: what it has listed can be   *)
(* reached, and whatever follows is listed or is next.  When the scan ends *)
(* the list is closed, so that it is all that can be reached; and with the *)
(* chain cut where the scan stands, it is all that comes before.           *)
(***************************************************************************)
EXTENDS CapList, TLAPS

\* A chain whose pointers stay within its positions.
IsChain(c) ==
  /\ 0 \notin DOMAIN c.cap
  /\ c.first \in DOMAIN c.cap \cup {0}
  /\ \A w \in DOMAIN c.cap : c.cap[w].next \in DOMAIN c.cap \cup {0}

\* A scan of chain c has been at the positions in b and stands at w.
Progress(c, b, w) ==
  /\ b \subseteq Reachable(c)
  /\ Alive(c, w) => w \in Reachable(c)
  /\ Alive(c, c.first) => c.first \in b \cup {w}
  /\ \A v \in b : Alive(c, c.cap[v].next) => c.cap[v].next \in b \cup {w}

----------------------------------------------------------------------------
\* Facts about chains.

\* What can be reached holds the first capability and with each the next one.
LEMMA ReachableIsClosed ==
  ASSUME NEW c, IsChain(c)
  PROVE  Closed(c, Reachable(c))
<1>1. Alive(c, c.first) => c.first \in Reachable(c)
  BY DEF Alive, Reachable, Closed, IsChain
<1>2. ASSUME NEW w \in Reachable(c), Alive(c, c.cap[w].next)
      PROVE  c.cap[w].next \in Reachable(c)
  BY <1>2 DEF Alive, Reachable, Closed, IsChain
<1>3. QED
  BY <1>1, <1>2 DEF Closed

\* A scan that begins has been nowhere and stands at the first capability.
LEMMA ProgressBegins ==
  ASSUME NEW c, IsChain(c)
  PROVE  Progress(c, {}, c.first)
BY ReachableIsClosed DEF Progress, Closed

\* One turn of the loop.
LEMMA ProgressTurn ==
  ASSUME NEW c, NEW b, NEW w, IsChain(c), Progress(c, b, w), Alive(c, w)
  PROVE  Progress(c, b \cup {w}, c.cap[w].next)
BY ReachableIsClosed DEF Progress, Closed

\* When it ends, the scan has been at all that can be reached.
LEMMA ProgressEnds ==
  ASSUME NEW c, NEW b, NEW w, IsChain(c), Progress(c, b, w),
         w \in b \/ ~Alive(c, w)
  PROVE  b = Reachable(c)
<1>1. Closed(c, b)
  BY DEF Progress, Closed
<1>2. b \subseteq DOMAIN c.cap
  BY DEF Progress, Reachable
<1>3. QED
  BY <1>1, <1>2 DEF Progress, Reachable

\* What comes before the place the scan stands at, it has been at.
LEMMA ProgressIsBefore ==
  ASSUME NEW c, NEW b, NEW w \in DOMAIN c.cap, IsChain(c), Progress(c, b, w)
  PROVE  Before(c, w) \subseteq b
<1> DEFINE d == [first |-> c.first, cap |-> [c.cap EXCEPT ![w] = Broken]]
<1>1. /\ d.first = c.first /\ DOMAIN d.cap = DOMAIN c.cap
      /\ d.cap[w] = Broken
      /\ \A v \in DOMAIN c.cap \ {w} : d.cap[v] = c.cap[v]
  OBVIOUS
<1> HIDE DEF d
<1>2. \A v \in DOMAIN c.cap \cup {0} : Alive(d, v) => Alive(c, v) /\ v # w
  BY <1>1 DEF Alive, Broken
<1>3. b \subseteq DOMAIN c.cap
  BY DEF Progress, Reachable
<1>4. Closed(d, b)
  <2>1. ASSUME Alive(d, d.first) PROVE d.first \in b
    BY <1>1, <1>2, <2>1 DEF Progress, IsChain
  <2>2. ASSUME NEW v \in b, Alive(d, d.cap[v].next) PROVE d.cap[v].next \in b
    <3>1. v # w
      BY <1>1, <1>2, <2>2 DEF Alive, Broken
    <3>2. d.cap[v] = c.cap[v] /\ c.cap[v].next \in DOMAIN c.cap \cup {0}
      BY <1>1, <1>3, <3>1 DEF IsChain
    <3>3. QED
      BY <1>2, <2>2, <3>2 DEF Progress
  <2>3. QED
    BY <2>1, <2>2 DEF Closed
<1>5. Reachable(d) \subseteq b
  BY <1>1, <1>3, <1>4 DEF Reachable
<1>6. QED
  BY <1>5 DEF Before, d

\* Both chains of a state are chains.
LEMMA ChainsAreChains ==
  ASSUME TypeOK
  PROVE  /\ IsChain(trad) /\ DOMAIN trad.cap = Positions
         /\ IsChain(ext) /\ DOMAIN ext.cap = ExtPositions
         /\ trad.first \in Positions \cup {0} /\ ext.first \in ExtPositions
BY PositionsAssumption DEF TypeOK, Chains, Broken, IsChain

----------------------------------------------------------------------------
(***************************************************************************)
(* The invariant.                                                          *)
(***************************************************************************)

HasExp == \E w \in Reachable(trad) : trad.cap[w].id = Exp
SoughtField == IF sought.type = "normal" THEN "caps" ELSE "ext"

\* Which calls are under way, and what is known by then.
Calls ==
  /\ \A i \in DOMAIN nodes : nodes[i].next \in 0 .. Len(nodes)
  /\ pc = "trad" => where \in Positions \cup {0}
  /\ pc = "ext" => where \in ExtPositions \cup {0} /\ "ext" \in want
  /\ pc = "free" => known = {}
  /\ nested => pc \in {"trad", "search"} /\ "ext" \in want
  /\ pc \in {"fill", "trad", "ext"} \/ nested => "ext" \notin want \cap known
  /\ "ext" \in want /\ pc \in {"trad", "ext", "search"} => "caps" \in want \cup known
  /\ pc \in {"ext", "search"} \/ "ext" \in known => "caps" \in known
  /\ pc = "trad" => nested \/ "caps" \in want
  /\ pc = "search" => nested \/ sought # NoSearch
  /\ sought # NoSearch =>
       /\ SoughtField \in want \cup known
       /\ pc = "idle" \/ (pc = "search" /\ ~nested) => SoughtField \in known

\* How far a scan has come.
ScanProgress ==
  /\ pc = "trad" => Progress(trad, been, where) /\ been \subseteq Listed("normal")
  /\ pc = "ext" => Progress(ext, been, where) /\ been = Listed("extended") /\ HasExp

\* What is known is listed, and only then are extended capabilities.
KnownIsListed ==
  /\ "caps" \in known => Listed("normal") = Reachable(trad)
  /\ "ext" \in known => Listed("extended") = IF HasExp THEN Reachable(ext) ELSE {}
  /\ "ext" \notin known /\ pc \notin {"free", "ext"} => Listed("extended") = {}

\* What is listed can be reached, and the extended ones only for PCI Express.
ListedIsReachable ==
  \A i \in DOMAIN nodes :
    /\ nodes[i].addr \in Reachable(Chain(nodes[i].type))
    /\ nodes[i].id = Chain(nodes[i].type).cap[nodes[i].addr].id
    /\ nodes[i].type = "extended" => HasExp

\* Extended capabilities are listed once.
ListedOnce ==
  \A i, j \in DOMAIN nodes :
    /\ nodes[i].type = "extended" /\ nodes[j].type = "extended"
    /\ nodes[i].addr = nodes[j].addr
    => i = j

\* The list follows the chain.
ListedInOrder ==
  \A i \in DOMAIN nodes :
    \A v \in Before(Chain(nodes[i].type), nodes[i].addr) :
      \E j \in 1 .. i - 1 : nodes[j].type = nodes[i].type /\ nodes[j].addr = v

\* What is said of the capabilities alone.
NodesInv == ListedIsReachable /\ ListedOnce /\ ListedInOrder

\* The nodes pci_find_cap_nr has passed.
Passed == IF at = 0 THEN Len(nodes) ELSE at - 1

\* What a search for the first capability has found.
FoundIsFirst ==
  (pc = "search" \/ (pc = "idle" /\ sought # NoSearch)) /\ Looking.target = 0 =>
    /\ pc = "idle" => at = 0
    /\ IF found = 0
       THEN index = 0 /\ \A i \in 1 .. Passed : ~Matches(i, Looking)
       ELSE /\ index > 0 /\ found <= Passed /\ Matches(found, Looking)
            /\ \A i \in 1 .. found - 1 : ~Matches(i, Looking)

ListInv ==
  IF Rescanned THEN pc # "free" => first = 0
  ELSE NodesInv /\ ScanProgress /\ KnownIsListed /\ FoundIsFirst

CapListInv == TypeOK /\ Calls /\ ListInv

----------------------------------------------------------------------------
(***************************************************************************)
(* Types and calls.                                                        *)
(***************************************************************************)

\* Setting the pointer of a capability leaves the rest of it.
LEMMA Relinked ==
  ASSUME NEW c \in Nodes, NEW n \in Nat
  PROVE  LET d == [c EXCEPT !.next = n]
         IN  /\ d \in Nodes /\ d.next = n
             /\ d.addr = c.addr /\ d.id = c.id /\ d.type = c.type
BY DEF Nodes

\* What pci_add_cap does to the list: the capabilities stay as they are but for
\* the pointer of the last, and the new one is behind them.
LEMMA Added ==
  ASSUME TypeOK, NEW chain, NEW type, AddCap(chain, type),
         [addr |-> where, id |-> chain.cap[where].id, type |-> type, next |-> 0] \in Nodes
  PROVE  /\ nodes' \in Seq(Nodes)
         /\ Len(nodes') = Len(nodes) + 1 /\ DOMAIN nodes' = 1 .. Len(nodes) + 1
         /\ nodes'[Len(nodes) + 1] =
              [addr |-> where, id |-> chain.cap[where].id, type |-> type, next |-> 0]
         /\ \A i \in DOMAIN nodes :
              /\ nodes'[i].addr = nodes[i].addr /\ nodes'[i].id = nodes[i].id
              /\ nodes'[i].type = nodes[i].type
              /\ nodes'[i].next = IF i = last THEN Len(nodes) + 1 ELSE nodes[i].next
<1> DEFINE n == Len(nodes) + 1
           new == [addr |-> where, id |-> chain.cap[where].id, type |-> type, next |-> 0]
           linked == Linked(n)
<1>0. last = Len(nodes) /\ nodes \in Seq(Nodes) /\ Len(nodes) \in Nat /\ DOMAIN nodes = 1 .. Len(nodes)
  BY DEF TypeOK
<1>1. \A i \in DOMAIN nodes : nodes[i] \in Nodes
  BY <1>0
<1>2. nodes' = Append(linked, new)
  BY DEF AddCap
<1>3. \A i \in DOMAIN nodes : linked[i] = IF i = last THEN [nodes[i] EXCEPT !.next = n] ELSE nodes[i]
  BY Zenon DEF Linked
<1>4. DOMAIN linked = DOMAIN nodes /\ linked = [i \in DOMAIN nodes |-> linked[i]]
  BY Zenon DEF Linked
<1> HIDE DEF linked
<1>5. \A i \in DOMAIN nodes :
        /\ linked[i] \in Nodes /\ linked[i].addr = nodes[i].addr /\ linked[i].id = nodes[i].id
        /\ linked[i].type = nodes[i].type
        /\ linked[i].next = IF i = last THEN n ELSE nodes[i].next
  <2> TAKE i \in DOMAIN nodes
  <2>1. n \in Nat /\ nodes[i] \in Nodes
    BY <1>0, <1>1
  <2>2. CASE i = last
    <3> DEFINE d == [nodes[i] EXCEPT !.next = n]
    <3>1. /\ d \in Nodes /\ d.next = n
          /\ d.addr = nodes[i].addr /\ d.id = nodes[i].id /\ d.type = nodes[i].type
      BY <2>1, Relinked
    <3>2. linked[i] = d
      BY <1>3, <2>2, Zenon
    <3> HIDE DEF d
    <3>3. QED
      BY <2>2, <3>1, <3>2
  <2>3. CASE i # last
    <3>1. linked[i] = nodes[i]
      BY <1>3, <2>3, Zenon
    <3>2. QED
      BY <2>1, <2>3, <3>1
  <2>4. QED
    BY <2>2, <2>3
<1>6. linked \in Seq(Nodes) /\ Len(linked) = Len(nodes)
  BY <1>0, <1>4, <1>5
<1> HIDE DEF new
<1>7. /\ nodes' \in Seq(Nodes) /\ Len(nodes') = n /\ DOMAIN nodes' = 1 .. n /\ nodes'[n] = new
      /\ \A i \in DOMAIN nodes : nodes'[i] = linked[i]
  BY <1>0, <1>2, <1>6 DEF new
<1>8. QED
  BY <1>5, <1>7 DEF new

\* One turn of a scan keeps the list well formed.
LEMMA TurnTypes ==
  ASSUME TypeOK, \A i \in DOMAIN nodes : nodes[i].next \in 0 .. Len(nodes),
         NEW chain, NEW type \in Types, Turn(chain, type), 
         DOMAIN chain.cap \subseteq Positions \cup ExtPositions,
         where \in DOMAIN chain.cap \cup {0}, IsChain(chain),
         \A w \in DOMAIN chain.cap : chain.cap[w].id \in Ids \cup ExtIds \cup {"broken"}
  PROVE  TypeOK' /\ \A i \in DOMAIN nodes' : nodes'[i].next \in 0 .. Len(nodes')
<1>0. last = Len(nodes) /\ nodes \in Seq(Nodes) /\ Len(nodes) \in Nat /\ DOMAIN nodes = 1 .. Len(nodes)
  BY DEF TypeOK
<1>1. AddCap(chain, type) /\ where \in DOMAIN chain.cap /\ chain.cap[where].id \in Ids \cup ExtIds
  BY DEF Turn, GoesOn
<1>2. [addr |-> where, id |-> chain.cap[where].id, type |-> type, next |-> 0] \in Nodes
  BY <1>1 DEF Nodes
<1>3. /\ nodes' \in Seq(Nodes)
      /\ Len(nodes') = Len(nodes) + 1 /\ DOMAIN nodes' = 1 .. Len(nodes) + 1
      /\ nodes'[Len(nodes) + 1].next = 0
      /\ \A i \in DOMAIN nodes : nodes'[i].next = IF i = last THEN Len(nodes) + 1 ELSE nodes[i].next
  BY <1>1, <1>2, Added
<1>4. last' = Len(nodes) + 1 /\ freed' = freed /\ first' = IF last = 0 THEN Len(nodes) + 1 ELSE first
  BY <1>1 DEF AddCap
<1>5. nodes' # <<>>
  BY <1>3
<1>6. ~Rescanned' =>
        /\ first' = (IF nodes' = <<>> THEN 0 ELSE 1)
        /\ \A i \in DOMAIN nodes' : nodes'[i].next = (IF i = Len(nodes') THEN 0 ELSE i + 1)
  <2>1. SUFFICES ASSUME ~Rescanned
                 PROVE  /\ first' = 1
                        /\ \A i \in DOMAIN nodes' : nodes'[i].next = (IF i = Len(nodes') THEN 0 ELSE i + 1)
    BY <1>4, <1>5 DEF Rescanned
  <2>2. /\ first = (IF nodes = <<>> THEN 0 ELSE 1)
        /\ \A i \in DOMAIN nodes : nodes[i].next = (IF i = Len(nodes) THEN 0 ELSE i + 1)
    BY <2>1 DEF TypeOK
  <2>3. QED
    BY <1>0, <1>3, <1>4, <2>2
<1>7. \A i \in DOMAIN nodes' : nodes'[i].next \in 0 .. Len(nodes')
  BY <1>0, <1>3
<1>8. first' \in 0 .. Len(nodes') /\ freed' \subseteq DOMAIN nodes' /\ last' = Len(nodes')
      /\ at \in 0 .. Len(nodes') /\ found \in 0 .. Len(nodes')
  BY <1>0, <1>3, <1>4 DEF TypeOK
<1>9. where' \in Positions \cup ExtPositions \cup {0} /\ been' \subseteq Positions \cup ExtPositions
  BY <1>1 DEF Turn, TypeOK, IsChain
<1>10. UNCHANGED <<device, known, pc, request, nested, search>>
  BY DEF Turn
<1>11. QED
  BY <1>3, <1>6, <1>7, <1>8, <1>9, <1>10 DEF TypeOK, device, request, search

\* Before the first call there is nothing.
LEMMA InitTypes == Init => TypeOK /\ Calls
<1> SUFFICES ASSUME Init PROVE TypeOK /\ Calls
  OBVIOUS
<1>1. nodes \in Seq(Nodes) /\ Len(nodes) = 0 /\ DOMAIN nodes = {}
  BY DEF Init
<1>2. TypeOK
  <2>1. nested \in BOOLEAN /\ sought \in Searches \cup {NoSearch} /\ pc \in {"idle", "free", "fill", "trad", "ext", "search"}
    BY Zenon DEF Init
  <2>2. first = 0 /\ last = 0 /\ at = 0 /\ found = 0 /\ index = 0 /\ where = 0 /\ nodes = <<>>
    BY DEF Init
  <2>3. known = {} /\ want = {} /\ been = {} /\ freed = {}
    BY DEF Init
  <2>4. trad \in Chains(Positions \cup {0}, Positions, Ids) /\ ext \in Chains({ExtStart}, ExtPositions, ExtIds)
    BY DEF Init
  <2>5. QED
    BY <1>1, <2>1, <2>2, <2>3, <2>4 DEF TypeOK
<1>3. Calls
  BY <1>1 DEF Init, Calls
<1>4. QED
  BY <1>2, <1>3

\* A step that leaves the list and the chains alone keeps what is said of them.
LEMMA ListKept ==
  ASSUME TypeOK, UNCHANGED <<device, list>>,
         known' \subseteq Fields, want' \subseteq Fields,
         pc' \in {"idle", "free", "fill", "trad", "ext", "search"},
         sought' \in Searches \cup {NoSearch}, nested' \in BOOLEAN,
         where' \in Positions \cup ExtPositions \cup {0}, been' \subseteq Positions \cup ExtPositions,
         at' \in 0 .. Len(nodes), found' \in 0 .. Len(nodes), index' \in Nat
  PROVE  TypeOK'
<1>1. /\ trad' = trad /\ ext' = ext /\ nodes' = nodes /\ first' = first /\ last' = last /\ freed' = freed
  BY DEF device, list
<1>2. Rescanned' = Rescanned
  BY <1>1 DEF Rescanned
<1>3. QED
  BY <1>1, <1>2 DEF TypeOK

\* Types of what the functions do to each other when they return.
LEMMA ReturnTypes ==
  ASSUME TypeOK
  PROVE  /\ \A f \in SUBSET Fields : FillReturns(f) \/ AfterTrad(f) =>
              /\ known' \subseteq Fields /\ nested' \in BOOLEAN
              /\ pc' \in {"idle", "trad", "search"}
         /\ \A f \in SUBSET Fields : FillReturns(f) \/ AfterTrad(f) \/ Search
              \/ Scan("trad", trad.first) \/ Scan("ext", ext.first) =>
              /\ where' \in Positions \cup ExtPositions \cup {0} /\ been' \subseteq Positions \cup ExtPositions
              /\ at' \in 0 .. Len(nodes) /\ found' \in 0 .. Len(nodes) /\ index' \in Nat
<1>1. /\ trad.first \in Positions \cup {0} /\ ext.first \in ExtPositions
  BY ChainsAreChains
<1>2. /\ where \in Positions \cup ExtPositions \cup {0} /\ been \subseteq Positions \cup ExtPositions
      /\ first \in 0 .. Len(nodes) /\ Len(nodes) \in Nat
      /\ at \in 0 .. Len(nodes) /\ found \in 0 .. Len(nodes) /\ index \in Nat
  BY DEF TypeOK
<1>3. ASSUME Scan("trad", trad.first) \/ Scan("ext", ext.first)
      PROVE  /\ where' \in Positions \cup ExtPositions \cup {0} /\ been' \subseteq Positions \cup ExtPositions
             /\ at' \in 0 .. Len(nodes) /\ found' \in 0 .. Len(nodes) /\ index' \in Nat
  BY <1>1, <1>2, <1>3 DEF Scan, search
<1>4. ASSUME Search
      PROVE  /\ where' \in Positions \cup ExtPositions \cup {0} /\ been' \subseteq Positions \cup ExtPositions
             /\ at' \in 0 .. Len(nodes) /\ found' \in 0 .. Len(nodes) /\ index' \in Nat
  BY <1>2, <1>4 DEF Search, scan
<1>5. ASSUME NEW f \in SUBSET Fields, FillReturns(f)
      PROVE  /\ known' \subseteq Fields /\ nested' \in BOOLEAN /\ pc' \in {"idle", "search"}
             /\ Search \/ UNCHANGED <<scan, search>>
  <2>1. known \subseteq Fields
    BY DEF TypeOK
  <2>2. QED
    BY <1>5, <2>1 DEF FillReturns, Search
<1>6. ASSUME NEW f \in SUBSET Fields, AfterTrad(f)
      PROVE  \/ FillReturns(f)
             \/ /\ known' \subseteq Fields /\ nested' \in BOOLEAN /\ pc' \in {"trad", "search"}
                /\ Search \/ Scan("trad", trad.first)
  <2>1. known \subseteq Fields
    BY DEF TypeOK
  <2>2. QED
    BY <1>6, <2>1 DEF AfterTrad, FindExp, Search, Scan
<1>7. ASSUME UNCHANGED <<scan, search>>
      PROVE  /\ where' \in Positions \cup ExtPositions \cup {0} /\ been' \subseteq Positions \cup ExtPositions
             /\ at' \in 0 .. Len(nodes) /\ found' \in 0 .. Len(nodes) /\ index' \in Nat
  BY <1>2, <1>7 DEF scan, search
<1>8. QED
  BY <1>3, <1>4, <1>5, <1>6, <1>7

\* The two scans meet the conditions of TurnTypes.
LEMMA ScanTypes ==
  ASSUME TypeOK, Calls, TradTurn \/ ExtTurn
  PROVE  TypeOK' /\ \A i \in DOMAIN nodes' : nodes'[i].next \in 0 .. Len(nodes')
<1>1. /\ IsChain(trad) /\ DOMAIN trad.cap = Positions
      /\ IsChain(ext) /\ DOMAIN ext.cap = ExtPositions
  BY ChainsAreChains
<1>2. /\ \A w \in Positions : trad.cap[w].id \in Ids \cup {"broken"}
      /\ \A w \in ExtPositions : ext.cap[w].id \in ExtIds \cup {"broken"}
  BY DEF TypeOK, Chains, Broken
<1>3. \A i \in DOMAIN nodes : nodes[i].next \in 0 .. Len(nodes)
  BY DEF Calls
<1>4. CASE TradTurn
  <2>1. Turn(trad, "normal") /\ where \in Positions \cup {0}
    BY <1>4 DEF TradTurn, Calls
  <2>2. "normal" \in Types
    BY DEF Types
  <2>3. QED
    BY <1>1, <1>2, <1>3, <2>1, <2>2, TurnTypes
<1>5. CASE ExtTurn
  <2>1. Turn(ext, "extended") /\ where \in ExtPositions \cup {0}
    BY <1>5 DEF ExtTurn, Calls
  <2>2. "extended" \in Types
    BY DEF Types
  <2>3. QED
    BY <1>1, <1>2, <1>3, <2>1, <2>2, TurnTypes
<1>6. QED
  BY <1>4, <1>5

\* Every action keeps the types.
LEMMA TypeStep ==
  ASSUME TypeOK, Calls, [Next]_vars
  PROVE  TypeOK'
<1>0. known \subseteq Fields /\ want \subseteq Fields /\ nested \in BOOLEAN /\ sought \in Searches \cup {NoSearch}
  BY DEF TypeOK
<1>00. /\ where \in Positions \cup ExtPositions \cup {0} /\ been \subseteq Positions \cup ExtPositions
       /\ at \in 0 .. Len(nodes) /\ found \in 0 .. Len(nodes) /\ index \in Nat
  BY DEF TypeOK
<1>1. ASSUME NEW flags \in Requests \cup {{"caps"}, {"ext"}}, FillInfo(flags), sought' \in Searches \cup {NoSearch},
             UNCHANGED <<device, list, nested, scan, search>>
      PROVE  TypeOK'
  <2>1. known' \subseteq Fields /\ want' \subseteq Fields /\ pc' \in {"free", "fill"}
    BY <1>0, <1>1 DEF FillInfo, Fields
  <2>2. QED
    BY <1>0, <1>00, <1>1, <2>1, ListKept DEF scan, search
<1>2. ASSUME NEW flags \in Requests, Request(flags) PROVE TypeOK'
  BY <1>1, <1>2 DEF Request
<1>3. ASSUME NEW s \in Searches, FindCap(s) PROVE TypeOK'
  BY <1>1, <1>3 DEF FindCap
<1>4. CASE FreeCap
  <2>1. /\ UNCHANGED <<device, nodes, last, known, pc, request, nested, scan, search>>
        /\ first' \in 0 .. Len(nodes) /\ first \in DOMAIN nodes /\ freed' = freed \cup {first}
    BY <1>4 DEF FreeCap, TypeOK, Calls
  <2>2. Rescanned'
    BY <2>1 DEF Rescanned
  <2>3. QED
    BY <2>1, <2>2 DEF TypeOK, device, request, scan, search
<1>5. CASE FreeEnd
  BY <1>0, <1>00, <1>5, ListKept DEF FreeEnd, request, scan, search
<1>6. CASE ScanCaps
  <2>1. want' \in SUBSET Fields
    BY <1>0, <1>6 DEF ScanCaps, Fields
  <2>2. UNCHANGED <<device, list, sought>>
    BY <1>6 DEF ScanCaps
  <2>3. CASE Scan("trad", trad.first) /\ UNCHANGED <<known, nested>>
    <3>1. pc' = "trad"
      BY <2>3 DEF Scan
    <3>2. QED
      BY <1>0, <2>1, <2>2, <2>3, <3>1, ReturnTypes, ListKept
  <2>4. CASE AfterTrad(want')
    BY <1>0, <2>1, <2>2, <2>4, ReturnTypes, ListKept
  <2>5. QED
    BY <1>6, <2>3, <2>4 DEF ScanCaps
<1>7. CASE TradTurn \/ ExtTurn
  BY <1>7, ScanTypes
<1>8. CASE TradEnd
  <2>1. UNCHANGED <<device, list, request>>
    BY <1>8 DEF TradEnd
  <2>2. CASE known' = known \cup {"caps"} /\ Search /\ UNCHANGED nested
    <3>1. known' \subseteq Fields /\ pc' = "search"
      BY <1>0, <2>2 DEF Search, Fields
    <3>2. QED
      BY <1>0, <2>1, <2>2, <3>1, ReturnTypes, ListKept DEF request
  <2>3. CASE AfterTrad(want)
    BY <1>0, <2>1, <2>3, ReturnTypes, ListKept DEF request
  <2>4. QED
    BY <1>8, <2>2, <2>3 DEF TradEnd
<1>9. CASE ExtEnd
  <2>1. UNCHANGED <<device, list, request>> /\ FillReturns(want)
    BY <1>9 DEF ExtEnd
  <2>2. QED
    BY <1>0, <2>1, ReturnTypes, ListKept DEF request
<1>10. CASE SearchTurn
  <2>1. at' \in 0 .. Len(nodes) /\ found' \in 0 .. Len(nodes) /\ index' \in Nat
    BY <1>00, <1>10 DEF SearchTurn, Calls, TypeOK
  <2>2. UNCHANGED <<device, list, known, pc, request, nested, scan>> /\ pc = "search"
    BY <1>10 DEF SearchTurn
  <2>3. QED
    BY <1>0, <1>00, <2>1, <2>2, ListKept DEF request, scan
<1>11. CASE SearchEnd
  <2>1. UNCHANGED <<device, list, request>>
    BY <1>11 DEF SearchEnd
  <2>2. CASE pc' = "idle" /\ UNCHANGED <<known, nested, scan, search>>
    BY <1>0, <1>00, <2>1, <2>2, ListKept DEF request, scan, search
  <2>3. CASE Scan("ext", ext.first) /\ nested' = FALSE /\ UNCHANGED known
    <3>1. pc' = "ext" /\ nested' \in BOOLEAN
      BY <2>3 DEF Scan
    <3>2. QED
      BY <1>0, <2>1, <2>3, <3>1, ReturnTypes, ListKept DEF request
  <2>4. CASE FillReturns(want)
    BY <1>0, <2>1, <2>4, ReturnTypes, ListKept DEF request
  <2>5. QED
    BY <1>11, <2>2, <2>3, <2>4 DEF SearchEnd
<1>12. CASE UNCHANGED vars
  <2>1. UNCHANGED <<device, list, known, pc, request, nested, scan, search>> /\ pc \in {"idle", "free", "fill", "trad", "ext", "search"}
    BY <1>12 DEF vars, TypeOK
  <2>2. QED
    BY <1>0, <1>00, <2>1, ListKept DEF request, scan, search
<1>13. QED
  BY <1>2, <1>3, <1>4, <1>5, <1>6, <1>7, <1>8, <1>9, <1>10, <1>11, <1>12 DEF Next, Step


\* The part of Calls about pointers.
LEMMA PointersKept ==
  ASSUME Calls, nodes' = nodes
  PROVE  \A i \in DOMAIN nodes' : nodes'[i].next \in 0 .. Len(nodes')
BY DEF Calls

\* What is known when a pci_fill_info returns.
LEMMA ReturnCalls ==
  ASSUME TypeOK, Calls, NEW f, FillReturns(f), sought' = sought, want' = f, nodes' = nodes,
         sought # NoSearch => SoughtField \in f \cup known,
         "ext" \in f => "caps" \in f \cup known
  PROVE  Calls'
<1>1. known' = known \cup f /\ nested' = FALSE
  BY DEF FillReturns
<1>2. IF sought = NoSearch THEN pc' = "idle" ELSE pc' = "search"
  BY DEF FillReturns, Search
<1>3. SoughtField' = SoughtField
  BY DEF SoughtField
<1>4. sought # NoSearch => SoughtField \in {"caps", "ext"}
  BY DEF SoughtField
<1>5. "ext" \in known => "caps" \in known
  BY DEF Calls
<1>6. QED
  BY <1>1, <1>2, <1>3, <1>4, <1>5, PointersKept DEF Calls

\* What is known when the traditional capabilities have been scanned.
LEMMA AfterTradCalls ==
  ASSUME TypeOK, Calls, NEW f, AfterTrad(f), sought' = sought, want' = f, nodes' = nodes,
         "ext" \notin f \cap known, "ext" \in f => "caps" \in f \cup known,
         sought # NoSearch => SoughtField \in f \cup known
  PROVE  Calls'
<1>1. CASE FillReturns(f)
  BY <1>1, ReturnCalls
<1>2. CASE FindExp /\ "ext" \in f
  <2>1. known' = known /\ nested' = TRUE /\ SoughtField' = SoughtField
    BY <1>2 DEF FindExp, SoughtField
  <2>2. "ext" \notin known /\ "caps" \in f \cup known
    BY <1>2
  <2>3. CASE "caps" \in known /\ Search
    <3>1. pc' = "search"
      BY <2>3 DEF Search
    <3>2. QED
      BY <1>2, <2>1, <2>2, <2>3, <3>1, PointersKept DEF Calls
  <2>4. CASE "caps" \notin known /\ Scan("trad", trad.first)
    <3>1. pc' = "trad" /\ where' \in Positions \cup {0}
      BY <2>4, ChainsAreChains DEF Scan
    <3>2. QED
      BY <1>2, <2>1, <2>2, <2>4, <3>1, PointersKept DEF Calls
  <2>5. QED
    BY <1>2, <2>3, <2>4 DEF FindExp
<1>3. QED
  BY <1>1, <1>2 DEF AfterTrad

\* Every action keeps what is said of the calls under way.
LEMMA CallsStep ==
  ASSUME TypeOK, Calls, [Next]_vars
  PROVE  Calls'
<1>0. sought # NoSearch => SoughtField \in want \cup known
  BY DEF Calls
<1>1. ASSUME NEW flags, FillInfo(flags), pc = "idle", sought' = NoSearch \/ SoughtField' \in flags \ {"rescan"},
             UNCHANGED <<device, list, nested, scan, search>>
      PROVE  Calls'
  <2>1. nested = FALSE /\ nested' = nested /\ nodes' = nodes
    BY <1>1 DEF Calls, list, TypeOK
  <2>2. pc' \in {"free", "fill"} /\ (pc' = "free" => known' = {}) /\ (known' = {} \/ known' = known)
    BY <1>1 DEF FillInfo
  <2>3. want' \cap known' = {} /\ flags \ {"rescan"} \subseteq want' \cup known'
    BY <1>1 DEF FillInfo
  <2>4. "ext" \in known => "caps" \in known
    BY DEF Calls
  <2>5. QED
    BY <1>1, <2>1, <2>2, <2>3, <2>4, PointersKept DEF Calls
<1>2. ASSUME NEW flags \in Requests, Request(flags) PROVE Calls'
  BY <1>1, <1>2 DEF Request
<1>3. ASSUME NEW s \in Searches, FindCap(s) PROVE Calls'
  <2>1. SoughtField' = IF s.type = "normal" THEN "caps" ELSE "ext"
    BY <1>3 DEF SoughtField, FindCap
  <2>2. QED
    BY <1>1, <1>3, <2>1 DEF FindCap
<1>4. CASE FreeCap
  BY <1>4 DEF FreeCap, Calls, request, SoughtField, device, scan
<1>5. CASE FreeEnd
  BY <1>5 DEF FreeEnd, Calls, request, list, SoughtField, device, scan
<1>6. CASE ScanCaps
  <2>1. /\ UNCHANGED <<device, list, sought>> /\ pc = "fill" /\ nodes' = nodes
        /\ want' = want \cup (IF "ext" \in want /\ "caps" \notin known THEN {"caps"} ELSE {})
    BY <1>6 DEF ScanCaps, list
  <2>2. /\ "ext" \notin want' \cap known /\ ("ext" \in want' => "caps" \in want' \cup known)
        /\ (sought # NoSearch => SoughtField \in want' \cup known) /\ ~nested
    BY <1>0, <2>1 DEF Calls
  <2>3. CASE "caps" \in want' /\ Scan("trad", trad.first) /\ UNCHANGED <<known, nested>>
    <3>1. pc' = "trad" /\ where' \in Positions \cup {0} /\ SoughtField' = SoughtField
      BY <2>1, <2>3, ChainsAreChains DEF Scan, SoughtField
    <3>2. "ext" \in known => "caps" \in known
      BY DEF Calls
    <3>3. QED
      BY <2>1, <2>2, <2>3, <3>1, <3>2, PointersKept DEF Calls
  <2>4. CASE AfterTrad(want')
    BY <2>1, <2>2, <2>4, AfterTradCalls
  <2>5. QED
    BY <1>6, <2>3, <2>4 DEF ScanCaps
<1>7. CASE TradTurn
  <2>1. \A i \in DOMAIN nodes' : nodes'[i].next \in 0 .. Len(nodes')
    BY <1>7, ScanTypes
  <2>2. where' \in Positions \cup {0} /\ UNCHANGED <<known, pc, request, nested>> /\ pc = "trad"
    BY <1>7, ChainsAreChains DEF TradTurn, Turn, GoesOn, Calls, IsChain
  <2>3. QED
    BY <2>1, <2>2 DEF Calls, request, SoughtField
<1>8. CASE ExtTurn
  <2>1. \A i \in DOMAIN nodes' : nodes'[i].next \in 0 .. Len(nodes')
    BY <1>8, ScanTypes
  <2>2. where' \in ExtPositions \cup {0} /\ UNCHANGED <<known, pc, request, nested>> /\ pc = "ext"
    BY <1>8, ChainsAreChains DEF ExtTurn, Turn, GoesOn, Calls, IsChain
  <2>3. QED
    BY <2>1, <2>2 DEF Calls, request, SoughtField
<1>9. CASE TradEnd
  <2>1. /\ UNCHANGED <<device, list, request>> /\ pc = "trad" /\ nodes' = nodes
        /\ want' = want /\ sought' = sought
    BY <1>9 DEF TradEnd, list, request
  <2>2. CASE nested /\ known' = known \cup {"caps"} /\ Search /\ UNCHANGED nested
    <3>1. pc' = "search" /\ SoughtField' = SoughtField
      BY <2>1, <2>2 DEF Search, SoughtField
    <3>2. QED
      BY <2>1, <2>2, <3>1, PointersKept DEF Calls
  <2>3. CASE AfterTrad(want)
    BY <2>1, <2>3, AfterTradCalls DEF Calls
  <2>4. QED
    BY <1>9, <2>2, <2>3 DEF TradEnd
<1>10. CASE ExtEnd
  <2>1. UNCHANGED <<device, list, request>> /\ FillReturns(want) /\ pc = "ext"
    BY <1>10 DEF ExtEnd
  <2>2. QED
    BY <2>1, ReturnCalls DEF list, request, Calls
<1>11. CASE SearchTurn
  BY <1>11, PointersKept DEF SearchTurn, Calls, list, request, SoughtField, scan
<1>12. CASE SearchEnd
  <2>1. /\ UNCHANGED <<device, list, request>> /\ pc = "search" /\ nodes' = nodes
        /\ want' = want /\ sought' = sought /\ SoughtField' = SoughtField
    BY <1>12 DEF SearchEnd, list, request, SoughtField
  <2>2. CASE ~nested /\ pc' = "idle" /\ UNCHANGED <<known, nested>>
    BY <2>1, <2>2, PointersKept DEF Calls
  <2>3. CASE nested /\ Scan("ext", ext.first) /\ nested' = FALSE /\ UNCHANGED known
    <3>1. pc' = "ext" /\ where' \in ExtPositions \cup {0}
      BY <2>3, ChainsAreChains DEF Scan
    <3>2. QED
      BY <2>1, <2>3, <3>1, PointersKept DEF Calls
  <2>4. CASE nested /\ FillReturns(want)
    BY <2>1, <2>4, ReturnCalls DEF Calls
  <2>5. QED
    BY <1>12, <2>2, <2>3, <2>4 DEF SearchEnd
<1>13. CASE UNCHANGED vars
  BY <1>13, PointersKept DEF vars, Calls, list, request, SoughtField, scan
<1>14. QED
  BY <1>2, <1>3, <1>4, <1>5, <1>6, <1>7, <1>8, <1>9, <1>10, <1>11, <1>12, <1>13 DEF Next, Step

----------------------------------------------------------------------------
(***************************************************************************)
(* The list and the chains.                                                *)
(***************************************************************************)

\* Without a rescan, a list whose first_cap is NULL is empty.
LEMMA EmptyList ==
  ASSUME TypeOK, ~Rescanned, first = 0
  PROVE  nodes = <<>> /\ Len(nodes) = 0 /\ DOMAIN nodes = {}
BY DEF TypeOK

\* A rescan leaves no list behind: what pci_add_cap adds hangs on last_cap.
LEMMA RescanStep ==
  ASSUME TypeOK, Rescanned => (pc # "free" => first = 0), [Next]_vars, Rescanned', pc' # "free"
  PROVE  first' = 0
<1>1. CASE TradTurn \/ ExtTurn
  <2>1. UNCHANGED freed /\ pc # "free" /\ first' = IF last = 0 THEN Len(nodes) + 1 ELSE first
    BY <1>1 DEF TradTurn, ExtTurn, Turn, AddCap
  <2>2. Rescanned
    BY <2>1 DEF Rescanned
  <2>3. last # 0
    BY <2>2 DEF TypeOK, Rescanned
  <2>4. QED
    BY <2>1, <2>2, <2>3
<1>2. CASE FreeCap
  BY <1>2 DEF FreeCap
<1>3. CASE FreeEnd
  BY <1>3 DEF FreeEnd, list
<1>4. CASE ScanCaps
  BY <1>4 DEF ScanCaps, list, Rescanned
<1>5. CASE TradEnd
  BY <1>5 DEF TradEnd, list, Rescanned
<1>6. CASE ExtEnd \/ SearchTurn
  BY <1>6 DEF ExtEnd, SearchTurn, list, Rescanned
<1>7. CASE SearchEnd
  BY <1>7 DEF SearchEnd, list, Rescanned
<1>8. ASSUME NEW flags \in Requests, Request(flags) PROVE first' = 0
  BY <1>8 DEF Request, list, Rescanned
<1>9. ASSUME NEW s \in Searches, FindCap(s) PROVE first' = 0
  BY <1>9 DEF FindCap, list, Rescanned
<1>10. CASE UNCHANGED vars
  BY <1>10 DEF vars, list, Rescanned
<1>11. QED
  BY <1>1, <1>2, <1>3, <1>4, <1>5, <1>6, <1>7, <1>8, <1>9, <1>10 DEF Next, Step

\* They are kept while the list is.
LEMMA NodesKept ==
  ASSUME NodesInv, UNCHANGED <<device, list>>
  PROVE  NodesInv' /\ Listed("normal")' = Listed("normal") /\ Listed("extended")' = Listed("extended")
         /\ (HasExp' <=> HasExp) /\ trad' = trad /\ ext' = ext /\ nodes' = nodes
<1>1. trad' = trad /\ ext' = ext /\ nodes' = nodes
  BY DEF device, list
<1>2. QED
  BY <1>1 DEF NodesInv, ListedIsReachable, ListedOnce, ListedInOrder, Chain, HasExp, Listed

\* What a turn lists can be reached, is new to the scan, and comes after what
\* is before it in the chain.
LEMMA TurnNodes ==
  ASSUME TypeOK, NodesInv, NEW type \in Types, Turn(Chain(type), type),
         DOMAIN Chain(type).cap \subseteq Positions \cup ExtPositions,
         where \in DOMAIN Chain(type).cap \cup {0}, IsChain(Chain(type)),
         \A w \in DOMAIN Chain(type).cap : Chain(type).cap[w].id \in Ids \cup ExtIds \cup {"broken"},
         Progress(Chain(type), been, where), been \subseteq Listed(type),
         type = "extended" => HasExp /\ been = Listed(type)
  PROVE  /\ NodesInv'
         /\ Progress(Chain(type), been', where')
         /\ Listed(type)' = Listed(type) \cup {where}
         /\ \A t \in Types \ {type} : Listed(t)' = Listed(t)
<1> DEFINE c == Chain(type)
           n == Len(nodes) + 1
<1>0. nodes \in Seq(Nodes) /\ Len(nodes) \in Nat /\ DOMAIN nodes = 1 .. Len(nodes)
  BY DEF TypeOK
<1>1. AddCap(c, type) /\ where \in DOMAIN c.cap /\ c.cap[where].id \in Ids \cup ExtIds /\ where \notin been
      /\ where' = c.cap[where].next /\ been' = been \cup {where} /\ trad' = trad /\ ext' = ext
  BY DEF Turn, GoesOn, device
<1>2. [addr |-> where, id |-> c.cap[where].id, type |-> type, next |-> 0] \in Nodes
  BY <1>1 DEF Nodes
<1>3. /\ nodes' \in Seq(Nodes)
      /\ Len(nodes') = n /\ DOMAIN nodes' = 1 .. n
      /\ nodes'[n] = [addr |-> where, id |-> c.cap[where].id, type |-> type, next |-> 0]
      /\ \A i \in DOMAIN nodes :
           /\ nodes'[i].addr = nodes[i].addr /\ nodes'[i].id = nodes[i].id
           /\ nodes'[i].type = nodes[i].type
  BY <1>1, <1>2, Added
<1>4. Alive(c, where) /\ where \in Reachable(c)
  BY <1>1, IdsAssumption DEF Alive, Turn, GoesOn, Progress
<1>5. Before(c, where) \subseteq been
  BY <1>1, ProgressIsBefore
<1>6. \A t : Chain(t)' = Chain(t) /\ (HasExp' <=> HasExp)
  BY <1>1 DEF Chain, HasExp
<1>7. Progress(c, been', where')
  BY <1>1, <1>4, ProgressTurn
<1> HIDE DEF c
<1>8. /\ nodes'[n].addr = where /\ nodes'[n].id = c.cap[where].id /\ nodes'[n].type = type
  BY <1>3
<1>9. /\ Listed(type)' = Listed(type) \cup {where}
      /\ \A t \in Types \ {type} : Listed(t)' = Listed(t)
  BY <1>0, <1>3, <1>8 DEF Listed
<1>10. ASSUME NEW i \in DOMAIN nodes'
       PROVE  /\ nodes'[i].addr \in Reachable(Chain(nodes'[i].type))
              /\ nodes'[i].id = Chain(nodes'[i].type).cap[nodes'[i].addr].id
              /\ nodes'[i].type = "extended" => HasExp
  <2>1. CASE i = n
    BY <1>4, <1>8, <2>1 DEF c
  <2>2. CASE i # n
    <3>1. i \in DOMAIN nodes
      BY <1>0, <1>3, <2>2
    <3>2. QED
      BY <1>3, <3>1 DEF NodesInv, ListedIsReachable
  <2>3. QED
    BY <2>1, <2>2
<1>11. ListedOnce'
  <2>1. SUFFICES ASSUME NEW i \in DOMAIN nodes', NEW j \in DOMAIN nodes',
                        nodes'[i].type = "extended", nodes'[j].type = "extended",
                        nodes'[i].addr = nodes'[j].addr, i < j
                 PROVE  FALSE
    BY <1>0, <1>3 DEF ListedOnce
  <2>2. i \in DOMAIN nodes
    BY <1>0, <1>3, <2>1
  <2>3. CASE j = n
    <3>1. type = "extended" /\ nodes[i].addr = where /\ nodes[i].type = type
      BY <1>3, <1>8, <2>1, <2>2, <2>3
    <3>2. where \in Listed(type)
      BY <2>2, <3>1 DEF Listed
    <3>3. QED
      BY <1>1, <3>1, <3>2
  <2>4. CASE j # n
    <3>1. j \in DOMAIN nodes
      BY <1>0, <1>3, <2>4
    <3>2. QED
      BY <1>0, <1>3, <2>1, <2>2, <3>1 DEF NodesInv, ListedOnce
  <2>5. QED
    BY <2>3, <2>4
<1>12. ASSUME NEW i \in DOMAIN nodes', NEW v \in Before(Chain(nodes'[i].type), nodes'[i].addr)
       PROVE  \E j \in 1 .. i - 1 : nodes'[j].type = nodes'[i].type /\ nodes'[j].addr = v
  <2>1. CASE i = n
    <3>1. v \in Listed(type)
      BY <1>5, <1>8, <1>12, <2>1 DEF c
    <3>2. PICK j \in DOMAIN nodes : nodes[j].type = type /\ nodes[j].addr = v
      BY <3>1 DEF Listed
    <3>3. QED
      BY <1>0, <1>3, <1>8, <2>1, <3>2
  <2>2. CASE i # n
    <3>1. i \in DOMAIN nodes
      BY <1>0, <1>3, <2>2
    <3>2. nodes'[i].type = nodes[i].type /\ nodes'[i].addr = nodes[i].addr
      BY <1>3, <3>1
    <3>3. PICK j \in 1 .. i - 1 : nodes[j].type = nodes[i].type /\ nodes[j].addr = v
      BY <1>12, <3>1, <3>2 DEF NodesInv, ListedInOrder
    <3>4. j \in DOMAIN nodes
      BY <1>0, <3>1
    <3>5. QED
      BY <1>3, <3>2, <3>3, <3>4
  <2>3. QED
    BY <2>1, <2>2
<1>13. NodesInv'
  BY <1>6, <1>10, <1>11, <1>12 DEF NodesInv, ListedIsReachable, ListedInOrder
<1>14. QED
  BY <1>7, <1>9, <1>13 DEF c

\* The chain of a type.
LEMMA ChainOf == Chain("normal") = trad /\ Chain("extended") = ext
BY DEF Chain

\* A turn of either scan.
LEMMA TurnStep ==
  ASSUME TypeOK, Calls, ListInv, ~Rescanned, TradTurn \/ ExtTurn
  PROVE  NodesInv' /\ ScanProgress' /\ KnownIsListed' /\ FoundIsFirst'
<1>0. NodesInv /\ ScanProgress /\ KnownIsListed
  BY DEF ListInv
<1>1. /\ IsChain(trad) /\ DOMAIN trad.cap = Positions
      /\ IsChain(ext) /\ DOMAIN ext.cap = ExtPositions
  BY ChainsAreChains
<1>2. /\ \A w \in Positions : trad.cap[w].id \in Ids \cup {"broken"}
      /\ \A w \in ExtPositions : ext.cap[w].id \in ExtIds \cup {"broken"}
  BY DEF TypeOK, Chains, Broken
<1>3. "normal" \in Types \ {"extended"} /\ "extended" \in Types \ {"normal"}
  BY DEF Types
<1>4. CASE TradTurn
  <2>1. Turn(trad, "normal") /\ where \in Positions \cup {0} /\ pc = "trad"
    BY <1>4 DEF TradTurn, Calls
  <2>2. Progress(trad, been, where) /\ been \subseteq Listed("normal")
    BY <1>0, <2>1 DEF ScanProgress
  <2>3. /\ NodesInv' /\ Progress(trad, been', where')
        /\ Listed("normal")' = Listed("normal") \cup {where} /\ Listed("extended")' = Listed("extended")
    BY <1>0, <1>1, <1>2, <1>3, <2>1, <2>2, TurnNodes, ChainOf
  <2>4. /\ pc' = "trad" /\ known' = known /\ trad' = trad /\ ext' = ext
        /\ been' = been \cup {where} /\ where \in Reachable(trad)
    BY <2>1, <2>2, IdsAssumption DEF Turn, GoesOn, device, Progress, Alive
  <2>5. HasExp' <=> HasExp
    BY <2>4 DEF HasExp
  <2>6. ScanProgress' /\ FoundIsFirst'
    BY <2>2, <2>3, <2>4 DEF ScanProgress, FoundIsFirst
  <2>7. KnownIsListed'
    <3>1. "caps" \in known' => Listed("normal")' = Reachable(trad')
      BY <1>0, <2>3, <2>4 DEF KnownIsListed
    <3>2. "ext" \in known' => Listed("extended")' = IF HasExp' THEN Reachable(ext') ELSE {}
      BY <1>0, <2>3, <2>4, <2>5 DEF KnownIsListed
    <3>3. "ext" \notin known' => Listed("extended")' = {}
      BY <1>0, <2>1, <2>3, <2>4 DEF KnownIsListed
    <3>4. QED
      BY <3>1, <3>2, <3>3 DEF KnownIsListed
  <2>8. QED
    BY <2>3, <2>6, <2>7
<1>5. CASE ExtTurn
  <2>1. Turn(ext, "extended") /\ where \in ExtPositions \cup {0} /\ pc = "ext"
    BY <1>5 DEF ExtTurn, Calls
  <2>2. Progress(ext, been, where) /\ been = Listed("extended") /\ HasExp
    BY <1>0, <2>1 DEF ScanProgress
  <2>3. /\ NodesInv' /\ Progress(ext, been', where')
        /\ Listed("extended")' = Listed("extended") \cup {where} /\ Listed("normal")' = Listed("normal")
    BY <1>0, <1>1, <1>2, <1>3, <2>1, <2>2, TurnNodes, ChainOf
  <2>4. /\ pc' = "ext" /\ known' = known /\ trad' = trad /\ ext' = ext
        /\ been' = been \cup {where} /\ "ext" \notin known
    BY <2>1 DEF Turn, device, request, Calls
  <2>5. HasExp' <=> HasExp
    BY <2>4 DEF HasExp
  <2>6. ScanProgress' /\ FoundIsFirst'
    BY <2>2, <2>3, <2>4, <2>5 DEF ScanProgress, FoundIsFirst
  <2>7. KnownIsListed'
    BY <1>0, <2>3, <2>4 DEF KnownIsListed
  <2>8. QED
    BY <2>3, <2>6, <2>7
<1>6. QED
  BY <1>4, <1>5

\* A search that begins has found and passed nothing.
LEMMA SearchBegins ==
  ASSUME TypeOK, ~Rescanned, Search, nodes' = nodes
  PROVE  FoundIsFirst'
<1>1. at' = first /\ index' = 0 /\ found' = 0 /\ pc' = "search"
  BY DEF Search
<1>2. Passed' = 0
  BY <1>1 DEF TypeOK, Passed
<1>3. QED
  BY <1>1, <1>2 DEF FoundIsFirst

\* A scan that begins.
LEMMA ScanBegins ==
  ASSUME TypeOK, NEW loop \in {"trad", "ext"}, Scan(loop, IF loop = "trad" THEN trad.first ELSE ext.first),
         UNCHANGED <<device, list>>, loop = "ext" => HasExp /\ Listed("extended") = {}
  PROVE  ScanProgress' /\ FoundIsFirst'
<1>1. /\ trad' = trad /\ ext' = ext /\ nodes' = nodes /\ been' = {} /\ pc' = loop
      /\ where' = IF loop = "trad" THEN trad.first ELSE ext.first
  BY DEF device, list, Scan
<1>2. Listed("extended")' = Listed("extended") /\ (HasExp' <=> HasExp)
  BY <1>1 DEF Listed, HasExp
<1>3. Progress(trad, {}, trad.first) /\ Progress(ext, {}, ext.first)
  BY ChainsAreChains, ProgressBegins
<1>4. ScanProgress'
  BY <1>1, <1>2, <1>3 DEF ScanProgress
<1>5. QED
  BY <1>1, <1>4 DEF FoundIsFirst

\* A pci_fill_info that returns with what it scanned listed.
LEMMA ReturnList ==
  ASSUME TypeOK, KnownIsListed, ~Rescanned, UNCHANGED <<device, list>>, sought' = sought,
         NEW f, FillReturns(f),
         "caps" \in f => Listed("normal") = Reachable(trad),
         "ext" \in f => Listed("extended") = IF HasExp THEN Reachable(ext) ELSE {},
         "ext" \notin f \cup known => Listed("extended") = {}
  PROVE  ScanProgress' /\ KnownIsListed' /\ FoundIsFirst'
<1>1. /\ trad' = trad /\ ext' = ext /\ nodes' = nodes /\ known' = known \cup f /\ pc' \in {"idle", "search"}
  BY DEF device, list, FillReturns, Search
<1>2. /\ Listed("extended")' = Listed("extended") /\ Listed("normal")' = Listed("normal")
      /\ (HasExp' <=> HasExp)
  BY <1>1 DEF Listed, HasExp
<1>3. ScanProgress'
  BY <1>1 DEF ScanProgress
<1>4. KnownIsListed'
  <2>1. "caps" \in known' => Listed("normal")' = Reachable(trad')
    BY <1>1, <1>2 DEF KnownIsListed
  <2>2. "ext" \in known' => Listed("extended")' = IF HasExp' THEN Reachable(ext') ELSE {}
    BY <1>1, <1>2 DEF KnownIsListed
  <2>3. "ext" \notin known' => Listed("extended")' = {}
    BY <1>1, <1>2
  <2>4. QED
    BY <2>1, <2>2, <2>3 DEF KnownIsListed
<1>5. FoundIsFirst'
  <2>1. CASE sought = NoSearch
    <3>1. pc' = "idle"
      BY <2>1 DEF FillReturns
    <3>2. QED
      BY <2>1, <3>1 DEF FoundIsFirst
  <2>2. CASE sought # NoSearch
    BY <1>1, <2>2, SearchBegins DEF FillReturns
  <2>3. QED
    BY <2>1, <2>2
<1>6. QED
  BY <1>3, <1>4, <1>5

\* What is known stays listed.
LEMMA KnownKept ==
  ASSUME KnownIsListed, UNCHANGED <<device, list>>, known' = known,
         "ext" \notin known => Listed("extended") = {}
  PROVE  KnownIsListed'
<1>1. trad' = trad /\ ext' = ext /\ nodes' = nodes
  BY DEF device, list
<1>2. /\ Listed("extended")' = Listed("extended") /\ Listed("normal")' = Listed("normal")
      /\ (HasExp' <=> HasExp)
  BY <1>1 DEF Listed, HasExp
<1>3. "ext" \in known' => Listed("extended")' = IF HasExp' THEN Reachable(ext') ELSE {}
  BY <1>1, <1>2 DEF KnownIsListed
<1>4. QED
  BY <1>1, <1>2, <1>3 DEF KnownIsListed

\* pci_scan_caps goes on with the list of traditional capabilities complete.
LEMMA AfterTradList ==
  ASSUME TypeOK, KnownIsListed, ~Rescanned, UNCHANGED <<device, list>>, sought' = sought,
         pc \in {"fill", "trad"}, NEW f, AfterTrad(f),
         "caps" \in f => Listed("normal") = Reachable(trad)
  PROVE  ScanProgress' /\ KnownIsListed' /\ FoundIsFirst'
<1>1. "ext" \notin known => Listed("extended") = {}
  BY DEF KnownIsListed
<1>2. CASE "ext" \notin f /\ FillReturns(f)
  BY <1>1, <1>2, ReturnList
<1>3. CASE FindExp
  <2>1. known' = known /\ nodes' = nodes
    BY <1>3 DEF FindExp, list
  <2>2. KnownIsListed'
    BY <1>1, <2>1, KnownKept
  <2>3. CASE Search
    <3>1. ScanProgress'
      BY <2>3 DEF Search, ScanProgress
    <3>2. QED
      BY <2>1, <2>2, <2>3, <3>1, SearchBegins
  <2>4. CASE Scan("trad", trad.first)
    BY <2>2, <2>4, ScanBegins
  <2>5. QED
    BY <1>3, <2>3, <2>4 DEF FindExp
<1>4. QED
  BY <1>2, <1>3 DEF AfterTrad

\* A scan that ends has listed what can be reached.
LEMMA ScanEnds ==
  ASSUME TypeOK, Calls, NodesInv, ScanProgress
  PROVE  /\ pc = "trad" /\ ~GoesOn(trad) => Listed("normal") = Reachable(trad)
         /\ pc = "ext" /\ ~GoesOn(ext) => Listed("extended") = Reachable(ext) /\ HasExp
<1>1. IsChain(trad) /\ IsChain(ext)
  BY ChainsAreChains
<1>2. Listed("normal") \subseteq Reachable(trad)
  BY ChainOf DEF Listed, NodesInv, ListedIsReachable
<1>3. ASSUME pc = "trad", ~GoesOn(trad) PROVE Listed("normal") = Reachable(trad)
  <2>1. Progress(trad, been, where) /\ been \subseteq Listed("normal")
    BY <1>3 DEF ScanProgress
  <2>2. where \in been \/ ~Alive(trad, where)
    BY <1>3 DEF GoesOn, Alive
  <2>3. been = Reachable(trad)
    BY <1>1, <2>1, <2>2, ProgressEnds
  <2>4. QED
    BY <1>2, <2>1, <2>3
<1>4. ASSUME pc = "ext", ~GoesOn(ext) PROVE Listed("extended") = Reachable(ext) /\ HasExp
  <2>1. Progress(ext, been, where) /\ been = Listed("extended") /\ HasExp
    BY <1>4 DEF ScanProgress
  <2>2. where \in been \/ ~Alive(ext, where)
    BY <1>4 DEF GoesOn, Alive
  <2>3. QED
    BY <1>1, <2>1, <2>2, ProgressEnds
<1>5. QED
  BY <1>3, <1>4

\* The search for PCI Express finds it when it can be reached, and only then.
LEMMA ExpFound ==
  ASSUME TypeOK, Calls, NodesInv, KnownIsListed, FoundIsFirst, ~Rescanned,
         pc = "search", nested, at = 0
  PROVE  found # 0 <=> HasExp
<1>0. Len(nodes) \in Nat /\ DOMAIN nodes = 1 .. Len(nodes) /\ found \in 0 .. Len(nodes)
  BY DEF TypeOK
<1>1. Looking = ExpSearch /\ Passed = Len(nodes)
  BY DEF Looking, Passed
<1>2. Listed("normal") = Reachable(trad)
  BY DEF Calls, KnownIsListed
<1>3. Looking.target = 0 /\ Looking.type = "normal" /\ Looking.id = Exp
  BY <1>1 DEF ExpSearch
<1>4. IF found = 0 THEN \A i \in 1 .. Passed : ~Matches(i, Looking) ELSE Matches(found, Looking)
  BY <1>3 DEF FoundIsFirst
<1>5. \A i \in DOMAIN nodes : Matches(i, Looking) <=>
        nodes[i].type = "normal" /\ trad.cap[nodes[i].addr].id = Exp
  BY <1>3, ChainOf DEF Matches, NodesInv, ListedIsReachable
<1>6. CASE found = 0
  <2>1. ASSUME NEW w \in Reachable(trad), trad.cap[w].id = Exp PROVE FALSE
    <3>1. PICK i \in DOMAIN nodes : nodes[i].type = "normal" /\ nodes[i].addr = w
      BY <1>2 DEF Listed
    <3>2. Matches(i, Looking)
      BY <1>5, <2>1, <3>1
    <3>3. QED
      BY <1>0, <1>1, <1>4, <1>6, <3>2
  <2>2. QED
    BY <1>6, <2>1 DEF HasExp
<1>7. CASE found # 0
  <2>1. found \in DOMAIN nodes /\ Matches(found, Looking)
    BY <1>0, <1>4, <1>7
  <2>2. nodes[found].addr \in Reachable(trad) /\ trad.cap[nodes[found].addr].id = Exp
    BY <1>2, <1>5, <2>1 DEF Listed
  <2>3. QED
    BY <1>7, <2>2 DEF HasExp
<1>8. QED
  BY <1>6, <1>7

\* One turn of the search.
LEMMA SearchTurnFound ==
  ASSUME TypeOK, ~Rescanned, FoundIsFirst, SearchTurn
  PROVE  FoundIsFirst'
<1>0. Len(nodes) \in Nat /\ DOMAIN nodes = 1 .. Len(nodes) /\ index \in Nat /\ at \in 1 .. Len(nodes)
      /\ found \in 0 .. Len(nodes)
  BY DEF TypeOK, SearchTurn
<1>1. nodes' = nodes /\ Looking' = Looking /\ pc = "search" /\ pc' = "search"
  BY DEF SearchTurn, list, request, Looking
<1>2. at' = IF at = Len(nodes) THEN 0 ELSE at + 1
  BY <1>0 DEF TypeOK, SearchTurn
<1>3. Passed = at - 1 /\ Passed' = at
  <2>1. Passed = at - 1
    BY <1>0 DEF Passed
  <2>2. Passed' = IF at' = 0 THEN Len(nodes) ELSE at' - 1
    BY <1>1 DEF Passed
  <2>3. CASE at = Len(nodes)
    BY <1>2, <2>1, <2>2, <2>3
  <2>4. CASE at # Len(nodes)
    <3>1. at' = at + 1
      BY <1>2, <2>4, Zenon
    <3>2. at' # 0 /\ at' - 1 = at
      <4>1. at \in Nat
        BY <1>0
      <4>2. QED
        BY <3>1, <4>1
    <3>3. QED
      BY <2>1, <2>2, <3>2
  <2>5. QED
    BY <2>3, <2>4
<1>4. SUFFICES ASSUME Looking.target = 0
               PROVE  IF found' = 0
                      THEN index' = 0 /\ \A i \in 1 .. at : ~Matches(i, Looking)
                      ELSE /\ index' > 0 /\ found' <= at /\ Matches(found', Looking)
                           /\ \A i \in 1 .. found' - 1 : ~Matches(i, Looking)
  BY <1>1, <1>3 DEF FoundIsFirst, Matches
<1>5. IF found = 0
      THEN index = 0 /\ \A i \in 1 .. at - 1 : ~Matches(i, Looking)
      ELSE /\ index > 0 /\ found <= at - 1 /\ Matches(found, Looking)
           /\ \A i \in 1 .. found - 1 : ~Matches(i, Looking)
  BY <1>1, <1>3, <1>4 DEF FoundIsFirst
<1>6. CASE Matches(at, Looking)
  <2>1. index' = index + 1 /\ found' = IF index = 0 THEN at ELSE found
    BY <1>4, <1>6 DEF SearchTurn
  <2>2. QED
    BY <1>0, <1>5, <1>6, <2>1
<1>7. CASE ~Matches(at, Looking)
  <2>1. index' = index /\ found' = found
    BY <1>7 DEF SearchTurn
  <2>2. QED
    BY <1>0, <1>5, <1>7, <2>1
<1>8. QED
  BY <1>6, <1>7

\* The other steps, which leave the list as it is.
LEMMA QuietStep ==
  ASSUME TypeOK, Calls, ListInv, ~Rescanned, [Next]_vars, ~FreeCap, ~TradTurn, ~ExtTurn
  PROVE  NodesInv' /\ ScanProgress' /\ KnownIsListed' /\ FoundIsFirst'
<1>0. NodesInv /\ ScanProgress /\ KnownIsListed /\ FoundIsFirst
  BY DEF ListInv
<1>1. ASSUME NEW flags, FillInfo(flags), pc = "idle", UNCHANGED <<device, list>>
      PROVE  NodesInv' /\ ScanProgress' /\ KnownIsListed' /\ FoundIsFirst'
  <2>1. NodesInv' /\ Listed("normal")' = Listed("normal") /\ Listed("extended")' = Listed("extended")
        /\ (HasExp' <=> HasExp) /\ trad' = trad /\ ext' = ext
    BY <1>0, <1>1, NodesKept
  <2>2. pc' \in {"free", "fill"}
    BY <1>1 DEF FillInfo
  <2>3. ScanProgress' /\ FoundIsFirst'
    BY <2>2 DEF ScanProgress, FoundIsFirst
  <2>4. CASE known' = known
    BY <1>0, <1>1, <2>4, KnownKept, <2>1, <2>3 DEF KnownIsListed
  <2>5. CASE known' = {} /\ pc' = "free"
    BY <2>1, <2>3, <2>5 DEF KnownIsListed
  <2>6. QED
    BY <1>1, <2>4, <2>5 DEF FillInfo
<1>2. ASSUME NEW flags \in Requests, Request(flags)
      PROVE  NodesInv' /\ ScanProgress' /\ KnownIsListed' /\ FoundIsFirst'
  BY <1>1, <1>2 DEF Request
<1>3. ASSUME NEW s \in Searches, FindCap(s)
      PROVE  NodesInv' /\ ScanProgress' /\ KnownIsListed' /\ FoundIsFirst'
  BY <1>1, <1>3 DEF FindCap
<1>4. CASE FreeEnd
  <2>1. /\ UNCHANGED <<device, list>> /\ pc' = "fill" /\ known' = known /\ first = 0
    BY <1>4 DEF FreeEnd
  <2>2. Listed("extended") = {}
    BY <2>1, EmptyList DEF Listed
  <2>3. ScanProgress' /\ FoundIsFirst'
    BY <2>1 DEF ScanProgress, FoundIsFirst
  <2>4. QED
    BY <1>0, <2>1, <2>2, <2>3, NodesKept, KnownKept
<1>5. CASE ScanCaps
  <2>1. UNCHANGED <<device, list>> /\ sought' = sought /\ pc = "fill"
    BY <1>5 DEF ScanCaps
  <2>2. "ext" \notin known => Listed("extended") = {}
    BY <1>0, <2>1 DEF KnownIsListed
  <2>3. CASE Scan("trad", trad.first) /\ UNCHANGED <<known, nested>>
    BY <1>0, <2>1, <2>2, <2>3, ScanBegins, KnownKept, NodesKept
  <2>4. CASE "caps" \notin want' /\ AfterTrad(want')
    <3> DEFINE f == want'
    <3>1. AfterTrad(f) /\ "caps" \notin f
      BY <2>4
    <3> HIDE DEF f
    <3>2. QED
      BY <1>0, <2>1, <3>1, AfterTradList, NodesKept
  <2>5. QED
    BY <1>5, <2>3, <2>4 DEF ScanCaps
<1>6. CASE TradEnd
  <2>1. UNCHANGED <<device, list>> /\ sought' = sought /\ pc = "trad" /\ ~GoesOn(trad)
    BY <1>6 DEF TradEnd, request
  <2>2. Listed("normal") = Reachable(trad)
    BY <1>0, <2>1, ScanEnds
  <2>3. "ext" \notin known => Listed("extended") = {}
    BY <1>0, <2>1 DEF KnownIsListed
  <2>4. CASE known' = known \cup {"caps"} /\ Search
    <3>1. NodesInv' /\ Listed("normal")' = Listed("normal") /\ Listed("extended")' = Listed("extended")
          /\ (HasExp' <=> HasExp) /\ trad' = trad /\ ext' = ext /\ nodes' = nodes
      BY <1>0, <2>1, NodesKept
    <3>2. ScanProgress' /\ FoundIsFirst'
      BY <2>4, <3>1, SearchBegins DEF Search, ScanProgress
    <3>3. "ext" \in known' => Listed("extended")' = IF HasExp' THEN Reachable(ext') ELSE {}
      BY <1>0, <2>4, <3>1 DEF KnownIsListed
    <3>4. KnownIsListed'
      BY <2>2, <2>3, <2>4, <3>1, <3>3 DEF KnownIsListed
    <3>5. QED
      BY <3>1, <3>2, <3>4
  <2>5. CASE AfterTrad(want)
    BY <1>0, <2>1, <2>2, <2>5, AfterTradList, NodesKept
  <2>6. QED
    BY <1>6, <2>4, <2>5 DEF TradEnd
<1>7. CASE ExtEnd
  <2>1. UNCHANGED <<device, list>> /\ sought' = sought /\ pc = "ext" /\ ~GoesOn(ext) /\ FillReturns(want)
    BY <1>7 DEF ExtEnd, request
  <2>2. Listed("extended") = Reachable(ext) /\ HasExp
    BY <1>0, <2>1, ScanEnds
  <2>3. "caps" \in known /\ "ext" \in want
    BY <2>1 DEF Calls
  <2>4. Listed("normal") = Reachable(trad)
    BY <1>0, <2>3 DEF KnownIsListed
  <2>5. QED
    BY <1>0, <2>1, <2>2, <2>3, <2>4, ReturnList, NodesKept
<1>8. CASE SearchTurn
  <2>1. UNCHANGED <<device, list>> /\ known' = known /\ pc = "search" /\ pc' = "search"
    BY <1>8 DEF SearchTurn
  <2>2. ScanProgress'
    BY <2>1 DEF ScanProgress
  <2>3. QED
    BY <1>0, <1>8, <2>1, <2>2, NodesKept, KnownKept, SearchTurnFound DEF KnownIsListed
<1>9. CASE SearchEnd
  <2>1. UNCHANGED <<device, list>> /\ sought' = sought /\ pc = "search" /\ at = 0
    BY <1>9 DEF SearchEnd, request
  <2>2. "ext" \notin known => Listed("extended") = {}
    BY <1>0, <2>1 DEF KnownIsListed
  <2>3. CASE ~nested /\ pc' = "idle" /\ UNCHANGED <<known, nested, scan, search>>
    <3>1. nodes' = nodes /\ Looking' = Looking /\ Passed' = Passed
      BY <2>1, <2>3 DEF list, search, Looking, Passed
    <3>2. FoundIsFirst'
      BY <1>0, <2>1, <2>3, <3>1 DEF FoundIsFirst, Matches, search
    <3>3. ScanProgress'
      BY <2>3 DEF ScanProgress
    <3>4. QED
      BY <1>0, <2>1, <2>2, <2>3, <3>2, <3>3, NodesKept, KnownKept
  <2>4. CASE nested /\ found # 0 /\ Scan("ext", ext.first) /\ UNCHANGED known
    <3>1. HasExp /\ "ext" \notin known
      BY <1>0, <2>1, <2>4, ExpFound DEF Calls
    <3>2. QED
      BY <1>0, <2>1, <2>2, <2>4, <3>1, ScanBegins, NodesKept, KnownKept
  <2>5. CASE nested /\ found = 0 /\ FillReturns(want)
    <3>1. ~HasExp /\ "ext" \notin known /\ "ext" \in want /\ "caps" \in known
      BY <1>0, <2>1, <2>5, ExpFound DEF Calls
    <3>2. Listed("normal") = Reachable(trad) /\ Listed("extended") = {}
      BY <1>0, <2>2, <3>1 DEF KnownIsListed
    <3>3. QED
      BY <1>0, <2>1, <2>5, <3>1, <3>2, ReturnList, NodesKept
  <2>6. QED
    BY <1>9, <2>3, <2>4, <2>5 DEF SearchEnd
<1>10. CASE UNCHANGED vars
  <2>1. UNCHANGED <<device, list, known, pc, request, nested, scan, search>> /\ UNCHANGED <<device, list>>
    BY <1>10 DEF vars
  <2>2. /\ trad' = trad /\ ext' = ext /\ nodes' = nodes /\ known' = known /\ pc' = pc /\ at' = at
        /\ been' = been /\ where' = where /\ Looking' = Looking /\ Passed' = Passed
        /\ index' = index /\ found' = found /\ sought' = sought
    BY <2>1 DEF device, list, scan, search, request, Looking, Passed
  <2>3. NodesInv' /\ Listed("normal")' = Listed("normal") /\ Listed("extended")' = Listed("extended")
        /\ (HasExp' <=> HasExp)
    BY <1>0, <2>1, NodesKept
  <2>4. ScanProgress' /\ FoundIsFirst'
    BY <1>0, <2>2, <2>3 DEF ScanProgress, FoundIsFirst, Matches
  <2>5. "ext" \in known' => Listed("extended")' = IF HasExp' THEN Reachable(ext') ELSE {}
    BY <1>0, <2>2, <2>3 DEF KnownIsListed
  <2>6. KnownIsListed'
    BY <1>0, <2>2, <2>3, <2>5 DEF KnownIsListed
  <2>7. QED
    BY <2>3, <2>4, <2>6
<1>11. QED
  BY <1>2, <1>3, <1>4, <1>5, <1>6, <1>7, <1>8, <1>9, <1>10 DEF Next, Step

----------------------------------------------------------------------------
(***************************************************************************)
(* The theorems.                                                           *)
(***************************************************************************)

\* The list is empty before the first call.
LEMMA InitList == Init => ListInv
<1> SUFFICES ASSUME Init PROVE ListInv
  OBVIOUS
<1>1. nodes = <<>> /\ DOMAIN nodes = {} /\ pc = "idle" /\ known = {} /\ sought = NoSearch /\ freed = {}
  BY DEF Init
<1>2. Listed("extended") = {}
  BY <1>1 DEF Listed
<1>3. NodesInv
  BY <1>1 DEF NodesInv, ListedIsReachable, ListedOnce, ListedInOrder
<1>4. ScanProgress /\ KnownIsListed /\ FoundIsFirst
  BY <1>1, <1>2 DEF ScanProgress, KnownIsListed, FoundIsFirst
<1>5. QED
  BY <1>1, <1>3, <1>4 DEF ListInv, Rescanned

\* Every step keeps the invariant of the list.
LEMMA ListStep ==
  ASSUME TypeOK, Calls, ListInv, [Next]_vars
  PROVE  ListInv'
<1>1. CASE Rescanned'
  BY <1>1, RescanStep DEF ListInv
<1>2. CASE ~Rescanned'
  <2>1. ~Rescanned /\ ~FreeCap
    <3>1. freed \subseteq freed'
      <4>1. CASE TradTurn \/ ExtTurn
        BY <4>1 DEF TradTurn, ExtTurn, Turn, AddCap
      <4>2. CASE FreeCap \/ FreeEnd \/ ScanCaps \/ TradEnd \/ ExtEnd \/ SearchTurn \/ SearchEnd
        BY <4>2 DEF FreeCap, FreeEnd, ScanCaps, TradEnd, ExtEnd, SearchTurn, SearchEnd, list
      <4>3. ASSUME NEW flags \in Requests, Request(flags) PROVE freed \subseteq freed'
        BY <4>3 DEF Request, list
      <4>4. ASSUME NEW s \in Searches, FindCap(s) PROVE freed \subseteq freed'
        BY <4>4 DEF FindCap, list
      <4>5. CASE UNCHANGED vars
        BY <4>5 DEF vars, list
      <4>6. QED
        BY <4>1, <4>2, <4>3, <4>4, <4>5 DEF Next, Step
    <3>2. FreeCap => Rescanned'
      BY DEF FreeCap, Rescanned
    <3>3. QED
      BY <1>2, <3>1, <3>2 DEF Rescanned
  <2>2. NodesInv' /\ ScanProgress' /\ KnownIsListed' /\ FoundIsFirst'
    BY <2>1, TurnStep, QuietStep
  <2>3. QED
    BY <1>2, <2>2 DEF ListInv
<1>3. QED
  BY <1>1, <1>2

\* The three parts of the invariant together are inductive.
LEMMA CapListInvariant == Spec => []CapListInv
<1>1. Init => CapListInv
  BY InitTypes, InitList DEF CapListInv
<1>2. CapListInv /\ [Next]_vars => CapListInv'
  BY TypeStep, CallsStep, ListStep DEF CapListInv
<1>3. QED
  BY <1>1, <1>2, PTL DEF Spec

\* For chains of any length and shape, the list stays well formed: until a
\* rescan it links every capability in the order found, and last_cap is the last.
THEOREM CapListTypeCorrect == Spec => []TypeOK
<1>1. CapListInv => TypeOK
  BY DEF CapListInv
<1>2. QED
  BY <1>1, CapListInvariant, PTL

\* What pci_scan_trad_caps and pci_scan_ext_caps list is what the device's
\* pointers reach, extended capabilities once and for PCI Express only.
THEOREM ListIsTheChain == Spec => []ListStandsForChain
<1>1. CapListInv => ListStandsForChain
  <2> SUFFICES ASSUME CapListInv PROVE ListStandsForChain
    OBVIOUS
  <2>1. CASE Rescanned
    BY <2>1 DEF CapListInv, ListInv, ListStandsForChain
  <2>2. CASE ~Rescanned
    BY <2>2 DEF CapListInv, ListInv, ListStandsForChain, KnownIsListed, HasExp, NodesInv, ListedOnce
  <2>3. QED
    BY <2>1, <2>2
<1>2. QED
  BY <1>1, CapListInvariant, PTL

\* pci_find_cap returns the first capability of the chain with the id asked
\* for, and NULL only if there is none.
THEOREM FindCapFindsFirst == Spec => []FindsFirstOfChain
<1>1. CapListInv => FindsFirstOfChain
  <2> SUFFICES ASSUME CapListInv, HasReturned, Looked, sought.target = 0
               PROVE  IF found = 0 THEN Hits(sought) = {}
                      ELSE /\ nodes[found].addr \in Hits(sought)
                           /\ HitsBefore(sought, nodes[found].addr) = {}
    BY DEF FindsFirstOfChain
  <2>1. /\ TypeOK /\ Calls /\ NodesInv /\ KnownIsListed /\ FoundIsFirst
        /\ pc = "idle" /\ sought # NoSearch
    BY DEF CapListInv, ListInv, HasReturned
  <2>2. nested = FALSE /\ Looking = sought /\ SoughtField \in known
    BY <2>1 DEF Calls, Looking, TypeOK
  <2>3. sought.type \in Types /\ Len(nodes) \in Nat /\ DOMAIN nodes = 1 .. Len(nodes) /\ found \in 0 .. Len(nodes)
        /\ at \in 0 .. Len(nodes)
    BY <2>1 DEF TypeOK, Searches, Types
  <2>4. Listed(sought.type) = Reachable(Chain(sought.type))
    <3>1. CASE sought.type = "normal"
      BY <2>1, <2>2, <3>1 DEF KnownIsListed, SoughtField, Chain
    <3>2. CASE sought.type = "extended"
      BY <2>1, <2>2, <3>2 DEF KnownIsListed, SoughtField, Chain, Looked, HasExp
    <3>3. QED
      BY <2>3, <3>1, <3>2 DEF Types
  <2>5. \A i \in DOMAIN nodes : Matches(i, sought) <=>
          nodes[i].type = sought.type /\ Chain(sought.type).cap[nodes[i].addr].id = sought.id
    BY <2>1 DEF Matches, NodesInv, ListedIsReachable
  <2>6. CASE found = 0
    <3>1. at = 0
      BY <2>1, <2>2 DEF FoundIsFirst
    <3>2. \A i \in 1 .. Passed : ~Matches(i, sought)
      BY <2>1, <2>2, <2>6 DEF FoundIsFirst
    <3>3. ASSUME NEW w \in Hits(sought) PROVE FALSE
      <4>1. PICK i \in DOMAIN nodes : nodes[i].type = sought.type /\ nodes[i].addr = w
        BY <2>4, <3>3 DEF Hits, Listed
      <4>2. Matches(i, sought)
        BY <2>5, <3>3, <4>1 DEF Hits
      <4>3. QED
        BY <2>3, <3>1, <3>2, <4>2 DEF Passed
    <3>4. QED
      BY <2>6, <3>3
  <2>7. CASE found # 0
    <3>1. found \in DOMAIN nodes /\ Matches(found, sought) /\ \A i \in 1 .. found - 1 : ~Matches(i, sought)
      BY <2>1, <2>2, <2>3, <2>7 DEF FoundIsFirst
    <3>2. nodes[found].addr \in Hits(sought) /\ nodes[found].type = sought.type
      BY <2>4, <2>5, <3>1 DEF Hits, Listed
    <3>3. ASSUME NEW v \in HitsBefore(sought, nodes[found].addr) PROVE FALSE
      <4>1. v \in Before(Chain(nodes[found].type), nodes[found].addr)
        BY <3>2, <3>3 DEF HitsBefore
      <4>2. PICK j \in 1 .. found - 1 : nodes[j].type = nodes[found].type /\ nodes[j].addr = v
        BY <2>1, <3>1, <4>1 DEF NodesInv, ListedInOrder
      <4>3. j \in DOMAIN nodes
        BY <2>3, <3>1
      <4>4. Matches(j, sought)
        BY <2>5, <3>2, <3>3, <4>2, <4>3 DEF HitsBefore
      <4>5. QED
        BY <3>1, <4>2, <4>4
    <3>4. QED
      BY <2>7, <3>2, <3>3
  <2>8. QED
    BY <2>6, <2>7
<1>2. QED
  BY <1>1, CapListInvariant, PTL
============================================================================
