------------------------------ MODULE CapList ------------------------------
(***************************************************************************)
(* The list of capabilities libpci keeps of a device, and the fields it    *)
(* counts as known: src/lib/caps.c, pci_fill_info and pci_free_caps, one   *)
(* action per turn of a loop.                                              *)
(*                                                                         *)
(* The configuration space is reduced to its two chains: positions with an *)
(* id and the position of the next one.  Chains may loop, break or point   *)
(* anywhere, as those of a broken device do.  Capabilities are allocated   *)
(* one after the other and an address is never used twice.                 *)
(***************************************************************************)
EXTENDS Naturals, Sequences, FiniteSets

CONSTANTS
  Positions,    \* positions of traditional capabilities, without 0
  ExtStart,     \* the position 0x100
  ExtPositions, \* positions of extended capabilities, ExtStart among them
  Ids,          \* ids of traditional capabilities
  Exp,          \* PCI_CAP_ID_EXP, one of them
  ExtIds,       \* ids of extended capabilities
  Requests,     \* the sets of flags a caller passes to pci_fill_info
  Targets,      \* what cap_number points to when pci_find_cap_nr is called
  MaxNodes      \* bound on the capabilities allocated when a call is made

ASSUME PositionsAssumption ==
  /\ Positions \subseteq Nat \ {0} /\ IsFiniteSet(Positions)
  /\ ExtPositions \subseteq Nat \ {0} /\ IsFiniteSet(ExtPositions)
  /\ ExtStart \in ExtPositions
ASSUME IdsAssumption == Exp \in Ids /\ "broken" \notin Ids \cup ExtIds
ASSUME CallsAssumption == Targets \subseteq Nat /\ MaxNodes \in Nat

\* What a position reads as: 0xff or an empty header, or an id and a pointer.
Broken == [id |-> "broken", next |-> 0]
Chains(start, pos, ids) ==
  [first : start, cap : [pos -> {Broken} \cup [id : ids, next : pos \cup {0}]]]

VARIABLES
  trad, ext,   \* the two chains; trad.first is 0 when there is none
  nodes,       \* every struct pci_cap allocated; next is an index, 0 is NULL
  first, last, \* first_cap and last_cap
  freed,       \* nodes given back to malloc
  known,       \* known_fields, "caps" and "ext" among them
  pc,          \* the loop being run
  want,        \* the fields a pci_fill_info has not found known
  sought,      \* what pci_find_cap_nr looks for when they are, or NoSearch
  nested,      \* in the pci_find_cap of pci_scan_ext_caps
  where, been, \* position and been_there of a scan
  at, index, found  \* c, index and found of pci_find_cap_nr

device == <<trad, ext>>
list == <<nodes, first, last, freed>>
request == <<want, sought>>
scan == <<where, been>>
search == <<at, index, found>>
vars == <<device, list, known, pc, request, nested, scan, search>>

Types == {"normal", "extended"}
NoSearch == [type |-> "none"]
Searches ==
  [type : {"normal"}, id : Ids, target : Targets] \cup
  [type : {"extended"}, id : ExtIds, target : Targets]

\* pci_find_cap(d, PCI_CAP_ID_EXP, PCI_CAP_NORMAL)
ExpSearch == [type |-> "normal", id |-> Exp, target |-> 0]
Looking == IF nested THEN ExpSearch ELSE sought

Init ==
  /\ trad \in Chains(Positions \cup {0}, Positions, Ids)
  /\ ext \in Chains({ExtStart}, ExtPositions, ExtIds)
  /\ nodes = <<>> /\ first = 0 /\ last = 0 /\ freed = {} /\ known = {}
  /\ pc = "idle" /\ want = {} /\ sought = NoSearch /\ nested = FALSE
  /\ where = 0 /\ been = {} /\ at = 0 /\ index = 0 /\ found = 0

----------------------------------------------------------------------------
(***************************************************************************)
(* How the functions call each other and return.                           *)
(***************************************************************************)

\* A scan begins: been_there is cleared.
Scan(loop, start) ==
  /\ pc' = loop /\ where' = start /\ been' = {}
  /\ UNCHANGED search

\* pci_find_cap_nr begins to search the list.
Search ==
  /\ pc' = "search" /\ at' = first /\ index' = 0 /\ found' = 0
  /\ UNCHANGED scan

\* pci_fill_info returns; what was scanned is known.
FillReturns(fields) ==
  /\ known' = known \cup fields
  /\ nested' = FALSE
  /\ IF sought = NoSearch
     THEN pc' = "idle" /\ UNCHANGED <<scan, search>>
     ELSE Search

\* pci_find_cap within pci_scan_ext_caps: its own pci_fill_info scans again
\* while the fields of the outer one are not yet known.
FindExp ==
  /\ nested' = TRUE
  /\ known' = known
  /\ IF "caps" \in known THEN Search ELSE Scan("trad", trad.first)

\* pci_scan_caps after the traditional capabilities.
AfterTrad(fields) ==
  IF "ext" \in fields THEN FindExp ELSE FillReturns(fields)

----------------------------------------------------------------------------
(***************************************************************************)
(* The calls a program makes.                                              *)
(***************************************************************************)

\* pci_fill_info, with pci_reset_properties for a rescan.
FillInfo(flags) ==
  /\ known' = IF "rescan" \in flags THEN {} ELSE known
  /\ want' = flags \ ({"rescan"} \cup known')
  /\ pc' = IF "rescan" \in flags THEN "free" ELSE "fill"

Request(flags) ==
  /\ pc = "idle" /\ Len(nodes) <= MaxNodes
  /\ FillInfo(flags) /\ sought' = NoSearch
  /\ UNCHANGED <<device, list, nested, scan, search>>

\* pci_find_cap_nr(d, id, type, &target)
FindCap(s) ==
  /\ pc = "idle" /\ Len(nodes) <= MaxNodes
  /\ FillInfo(IF s.type = "normal" THEN {"caps"} ELSE {"ext"}) /\ sought' = s
  /\ UNCHANGED <<device, list, nested, scan, search>>

----------------------------------------------------------------------------
(***************************************************************************)
(* The loops.                                                              *)
(***************************************************************************)

\* pci_free_caps, which leaves last_cap as it is.
FreeCap ==
  /\ pc = "free" /\ first # 0
  /\ freed' = freed \cup {first} /\ first' = nodes[first].next
  /\ UNCHANGED <<device, nodes, last, known, pc, request, nested, scan, search>>

FreeEnd ==
  /\ pc = "free" /\ first = 0
  /\ pc' = "fill"
  /\ UNCHANGED <<device, list, known, request, nested, scan, search>>

\* The method fill_info, which knows every field, and pci_scan_caps.
ScanCaps ==
  /\ pc = "fill"
  /\ want' = want \cup (IF "ext" \in want /\ "caps" \notin known THEN {"caps"} ELSE {})
  /\ IF "caps" \in want'
     THEN Scan("trad", trad.first) /\ UNCHANGED <<known, nested>>
     ELSE AfterTrad(want')
  /\ UNCHANGED <<device, list, sought>>

\* The capabilities, with last_cap linked to n.
Linked(n) ==
  [i \in DOMAIN nodes |-> IF i = last THEN [nodes[i] EXCEPT !.next = n] ELSE nodes[i]]

\* A faulty variant: last_cap stays at the first capability.
AddCapKeepsLast(chain, type) ==
  LET n == Len(nodes) + 1
  IN  /\ nodes' = Append(Linked(n), [addr |-> where, id |-> chain.cap[where].id, type |-> type, next |-> 0])
      /\ first' = IF last = 0 THEN n ELSE first
      /\ last' = IF last = 0 THEN n ELSE last
      /\ UNCHANGED freed

\* pci_add_cap
AddCap(chain, type) ==
  LET n == Len(nodes) + 1
  IN  /\ nodes' = Append(Linked(n), [addr |-> where, id |-> chain.cap[where].id, type |-> type, next |-> 0])
      /\ first' = IF last = 0 THEN n ELSE first
      /\ last' = n
      /\ UNCHANGED freed

\* A faulty variant: an id of all ones is taken for one.
GoesOnToTheEnd(chain) == where # 0 /\ where \notin been

\* A scan ends at the end, at a place it has been and at a broken id.
GoesOn(chain) == where # 0 /\ where \notin been /\ chain.cap[where].id # "broken"

Turn(chain, type) ==
  /\ GoesOn(chain)
  /\ AddCap(chain, type)
  /\ where' = chain.cap[where].next
  /\ been' = been \cup {where}
  /\ UNCHANGED <<device, known, pc, request, nested, search>>

\* pci_scan_trad_caps
TradTurn == pc = "trad" /\ Turn(trad, "normal")

TradEnd ==
  /\ pc = "trad" /\ ~GoesOn(trad)
  /\ IF nested
     THEN known' = known \cup {"caps"} /\ Search /\ UNCHANGED nested
     ELSE AfterTrad(want)
  /\ UNCHANGED <<device, list, request>>

\* pci_scan_ext_caps
ExtTurn == pc = "ext" /\ Turn(ext, "extended")

ExtEnd ==
  /\ pc = "ext" /\ ~GoesOn(ext)
  /\ FillReturns(want)
  /\ UNCHANGED <<device, list, request>>

Matches(n, s) == nodes[n].type = s.type /\ nodes[n].id = s.id

\* A faulty variant: a later capability replaces the one found.
SearchTurnLast ==
  /\ pc = "search" /\ at # 0
  /\ at' = nodes[at].next
  /\ IF Matches(at, Looking)
     THEN /\ found' = IF Looking.target <= index THEN at ELSE found
          /\ index' = index + 1
     ELSE UNCHANGED <<found, index>>
  /\ UNCHANGED <<device, list, known, pc, request, nested, scan>>

\* The loop of pci_find_cap_nr.
SearchTurn ==
  /\ pc = "search" /\ at # 0
  /\ at' = nodes[at].next
  /\ IF Matches(at, Looking)
     THEN /\ found' = IF Looking.target = index THEN at ELSE found
          /\ index' = index + 1
     ELSE UNCHANGED <<found, index>>
  /\ UNCHANGED <<device, list, known, pc, request, nested, scan>>

SearchEnd ==
  /\ pc = "search" /\ at = 0
  /\ IF ~nested
     THEN pc' = "idle" /\ UNCHANGED <<known, nested, scan, search>>
     ELSE IF found # 0
          THEN Scan("ext", ext.first) /\ nested' = FALSE /\ UNCHANGED known
          ELSE FillReturns(want)
  /\ UNCHANGED <<device, list, request>>

Step ==
  FreeCap \/ FreeEnd \/ ScanCaps \/ TradTurn \/ TradEnd \/ ExtTurn \/ ExtEnd
  \/ SearchTurn \/ SearchEnd

Next ==
  \/ \E flags \in Requests : Request(flags)
  \/ \E s \in Searches : FindCap(s)
  \/ Step

Spec == Init /\ [][Next]_vars

----------------------------------------------------------------------------

\* A request with PCI_FILL_RESCAN has freed a list: caps.c:101 leaves last_cap
\* pointing into it, so that what is found from then on hangs behind a freed
\* capability while CAPS counts as known, and first_cap stays empty.
Rescanned == freed # {}

Nodes == [addr : Positions \cup ExtPositions, id : Ids \cup ExtIds, type : Types, next : Nat]

Fields == {"caps", "ext"} \cup UNION Requests

\* The list is well formed: until a rescan it links every capability, in the
\* order they were found, and last_cap points to the last.
TypeOK ==
  /\ trad \in Chains(Positions \cup {0}, Positions, Ids)
  /\ ext \in Chains({ExtStart}, ExtPositions, ExtIds)
  /\ nodes \in Seq(Nodes)
  /\ last = Len(nodes)
  /\ ~Rescanned =>
       /\ first = (IF nodes = <<>> THEN 0 ELSE 1)
       /\ \A i \in DOMAIN nodes : nodes[i].next = (IF i = Len(nodes) THEN 0 ELSE i + 1)
  /\ first \in 0 .. Len(nodes) /\ freed \subseteq DOMAIN nodes
  /\ known \subseteq Fields /\ want \subseteq Fields
  /\ pc \in {"idle", "free", "fill", "trad", "ext", "search"}
  /\ sought \in Searches \cup {NoSearch} /\ nested \in BOOLEAN
  /\ where \in Positions \cup ExtPositions \cup {0} /\ been \subseteq Positions \cup ExtPositions
  /\ at \in 0 .. Len(nodes) /\ found \in 0 .. Len(nodes) /\ index \in Nat

\* The reference: what following the pointers reaches is the least set that
\* holds the first capability and with each one the next, up to a broken id.
Alive(chain, w) == w # 0 /\ chain.cap[w].id # "broken"
Closed(chain, S) ==
  /\ Alive(chain, chain.first) => chain.first \in S
  /\ \A w \in S : Alive(chain, chain.cap[w].next) => chain.cap[w].next \in S
Reachable(chain) ==
  {w \in DOMAIN chain.cap : \A S \in SUBSET DOMAIN chain.cap : Closed(chain, S) => w \in S}

\* What is reached without going through w, which is what comes before w.
Before(chain, w) == Reachable([first |-> chain.first, cap |-> [chain.cap EXCEPT ![w] = Broken]])

Listed(type) == {nodes[i].addr : i \in {j \in DOMAIN nodes : nodes[j].type = type}}

\* Whatever the device's chain looks like, the list has every traditional
\* capability that can be reached and nothing else, and for a PCI Express
\* device, and for no other, the extended ones, each of them once.
\* (Traditional ones are entered twice when the extended ones are asked for
\* first: pci_scan_ext_caps has pci_find_cap scan for them again.)  After a
\* rescan of a list that was not empty there is no list any more.
ListStandsForChain ==
  IF Rescanned THEN pc # "free" => first = 0
  ELSE /\ "caps" \in known => Listed("normal") = Reachable(trad)
       /\ "ext" \in known =>
            /\ Listed("extended") =
                 IF \E w \in Reachable(trad) : trad.cap[w].id = Exp THEN Reachable(ext) ELSE {}
            /\ \A i, j \in DOMAIN nodes :
                 /\ nodes[i].type = "extended" /\ nodes[j].type = "extended"
                 /\ nodes[i].addr = nodes[j].addr
                 => i = j

Chain(type) == IF type = "normal" THEN trad ELSE ext

\* The capabilities of the chain that s asks for, and those of them before w.
Hits(s) == {w \in Reachable(Chain(s.type)) : Chain(s.type).cap[w].id = s.id}
HitsBefore(s, w) == {v \in Before(Chain(s.type), w) : Chain(s.type).cap[v].id = s.id}

HasReturned == pc = "idle" /\ sought # NoSearch /\ ~Rescanned
Looked == sought.type = "normal" \/ \E w \in Reachable(trad) : trad.cap[w].id = Exp

\* pci_find_cap, which every reader of the link status relies on, returns the
\* first capability of the chain with that id, and none only if there is none,
\* in whatever order fields and capabilities were asked for.
FindsFirstOfChain ==
  HasReturned /\ Looked /\ sought.target = 0 =>
    IF found = 0 THEN Hits(sought) = {}
    ELSE nodes[found].addr \in Hits(sought) /\ HitsBefore(sought, nodes[found].addr) = {}
============================================================================
