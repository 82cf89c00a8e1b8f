------------------------------ MODULE Generic ------------------------------
(***************************************************************************)
(* src/lib/generic.c: what libpci does over any access method that only    *)
(* moves bytes, words and longs: split a block, scan the buses, decode the *)
(* base address registers.                                                 *)
(***************************************************************************)
EXTENDS Integers, Sequences

(***************************************************************************)
(* Blocks.                                                                 *)
(***************************************************************************)

\* A faulty variant: the word before the first long is forgotten.
ChunksByteFirst(pos, len) ==
  LET byte == IF pos % 2 = 1 /\ len >= 1 THEN 1 ELSE 0
      p    == pos + byte
      n    == (len - byte) \div 4
      rest == pos + len - (p + 4 * n)
  IN  (IF byte = 1 THEN <<[pos |-> pos, len |-> 1]>> ELSE <<>>)
        \o [i \in 1 .. n |-> [pos |-> p + 4 * (i - 1), len |-> 4]]
        \o (IF rest >= 2 THEN <<[pos |-> p + 4 * n, len |-> 2]>> ELSE <<>>)
        \o (IF rest % 2 = 1 THEN <<[pos |-> pos + len - 1, len |-> 1]>> ELSE <<>>)

\* The accesses pci_generic_block_op splits a block into: a byte and a word up
\* to the first long, longs, a word and a byte.
Chunks(pos, len) ==
  LET byte == IF pos % 2 = 1 /\ len >= 1 THEN 1 ELSE 0
      word == IF (pos + byte) % 4 # 0 /\ len - byte >= 2 THEN 2 ELSE 0
      p    == pos + byte + word
      n    == (len - byte - word) \div 4
      rest == pos + len - (p + 4 * n)
  IN  (IF byte = 1 THEN <<[pos |-> pos, len |-> 1]>> ELSE <<>>)
        \o (IF word = 2 THEN <<[pos |-> pos + byte, len |-> 2]>> ELSE <<>>)
        \o [i \in 1 .. n |-> [pos |-> p + 4 * (i - 1), len |-> 4]]
        \o (IF rest >= 2 THEN <<[pos |-> p + 4 * n, len |-> 2]>> ELSE <<>>)
        \o (IF rest % 2 = 1 THEN <<[pos |-> pos + len - 1, len |-> 1]>> ELSE <<>>)

(***************************************************************************)
(* Scanning.  A function is [bus, dev, fn, multi, sec]: multi is the bit   *)
(* that says the device has several functions, sec the bus behind a bridge *)
(* and None for anything else.                                             *)
(*                                                                         *)
(* A scan in progress is [fns, roots, busmap, list, loops]: the functions  *)
(* of the machine, the buses it is still to start from, those it has been  *)
(* at, the functions it has linked, and for each pci_generic_scan_bus that *)
(* has not returned, the innermost first, the functions its loops are      *)
(* still to come to.                                                       *)
(***************************************************************************)

None == -1

Before(f, g) == f.dev < g.dev \/ (f.dev = g.dev /\ f.fn < g.fn)

\* The functions on a bus that the loops read: beyond the first only where the
\* first is there and says so.
Visible(fns, bus) ==
  LET here == {f \in fns : f.bus = bus}
  IN  {f \in here : f.fn = 0 \/ \E g \in here : g.dev = f.dev /\ g.fn = 0 /\ g.multi}

\* The function the loops come to next.
Earliest(S) == CHOOSE f \in S : \A g \in S : ~Before(g, f)

\* A faulty variant: a bus that was scanned is scanned again.
ScanBusAgain(s, bus) ==
  [s EXCEPT !.busmap = @ \cup {bus}, !.loops = <<Visible(s.fns, bus)>> \o @]

\* pci_generic_scan_bus up to its loops; a bus is scanned once.
ScanBus(s, bus) ==
  IF bus \in s.busmap THEN s
  ELSE [s EXCEPT !.busmap = @ \cup {bus}, !.loops = <<Visible(s.fns, bus)>> \o @]

\* pci_generic_scan starts from bus 0, AIX from the buses it was told of, SylixOS
\* from every bus.
ScanRoot(s) == ScanBus([s EXCEPT !.roots = Tail(@)], Head(s.roots))

\* A turn of the loops: the function is linked, and the bus behind it scanned
\* before the next one.
ScanFunction(s) ==
  LET f == Earliest(Head(s.loops))
      t == [s EXCEPT !.list = Append(@, f), !.loops[1] = @ \ {f}]
  IN  IF f.sec = None THEN t ELSE ScanBus(t, f.sec)

ScanReturn(s) == [s EXCEPT !.loops = Tail(@)]

(***************************************************************************)
(* Base addresses.  A register is of one of these kinds; an address is the *)
(* set of registers it is put together from.                               *)
(***************************************************************************)

BarKind == {"zero", "ones", "io", "mem32", "mem64"}

\* pci_generic_fill_info for PCI_FILL_BASES: after each turn the addresses so far,
\* and the next register to be looked at.
BasesLoop(bars) ==
  LET cnt == Len(bars)
      Turn(s, i) ==
        IF i < s.next \/ bars[i] \in {"zero", "ones"} THEN s
        ELSE IF bars[i] # "mem64" THEN [s EXCEPT !.base[i] = {i}]
        ELSE IF i = cnt THEN s
        ELSE [base |-> [s.base EXCEPT ![i] = {i, i + 1}], next |-> i + 2]
      After[i \in 0 .. cnt] ==
        IF i = 0 THEN [base |-> [j \in 1 .. cnt |-> {}], next |-> 1]
        ELSE Turn(After[i - 1], i)
  IN  After

Bases(bars) == BasesLoop(bars)[Len(bars)].base
============================================================================
