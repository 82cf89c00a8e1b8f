------------------------------- MODULE BusMap -------------------------------
(***************************************************************************)
(* src/src/ls-map.c: how lspci's mapping mode finds out by which bridge    *)
(* each bus is entered, and which bridges were set up wrongly.             *)
(*                                                                         *)
(* A function is as in Generic, with the last bus of its range as well:    *)
(* [bus, dev, fn, multi, sec, sub].  A map in the making is [fns, bus,     *)
(* guests, via, bug, loops]: the functions do_map_bus has seen, as it has  *)
(* seen them, the next bus map_bridges looks at, the buses with a set      *)
(* guestbook, the bridges a bus was entered by, those that were marked     *)
(* with 1, "overlap bug", or 2, "crossing bug", and for each               *)
(* do_map_bridges that has not returned, the innermost first, the bridges  *)
(* its loop is still to come to and the range they should be in.           *)
(***************************************************************************)
EXTENDS Generic

\* The functions that the filter lets do_map_bus read.  Only the first function
\* of a device makes the loop go on to the others, so that with a filter for
\* one of these nothing is read.
Probed(fns, filter) ==
  {f \in fns : /\ filter.bus < 0 \/ filter.bus = f.bus
               /\ filter.slot < 0 \/ filter.slot = f.dev
               /\ filter.func < 0 \/ (filter.func = 0 /\ f.fn = 0)}

\* What scan_device refuses, by the filter, as no device of Adnacom's or since
\* it cannot be read, makes its bus exist and is no bridge.
Scanned(fns, refused) ==
  {IF f \in refused THEN [f EXCEPT !.sec = None, !.sub = None] ELSE f : f \in fns}

\* map_bridge puts a bridge in front of those found before it on the bus, and
\* takes a range that ends before it starts for its first bus alone.
Bridge(f) ==
  [bus |-> f.bus, dev |-> f.dev, fn |-> f.fn, first |-> f.sec,
   last |-> IF f.sec > f.sub THEN f.sec ELSE f.sub]

\* do_map_bus: what the list bus_info[bus].bridges holds.
BridgesOn(fns, bus) == {Bridge(f) : f \in {g \in Visible(fns, bus) : g.sec # None}}

Exists(fns, bus) == Visible(fns, bus) # {}

\* The list begins with the bridge that was found last.
Latest(S) == CHOOSE b \in S : \A c \in S : ~Before(b, c)

\* A faulty variant: the guestbook is not signed.
WalkUnsigned(m, bus, min, max) ==
  [m EXCEPT !.loops = <<[left |-> BridgesOn(m.fns, bus), min |-> min, max |-> max]>> \o @]

\* do_map_bridges up to its loop.
Walk(m, bus, min, max) ==
  [m EXCEPT !.guests = @ \cup {bus},
            !.loops = <<[left |-> BridgesOn(m.fns, bus), min |-> min, max |-> max]>> \o @]

\* map_bridges: an existing bus that no bridge on a lower one led to starts a walk
\* of its own.
MapBus(m, top) ==
  LET next == [m EXCEPT !.bus = @ + 1]
  IN  IF Exists(m.fns, m.bus) /\ m.bus \notin m.guests THEN Walk(next, m.bus, 0, top) ELSE next

\* A turn of the loop of do_map_bridges.
MapBridge(m) ==
  LET r    == Head(m.loops)
      b    == Latest(r.left)
      rest == [m EXCEPT !.loops[1].left = @ \ {b}]
  IN  IF b.first \in m.guests THEN [rest EXCEPT !.bug = @ \cup {<<b, 1>>}]
      ELSE IF b.first < r.min \/ b.last > r.max THEN [rest EXCEPT !.bug = @ \cup {<<b, 2>>}]
      ELSE Walk([rest EXCEPT !.via = @ \cup {b}], b.first, b.first, b.last)

MapReturn(m) == [m EXCEPT !.loops = Tail(@)]

\* The bug that map_bridges prints for each bridge: map_bridge leaves the byte as
\* malloc returned it, do_map_bridges writes it in the bridges it does not go
\* through, and in the others it is still what was held there, where 0 stands for
\* all values that print nothing.
Printed(m, bridges, held) ==
  m.bug \cup {<<b, held[b]>> : b \in {c \in bridges : \A n \in 1 .. 2 : <<c, n>> \notin m.bug}}
=============================================================================
