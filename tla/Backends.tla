------------------------------ MODULE Backends ------------------------------
(***************************************************************************)
(* How the access methods of libpci move bytes between the configuration   *)
(* registers of a device and a buffer, on a little-endian machine.         *)
(*                                                                         *)
(* A request is [op, domain, dev, pos, len, size, rw, twin]: size is what  *)
(* the file, dump or server behind the device holds, rw is whether the     *)
(* process may open it for writing, and twin is whether domain 0 has a     *)
(* device at the same address.  The outcome of a call says whether it      *)
(* succeeded, and which register of the device of which domain was moved   *)
(* from or to which byte of the buffer.                                    *)
(***************************************************************************)
EXTENDS Generic, FiniteSets

Refused == [ok |-> FALSE, moved |-> {}]

Done(moved) == [ok |-> TRUE, moved |-> moved]

\* Registers of the device in domain d, in order, with the bytes in order.
Straight(d, rq) == {[domain |-> d, reg |-> rq.pos + i, byte |-> i] : i \in 0 .. rq.len - 1}

\* The bytes of one long from offset o on, with the bytes of the buffer in
\* order; there is nothing past the long.
Lanes(d, rq, o) ==
  {[domain |-> d, reg |-> rq.pos - (rq.pos % 4) + o + i, byte |-> i] :
     i \in {j \in 0 .. rq.len - 1 : o + j < 4}}

\* A transfer of no more than the device holds, and what it says of less.
UpTo(d, rq) ==
  LET moved == {m \in Straight(d, rq) : m.reg < rq.size}
  IN  [ok |-> Cardinality(moved) = rq.len, moved |-> moved]

\* A length that is one access; other lengths are split.
Single(rq) == rq.len \in {1, 2, 4}

Pieces(rq) ==
  [i \in DOMAIN Chunks(rq.pos, rq.len) |->
     [rq EXCEPT !.pos = Chunks(rq.pos, rq.len)[i].pos, !.len = Chunks(rq.pos, rq.len)[i].len]]

\* The request as it is, and the accesses it may be split into.
Accesses(rq) == {rq} \cup {Pieces(rq)[i] : i \in DOMAIN Pieces(rq)}

\* pci_generic_block_op over a method, of which once gives the outcome of each
\* access: it stops at the first one that fails.
Split(rq, once) ==
  LET p    == Pieces(rq)
      made == {i \in DOMAIN p : \A j \in 1 .. i - 1 : once[p[j]].ok}
  IN  [ok    |-> \A i \in DOMAIN p : once[p[i]].ok,
       moved |-> UNION {{[m EXCEPT !.byte = @ + p[i].pos - rq.pos] : m \in once[p[i]].moved} :
                          i \in made}]

----------------------------------------------------------------------------

\* proc_read and proc_write: proc_setup first tries the name that a device of
\* domain 0 has.
Proc(rq) ==
  IF rq.op = "write" /\ ~rq.rw THEN Refused
  ELSE UpTo(IF rq.twin THEN 0 ELSE rq.domain, rq)

\* dump_read and dump_write; the latter ends the program.
Dump(rq) ==
  IF rq.op = "write" \/ rq.pos + rq.len > rq.size THEN Refused
  ELSE Done(Straight(rq.domain, rq))

\* conf1_read and conf1_write: the address port takes the long, the data port
\* the offset in it.
Conf1(rq) ==
  LET Once[r \in Accesses(rq)] ==
        IF r.domain # 0 \/ r.pos >= 256 THEN Refused
        ELSE Done(Lanes(0, r, r.pos % 4))
  IN  IF Single(rq) \/ ~Once[rq].ok THEN Once[rq] ELSE Split(rq, Once)

\* conf2_read and conf2_write: sixteen devices on a bus.
Conf2(rq) ==
  LET Once[r \in Accesses(rq)] ==
        IF r.domain # 0 \/ r.pos >= 256 \/ r.dev >= 16 THEN Refused
        ELSE Done(Straight(0, r))
  IN  IF Single(rq) \/ ~Once[rq].ok THEN Once[rq] ELSE Split(rq, Once)

\* fbsd_read and fbsd_write.
Fbsd(rq) ==
  LET Once[r \in Accesses(rq)] == IF r.pos >= 4096 THEN Refused ELSE Done(Straight(r.domain, r))
  IN  CASE ~rq.rw -> Refused
        [] rq.rw /\ Single(rq) -> Once[rq]
        [] rq.rw /\ ~Single(rq) -> Split(rq, Once)

\* obsd_read, of a long that the bytes are taken from, and obsd_write.
Obsd(rq) ==
  LET From(r) == CASE r.len = 1 -> r.pos % 4
                   [] r.len = 2 -> 2 * ((r.pos % 4) \div 2)
                   [] OTHER -> 0
      Once[r \in Accesses(rq)] ==
        IF r.domain # 0 \/ r.pos >= 256 THEN Refused
        ELSE Done(IF r.op = "read" THEN Lanes(0, r, From(r)) ELSE Straight(0, r))
  IN  IF Single(rq) THEN Once[rq] ELSE Split(rq, Once)

\* nbsd_read and nbsd_write: longs only, shifted to the byte or word.
Nbsd(rq) ==
  LET Once[r \in Accesses(rq)] ==
        IF r.domain # 0 \/ r.pos >= (IF r.op = "read" THEN 4096 ELSE 256) THEN Refused
        ELSE Done(Lanes(0, r, IF r.len = 4 THEN 0 ELSE r.pos % 4))
  IN  IF Single(rq) THEN Once[rq] ELSE Split(rq, Once)

\* aix_read and aix_write: the driver takes blocks.
Aix(rq) ==
  IF rq.domain # 0 \/ rq.pos + rq.len > 256 THEN Refused ELSE Done(Straight(0, rq))

\* darwin_read and darwin_write.
Darwin(rq) ==
  LET Once[r \in Accesses(rq)] == Done(Straight(r.domain, r))
  IN  IF Single(rq) THEN Once[rq] ELSE Split(rq, Once)

\* hurd_read and hurd_write: a server for each device.
Hurd(rq) ==
  LET Once[r \in Accesses(rq)] == UpTo(r.domain, r)
  IN  IF rq.len <= 4 THEN Once[rq] ELSE Split(rq, Once)

\* sylixos_read and sylixos_write, which know no domains.
Sylixos(rq) ==
  LET Once[r \in Accesses(rq)] == IF r.pos >= 256 THEN Refused ELSE Done(Straight(0, r))
  IN  IF Single(rq) THEN Once[rq] ELSE Split(rq, Once)

Backend ==
  {"proc", "dump", "conf1", "conf2", "fbsd", "obsd", "nbsd", "aix", "darwin", "hurd", "sylixos"}

\* The read or write entry of an access method.
Transfer(b, rq) ==
  CASE b = "proc"    -> Proc(rq)
    [] b = "dump"    -> Dump(rq)
    [] b = "conf1"   -> Conf1(rq)
    [] b = "conf2"   -> Conf2(rq)
    [] b = "fbsd"    -> Fbsd(rq)
    [] b = "obsd"    -> Obsd(rq)
    [] b = "nbsd"    -> Nbsd(rq)
    [] b = "aix"     -> Aix(rq)
    [] b = "darwin"  -> Darwin(rq)
    [] b = "hurd"    -> Hurd(rq)
    [] b = "sylixos" -> Sylixos(rq)
=============================================================================
