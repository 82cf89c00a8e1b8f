------------------------- MODULE SysfsAccessProofs --------------------------
(***************************************************************************)
(* Proofs about SysfsAccess, for any number of slots, addresses and        *)
(* descriptors.                                                            *)
(***************************************************************************)
EXTENDS SysfsAccess, TLAPS

\* a->fd_rw says how the descriptor it goes with was opened.
ModeIsRemembered == access.fd # None => files[access.fd].rw = access.rw

\* The part of the invariant that speaks of the descriptors alone, for the
\* states between two steps of a function as well.
FdsOK(st) ==
  /\ st.access \in Access
  /\ DOMAIN st.files \subseteq Fd
  /\ \A f \in DOMAIN st.files : st.files[f] \in File
  /\ DOMAIN st.files = {st.access.fd, st.access.vpd} \ {None}
  /\ st.access.fd # None => st.access.fd # st.access.vpd
  /\ st.access.fd # None => st.files[st.access.fd].rw = st.access.rw

\* Every descriptor is for slot s.
AllFor(st, s) == \A f \in DOMAIN st.files : st.files[f].slot = s

\* Whatever is open is for the device of a->cached_dev.
Owned(st) ==
  \A f \in DOMAIN st.files : st.access.dev # None /\ slotOf[st.access.dev] = st.files[f].slot

Devices ==
  /\ plugs \in 0 .. MaxPlugs
  /\ node \in [Slot -> 0 .. plugs]
  /\ reg \in [Slot -> Value]
  /\ slotOf \in [Addr -> Slot \cup {None}]
  /\ cache \in [Addr -> Value \cup {None}]
  /\ last \in Outcome
  /\ filled \in [Addr -> [Fields -> 0 .. plugs \cup {None}]]
  /\ died \in BOOLEAN
  /\ departed \subseteq Addr
  /\ suspect \subseteq Addr

\* The last transfer went to the device it was for, by a descriptor it may use.
LastHit == last.own /\ last.allowed

\* Whoever is not listed as gone, is there: what FieldsOfOneDevice rests on.
ListedAreThere == \A d \in Addr : slotOf[d] # None /\ d \notin departed => node[slotOf[d]] # 0

\* A copy belongs to a structure in use.
CopiesAreInUse == \A d \in Addr : cache[d] # None => slotOf[d] # None

\* FdsServeTheirDevice alone does not survive a step: that a transfer hits its
\* own device needs Owned, and that a write finds a writable descriptor needs
\* ModeIsRemembered.
IInv ==
  /\ Devices
  /\ FdsOK(State)
  /\ Owned(State)
  /\ LastHit
  /\ ListedAreThere
  /\ FieldsOfOneDevice
  /\ CopiesAreInUse
  /\ CopyFollowsDevice

\* The invariant implies what the runs check.
LEMMA IInvImplies ==
  IInv => TypeOK /\ FdsServeTheirDevice /\ ModeIsRemembered
          /\ FieldsOfOneDevice /\ CopyFollowsDevice /\ WritesNeedWritableFd
BY DEF IInv, Devices, FdsOK, Owned, State, TypeOK, FdsServeTheirDevice, LastHit,
       ModeIsRemembered, WritesNeedWritableFd

\* sysfs_flush_cache leaves no descriptor open and none named.
LEMMA FlushCloses ==
  ASSUME NEW st, FdsOK(st)
  PROVE  /\ FdsOK(Flush(st))
         /\ DOMAIN Flush(st).files = {}
         /\ Flush(st).access.fd = None
         /\ Flush(st).access.vpd = None
<1>1. /\ Flush(st).access = [st.access EXCEPT !.dev = None, !.fd = None, !.vpd = None]
      /\ Flush(st).access \in Access
  BY DEF Flush, FdsOK, Access
<1>2. DOMAIN Flush(st).files = {}
  BY DEF Flush, FdsOK, Restrict
<1>3. Flush(st).access.fd = None /\ Flush(st).access.vpd = None
  BY <1>1 DEF FdsOK, Access
<1>4. QED
  BY <1>1, <1>2, <1>3 DEF FdsOK

\* The head of sysfs_setup leaves descriptors of d alone, and for a write none
\* that cannot write.
LEMMA PrepareKeeps ==
  ASSUME NEW d \in Addr, NEW intent, NEW st, FdsOK(st), Owned(st)
  PROVE  /\ FdsOK(Prepare(st, d, intent))
         /\ Prepare(st, d, intent).access.dev = d
         /\ AllFor(Prepare(st, d, intent), slotOf[d])
         /\ intent = "write" /\ Prepare(st, d, intent).access.fd # None
              => Prepare(st, d, intent).access.rw
<1>1. CASE st.access.dev # d \/ (intent = "write" /\ ~st.access.rw)
  <2> DEFINE f == Flush(st)
             p == [f EXCEPT !.access.dev = d]
  <2>1. Prepare(st, d, intent) = p
    BY <1>1 DEF Prepare
  <2>2. f.access \in Access /\ DOMAIN f.files = {} /\ f.access.fd = None /\ f.access.vpd = None
    BY FlushCloses DEF FdsOK
  <2>3. p.files = f.files /\ p.access = [f.access EXCEPT !.dev = d]
    BY DEF Flush
  <2> HIDE DEF f, p
  <2>4. p.access \in Access /\ p.access.dev = d /\ p.access.fd = None /\ p.access.vpd = None
    BY <2>2, <2>3 DEF Access
  <2>5. QED
    BY <2>1, <2>2, <2>3, <2>4 DEF FdsOK, AllFor
<1>2. CASE ~(st.access.dev # d \/ (intent = "write" /\ ~st.access.rw))
  <2>1. Prepare(st, d, intent) = st
    BY <1>2 DEF Prepare
  <2>2. QED
    BY <1>2, <2>1 DEF Owned, AllFor
<1>3. QED
  BY <1>1, <1>2

\* Opening one more file for the slot the others are for.
LEMMA OpenedKeeps ==
  ASSUME NEW st, FdsOK(st), NEW s \in Slot, NEW n \in Fd \ DOMAIN st.files,
         NEW rw \in BOOLEAN, node[s] # 0, AllFor(st, s), Devices,
         NEW o, o = Opened(st, n, s, rw)
  PROVE  /\ DOMAIN o = DOMAIN st.files \cup {n}
         /\ \A f \in DOMAIN o : o[f] \in File /\ o[f].slot = s
         /\ o[n].rw = rw
<1>1. node[s] \in 1 .. MaxPlugs
  BY MaxPlugsAssumption DEF Devices
<1>2. [slot |-> s, plug |-> node[s], rw |-> rw] \in File
  BY <1>1 DEF File
<1>3. QED
  BY <1>2 DEF Opened, FdsOK, AllFor

\* What sysfs_setup may leave: descriptors of d only, and for a write a
\* writable one or none.
LEMMA SetupKeeps ==
  ASSUME IInv, NEW d \in Addr, slotOf[d] # None,
         NEW intent \in {"read", "write", "vpd"}, NEW st \in Setup(d, intent)
  PROVE  /\ FdsOK(st)
         /\ st.access.dev = d
         /\ AllFor(st, slotOf[d])
         /\ intent = "write" /\ st.access.fd # None => st.access.rw
<1> DEFINE p == Prepare(State, d, intent)
<1>1. /\ FdsOK(p)
      /\ p.access.dev = d
      /\ AllFor(p, slotOf[d])
      /\ intent = "write" /\ p.access.fd # None => p.access.rw
  BY PrepareKeeps DEF IInv
<1>2. slotOf[d] \in Slot /\ Devices
  BY DEF IInv, Devices
<1>3. st \in IF intent = "vpd"
             THEN IF p.access.vpd # None THEN {p} ELSE OpenVpd(p, d)
             ELSE IF p.access.fd # None THEN {p} ELSE OpenConfig(p, d, intent)
  BY DEF Setup
<1> HIDE DEF p
<1>4. CASE st = p
  BY <1>1, <1>4
<1>5. CASE intent = "vpd" /\ p.access.vpd = None /\ st \in OpenVpd(p, d) /\ st # p
  <2> DEFINE rw == FALSE
  <2>1. rw \in BOOLEAN
    OBVIOUS
  <2>2. PICK n \in Fd \ DOMAIN p.files :
          /\ node[slotOf[d]] # 0
          /\ st = [access |-> [p.access EXCEPT !.vpd = n],
                   files |-> Opened(p, n, slotOf[d], rw)]
    BY <1>5 DEF OpenVpd
  <2> HIDE DEF rw
  <2>3. /\ st.access = [p.access EXCEPT !.vpd = n]
        /\ st.files = Opened(p, n, slotOf[d], rw)
    BY <2>2
  <2>4. /\ DOMAIN st.files = DOMAIN p.files \cup {n}
        /\ \A f \in DOMAIN st.files : st.files[f] \in File /\ st.files[f].slot = slotOf[d]
        /\ st.files[n].rw = rw
    BY <1>1, <1>2, <2>1, <2>2, <2>3, OpenedKeeps
  <2>5. /\ st.access \in Access /\ st.access.dev = d /\ st.access.vpd = n
        /\ st.access.fd = p.access.fd /\ st.access.rw = p.access.rw
    BY <1>1, <2>3 DEF FdsOK, Access
  <2>6. /\ n # None /\ n # p.access.fd
        /\ p.access.fd # None => p.access.fd \in DOMAIN p.files
    BY <1>1, <2>2, NoneAssumption DEF FdsOK
  <2>7. DOMAIN st.files = {st.access.fd, st.access.vpd} \ {None}
    <3>1. DOMAIN p.files = {p.access.fd} \ {None}
      BY <1>1, <1>5 DEF FdsOK
    <3>2. DOMAIN st.files = DOMAIN p.files \cup {n}
      BY <2>4, <2>3
    <3>3. QED
      BY <2>5, <2>6, <3>1, <3>2
  <2>8. FdsOK(st)
    <3>1. \A f \in DOMAIN p.files : st.files[f] = p.files[f]
      BY <2>3 DEF Opened
    <3>2. QED
      BY <1>1, <2>4, <2>5, <2>6, <2>7, <3>1 DEF FdsOK
  <2>9. QED
    BY <1>5, <2>4, <2>3, <2>5, <2>8 DEF AllFor
<1>6. CASE intent # "vpd" /\ p.access.fd = None /\ st \in OpenConfig(p, d, intent)
  <2> DEFINE rw == p.access.writeable \/ intent = "write"
             failed == [p EXCEPT !.access.rw = rw]
  <2>1. rw \in BOOLEAN
    OBVIOUS
  <2>2. /\ p = [access |-> p.access, files |-> p.files]
        /\ failed = [access |-> [p.access EXCEPT !.rw = rw], files |-> p.files]
    <3>1. p = [access |-> p.access, files |-> p.files]
      BY DEF p, Prepare, State, Flush
    <3>2. QED
      BY <3>1
  <2>3. \/ st = failed
        \/ \E n \in Fd \ DOMAIN p.files :
             /\ node[slotOf[d]] # 0
             /\ st = [access |-> [failed.access EXCEPT !.fd = n],
                      files |-> Opened(p, n, slotOf[d], rw)]
    BY <1>6 DEF OpenConfig
  <2> HIDE DEF rw, failed
  <2>4. /\ failed.access = [p.access EXCEPT !.rw = rw] /\ failed.files = p.files
        /\ failed.access \in Access /\ failed.access.dev = d
        /\ failed.access.fd = None /\ failed.access.vpd = p.access.vpd
        /\ failed.access.rw = rw
    BY <1>1, <1>6, <2>1, <2>2 DEF FdsOK, Access
  <2>5. CASE st = failed
    BY <1>1, <1>6, <2>4, <2>5 DEF FdsOK, AllFor
  <2>6. CASE st # failed
    <3>1. PICK n \in Fd \ DOMAIN p.files :
            /\ node[slotOf[d]] # 0
            /\ st = [access |-> [failed.access EXCEPT !.fd = n],
                     files |-> Opened(p, n, slotOf[d], rw)]
      BY <2>3, <2>6
    <3>2. /\ st.access = [failed.access EXCEPT !.fd = n]
          /\ st.files = Opened(p, n, slotOf[d], rw)
      BY <3>1
    <3>3. /\ DOMAIN st.files = DOMAIN p.files \cup {n}
          /\ \A f \in DOMAIN st.files : st.files[f] \in File /\ st.files[f].slot = slotOf[d]
          /\ st.files[n].rw = rw
      BY <1>1, <1>2, <2>1, <3>1, <3>2, OpenedKeeps
    <3>4. /\ st.access \in Access /\ st.access.dev = d /\ st.access.fd = n
          /\ st.access.vpd = p.access.vpd /\ st.access.rw = rw
      BY <2>4, <3>2 DEF Access
    <3>5. n # None /\ n # p.access.vpd
      BY <1>1, <3>1, NoneAssumption DEF FdsOK
    <3>6. FdsOK(st)
      BY <1>1, <1>6, <3>3, <3>2, <3>4, <3>5 DEF FdsOK
    <3>7. QED
      BY <3>3, <3>2, <3>4, <3>6, <1>6 DEF AllFor, rw
  <2>7. QED
    BY <2>5, <2>6
<1>7. QED
  BY <1>3, <1>4, <1>5, <1>6

\* A step that transfers through a descriptor sysfs_setup returned keeps the
\* invariant and finds the device it was asked for.
LEMMA TransferKeeps ==
  ASSUME IInv, NEW d \in Addr, slotOf[d] # None,
         NEW intent \in {"read", "write", "vpd"}, NEW st \in Setup(d, intent),
         NEW f \in {st.access.fd, st.access.vpd}, NEW write \in BOOLEAN,
         write => intent = "write" /\ f = st.access.fd,
         Leaves(st), Transfer(st, d, f, write), UNCHANGED slotOf
  PROVE  /\ FdsOK(State)' /\ Owned(State)'
         /\ LastHit'
         /\ last' \in Outcome
         /\ f # None => f \in DOMAIN st.files
<1>1. /\ FdsOK(st) /\ st.access.dev = d /\ AllFor(st, slotOf[d])
      /\ slotOf[d] \in Slot
      /\ intent = "write" /\ st.access.fd # None => st.access.rw
  BY SetupKeeps DEF IInv, Devices
<1>2. access' = st.access /\ files' = st.files
  BY DEF Leaves
<1>3. FdsOK(State)' /\ Owned(State)'
  BY <1>1, <1>2, NoneAssumption DEF FdsOK, Owned, State, AllFor
<1>4. CASE f = None
  BY <1>3, <1>4 DEF Transfer, IInv, Devices, LastHit
<1>5. CASE f # None
  <2>1. f \in DOMAIN st.files /\ st.files[f] \in File /\ st.files[f].slot = slotOf[d]
    BY <1>1, <1>5 DEF FdsOK, AllFor
  <2>2. last' = [own |-> st.files[f].slot = slotOf[d],
                 allowed |-> write => st.files[f].rw]
    BY <1>5 DEF Transfer
  <2>3. write => st.files[f].rw
    BY <1>1, <1>5 DEF FdsOK
  <2>4. QED
    BY <1>1, <1>3, <2>1, <2>2, <2>3 DEF LastHit, File, Outcome
<1>6. QED
  BY <1>4, <1>5

\* The initial states satisfy the invariant.
LEMMA InitEstablishes == Init => IInv
<1> SUFFICES ASSUME Init PROVE IInv
  OBVIOUS
<1>1. filled \in [Addr -> [Fields -> 0 .. plugs \cup {None}]]
  BY DEF Init, Unknown
<1>2. Devices /\ LastHit
  <2>1. plugs \in 0 .. MaxPlugs /\ node \in [Slot -> 0 .. plugs]
    BY MaxPlugsAssumption DEF Init
  <2>2. last \in Outcome /\ LastHit /\ died \in BOOLEAN
    BY DEF Init, LastHit, NoTransfer, Outcome
  <2>3. slotOf \in [Addr -> Slot \cup {None}] /\ cache \in [Addr -> Value \cup {None}]
    BY DEF Init
  <2>4. QED
    BY <1>1, <2>1, <2>2, <2>3 DEF Init, Devices
<1>3. FdsOK(State) /\ Owned(State)
  <2>1. PICK w \in BOOLEAN : access = NewAccess(w)
    BY DEF Init
  <2>2. DOMAIN files = {}
    BY DEF Init
  <2>3. QED
    BY <2>1, <2>2 DEF FdsOK, Owned, State, NewAccess, Access
<1>4. ListedAreThere /\ FieldsOfOneDevice /\ CopiesAreInUse /\ CopyFollowsDevice
  BY DEF Init, ListedAreThere, FieldsOfOneDevice, CopiesAreInUse, CopyFollowsDevice
<1>5. QED
  BY <1>2, <1>3, <1>4 DEF IInv

\* The part about descriptors and types.
FdInv == Devices /\ FdsOK(State) /\ Owned(State) /\ LastHit

\* Every step keeps that part.
LEMMA NextKeepsFds == IInv /\ [Next]_vars => FdInv'
<1> SUFFICES ASSUME IInv, [Next]_vars PROVE FdInv'
  OBVIOUS
<1> USE DEF IInv, FdInv
<1>1. ASSUME NEW s \in Slot, Appear(s) PROVE FdInv'
  <2>1. \A n \in 0 .. plugs : n \in 0 .. plugs + 1
    BY <1>1 DEF Devices
  <2>2. filled' \in [Addr -> [Fields -> 0 .. plugs' \cup {None}]]
    BY <1>1, <2>1 DEF Appear, Devices, info
  <2>3. Devices'
    BY <1>1, <2>2, MaxPlugsAssumption DEF Appear, Devices, info, Copies, Of
  <2>4. QED
    BY <1>1, <2>3 DEF Appear, FdsOK, Owned, State, LastHit
<1>2. ASSUME NEW s \in Slot, Vanish(s) PROVE FdInv'
  <2>1. Devices'
    BY <1>2, MaxPlugsAssumption DEF Vanish, Devices, Of
  <2>2. QED
    BY <1>2, <2>1 DEF Vanish, FdsOK, Owned, State, LastHit
<1>3. ASSUME NEW d \in Addr, NEW s \in Slot, AllocDev(d, s) PROVE FdInv'
  <2>1. Devices'
    BY <1>3 DEF AllocDev, kernel, Unknown, Devices
  <2>2. FdsOK(State)' /\ LastHit'
    BY <1>3 DEF AllocDev, FdsOK, State, LastHit
  <2>3. ASSUME NEW f \in DOMAIN files PROVE access.dev # None /\ access.dev # d
    <3>1. access.dev # None /\ slotOf[access.dev] = files[f].slot /\ files[f].slot \in Slot
      BY DEF Owned, State, FdsOK, File
    <3>2. QED
      BY <1>3, <3>1, NoneAssumption DEF AllocDev
  <2>4. Owned(State)'
    BY <1>3, <2>3 DEF AllocDev, Owned, State, Devices, FdsOK, Access
  <2>5. QED
    BY <2>1, <2>2, <2>4
<1>4. ASSUME NEW d \in Addr, FreeDev(d) PROVE FdInv'
  <2>1. Devices'
    BY <1>4 DEF FreeDev, kernel, info, Devices
  <2>2. LastHit'
    BY <1>4 DEF FreeDev, LastHit
  <2>3. CASE access.dev = d
    <3>1. State' = [access |-> Flush(State).access, files |-> Flush(State).files]
      BY <1>4, <2>3 DEF FreeDev, CleanupDev, Leaves, State
    <3>2. FdsOK(State)' /\ DOMAIN files' = {}
      <4>1. PICK f : f = Flush(State)
        OBVIOUS
      <4>2. FdsOK(f) /\ DOMAIN f.files = {}
        BY <4>1, FlushCloses
      <4>3. State'.access = f.access /\ State'.files = f.files /\ files' = f.files
        BY <3>1, <4>1 DEF State
      <4>4. FdsOK(State)'
        BY <4>2, <4>3 DEF FdsOK
      <4>5. QED
        BY <4>2, <4>3, <4>4
    <3>3. QED
      BY <2>1, <2>2, <3>2 DEF Owned, State
  <2>4. CASE access.dev # d
    <3>1. UNCHANGED <<access, files>>
      BY <1>4, <2>4 DEF FreeDev, CleanupDev, Leaves, State
    <3>2. Owned(State)'
      BY <1>4, <2>4, <3>1 DEF FreeDev, Owned, State, Devices, FdsOK, Access
    <3>3. QED
      BY <2>1, <2>2, <3>1, <3>2 DEF FdsOK, State
  <2>5. QED
    BY <2>3, <2>4
<1>5. ASSUME NEW d \in Addr, ReadConfig(d) PROVE FdInv'
  <2>1. PICK st \in Setup(d, "read") : Leaves(st) /\ Transfer(st, d, st.access.fd, FALSE)
    BY <1>5 DEF ReadConfig
  <2>2. slotOf[d] # None /\ UNCHANGED slotOf
    BY <1>5 DEF ReadConfig
  <2>3. /\ FdsOK(State)' /\ Owned(State)' /\ LastHit'
        /\ last' \in Outcome
    BY <2>1, <2>2, TransferKeeps
  <2>4. QED
    BY <1>5, <2>3 DEF ReadConfig, kernel, info, Devices
<1>6. ASSUME NEW d \in Addr, ReadVpd(d) PROVE FdInv'
  <2>1. PICK st \in Setup(d, "vpd") : Leaves(st) /\ Transfer(st, d, st.access.vpd, FALSE)
    BY <1>6 DEF ReadVpd
  <2>2. slotOf[d] # None /\ UNCHANGED slotOf
    BY <1>6 DEF ReadVpd
  <2>3. /\ FdsOK(State)' /\ Owned(State)' /\ LastHit'
        /\ last' \in Outcome
    BY <2>1, <2>2, TransferKeeps
  <2>4. QED
    BY <1>6, <2>3 DEF ReadVpd, kernel, info, Devices
<1>7. ASSUME NEW d \in Addr, Refresh(d) PROVE FdInv'
  <2>1. PICK st \in Setup(d, "read") :
          /\ Leaves(st) /\ Transfer(st, d, st.access.fd, FALSE)
          /\ \/ UNCHANGED cache
             \/ /\ st.access.fd # None
                /\ cache' = [cache EXCEPT ![d] = reg[st.files[st.access.fd].slot]]
    BY <1>7 DEF Refresh
  <2>2. slotOf[d] # None /\ UNCHANGED slotOf
    BY <1>7 DEF Refresh
  <2>3. /\ FdsOK(State)' /\ Owned(State)' /\ LastHit'
        /\ last' \in Outcome
    BY <2>1, <2>2, TransferKeeps
  <2>4. st.access.fd # None => st.files[st.access.fd].slot \in Slot
    BY <2>2, SetupKeeps DEF FdsOK, File
  <2>5. cache' \in [Addr -> Value \cup {None}]
    BY <2>1, <2>4 DEF Devices
  <2>6. QED
    BY <1>7, <2>3, <2>5 DEF Refresh, kernel, info, Devices
<1>8. ASSUME NEW d \in Addr, NEW v \in Value, WriteConfig(d, v) PROVE FdInv'
  <2>1. PICK st \in Setup(d, "write") :
          /\ Leaves(st) /\ Transfer(st, d, st.access.fd, TRUE)
          /\ Store(st, d, st.access.fd, v)
    BY <1>8 DEF WriteConfig
  <2>2. slotOf[d] # None /\ UNCHANGED slotOf
    BY <1>8 DEF WriteConfig
  <2>3. /\ FdsOK(State)' /\ Owned(State)' /\ LastHit'
        /\ last' \in Outcome
    BY <2>1, <2>2, TransferKeeps
  <2>4. reg' \in [Slot -> Value]
    BY <2>1 DEF Store, Devices
  <2>5. cache' \in [Addr -> Value \cup {None}]
    BY <1>8 DEF WriteConfig, Devices
  <2>6. suspect' \subseteq Addr
    BY <2>1 DEF Store, Copies, Of, Devices
  <2>7. QED
    BY <1>8, <2>3, <2>4, <2>5, <2>6 DEF WriteConfig, kernel, info, Devices
<1>9. ASSUME Cleanup PROVE FdInv'
  <2>1. PICK w \in BOOLEAN : access' = NewAccess(w)
    BY <1>9 DEF Cleanup
  <2>2. DOMAIN files' = {}
    BY <1>9, FlushCloses DEF Cleanup
  <2>3. FdsOK(State)' /\ Owned(State)'
    BY <2>1, <2>2 DEF FdsOK, Owned, State, NewAccess, Access
  <2>4. QED
    BY <1>9, <2>3 DEF Cleanup, Unknown, kernel, Devices, LastHit
<1>10. ASSUME NEW d \in Addr, NEW field \in Fields, FillInfo(d, field) PROVE FdInv'
  <2>1. {0, node[slotOf[d]]} \subseteq 0 .. plugs
    BY <1>10 DEF FillInfo, Devices
  <2>2. filled' \in [Addr -> [Fields -> 0 .. plugs \cup {None}]] /\ died' \in BOOLEAN
    <3>1. /\ \/ UNCHANGED filled
             \/ \E n \in 0 .. plugs : filled' = [filled EXCEPT ![d][field] = n]
          /\ died' \in BOOLEAN
      BY <1>10, <2>1 DEF FillInfo, FillMandatory, FillOptional, Devices
    <3>2. filled \in [Addr -> [Fields -> 0 .. plugs \cup {None}]]
      BY DEF Devices
    <3>3. ASSUME NEW n \in 0 .. plugs
          PROVE  [filled EXCEPT ![d][field] = n] \in [Addr -> [Fields -> 0 .. plugs \cup {None}]]
      <4>1. filled[d] \in [Fields -> 0 .. plugs \cup {None}]
        BY <3>2
      <4>2. [filled[d] EXCEPT ![field] = n] \in [Fields -> 0 .. plugs \cup {None}]
        BY <4>1
      <4>3. QED
        BY <3>2, <4>2
    <3>4. QED
      BY <3>1, <3>2, <3>3
  <2>3. Devices'
    BY <1>10, <2>2 DEF FillInfo, kernel, Devices
  <2>4. QED
    BY <1>10, <2>3 DEF FillInfo, FdsOK, Owned, State, LastHit
<1>11. ASSUME NEW s \in Slot, DeviceChanges(s) PROVE FdInv'
  <2>1. Devices'
    BY <1>11 DEF DeviceChanges, kernel, info, Devices, Copies, Of
  <2>2. QED
    BY <1>11, <2>1 DEF DeviceChanges, FdsOK, Owned, State, LastHit
<1>12. CASE UNCHANGED vars
  BY <1>12 DEF vars, Devices, FdsOK, Owned, State, LastHit
<1>13. QED
  BY <1>1, <1>2, <1>3, <1>4, <1>5, <1>6, <1>7, <1>8, <1>9, <1>10, <1>11, <1>12 DEF Next

\* A structure is listed while its device is there, and is marked when it goes;
\* what is read of it until then is read from that device.
LEMMA NextKeepsFields == IInv /\ [Next]_vars => ListedAreThere' /\ FieldsOfOneDevice'
<1> SUFFICES ASSUME IInv, [Next]_vars PROVE ListedAreThere' /\ FieldsOfOneDevice'
  OBVIOUS
<1> USE DEF IInv, Devices, ListedAreThere, FieldsOfOneDevice
<1>1. ASSUME NEW s \in Slot, Appear(s) PROVE ListedAreThere' /\ FieldsOfOneDevice'
  BY <1>1 DEF Appear, info
<1>2. ASSUME NEW s \in Slot, Vanish(s) PROVE ListedAreThere' /\ FieldsOfOneDevice'
  BY <1>2 DEF Vanish, Of
<1>3. ASSUME NEW d \in Addr, NEW s \in Slot, AllocDev(d, s)
      PROVE  ListedAreThere' /\ FieldsOfOneDevice'
  BY <1>3 DEF AllocDev, Unknown, kernel
<1>4. ASSUME NEW d \in Addr, FreeDev(d) PROVE ListedAreThere' /\ FieldsOfOneDevice'
  BY <1>4 DEF FreeDev, kernel
<1>5. ASSUME NEW d \in Addr, NEW field \in Fields, FillInfo(d, field)
      PROVE  ListedAreThere' /\ FieldsOfOneDevice'
  <2>1. UNCHANGED <<node, slotOf, departed>>
    BY <1>5 DEF FillInfo, kernel
  <2>2. \/ UNCHANGED filled
        \/ \E n \in {node[slotOf[d]]} \cup (IF field \in Optional THEN {0} ELSE {}) :
             filled' = [filled EXCEPT ![d][field] = n]
    BY <1>5 DEF FillInfo, FillMandatory, FillOptional
  <2>3. QED
    BY <2>1, <2>2
<1>6. ASSUME Cleanup PROVE ListedAreThere' /\ FieldsOfOneDevice'
  BY <1>6 DEF Cleanup, kernel
<1>7. ASSUME UNCHANGED <<node, slotOf, info>> PROVE ListedAreThere' /\ FieldsOfOneDevice'
  BY <1>7 DEF info
<1>8. CASE Next
  <2>1. ASSUME NEW d \in Addr, ReadConfig(d) \/ ReadVpd(d) \/ Refresh(d)
        PROVE  UNCHANGED <<node, slotOf, info>>
    BY <2>1 DEF ReadConfig, ReadVpd, Refresh, kernel
  <2>2. ASSUME NEW d \in Addr, NEW v \in Value, WriteConfig(d, v)
        PROVE  UNCHANGED <<node, slotOf, info>>
    BY <2>2 DEF WriteConfig, kernel
  <2>3. ASSUME NEW s \in Slot, DeviceChanges(s)
        PROVE  UNCHANGED <<node, slotOf, info>>
    BY <2>3 DEF DeviceChanges, kernel
  <2>4. QED
    BY <1>1, <1>2, <1>3, <1>4, <1>5, <1>6, <1>7, <1>8, <2>1, <2>2, <2>3 DEF Next
<1>9. QED
  BY <1>7, <1>8 DEF vars, info

\* The copies: a refresh reads the device's own registers, as its descriptor
\* is for its slot; a write changes both, or marks the copies it leaves behind.
LEMMA NextKeepsCopies == IInv /\ [Next]_vars => CopiesAreInUse' /\ CopyFollowsDevice'
<1> SUFFICES ASSUME IInv, [Next]_vars PROVE CopiesAreInUse' /\ CopyFollowsDevice'
  OBVIOUS
<1> USE DEF CopiesAreInUse, CopyFollowsDevice, Devices, Copies, Of
<1>0. Devices /\ CopiesAreInUse /\ CopyFollowsDevice
  BY DEF IInv
<1>1. ASSUME NEW s \in Slot, Appear(s) PROVE CopiesAreInUse' /\ CopyFollowsDevice'
  BY <1>0, <1>1 DEF Appear
<1>2. ASSUME NEW d \in Addr, NEW s \in Slot, AllocDev(d, s)
      PROVE  CopiesAreInUse' /\ CopyFollowsDevice'
  BY <1>0, <1>2, NoneAssumption DEF AllocDev
<1>3. ASSUME NEW d \in Addr, FreeDev(d) PROVE CopiesAreInUse' /\ CopyFollowsDevice'
  BY <1>0, <1>3 DEF FreeDev
<1>4. ASSUME NEW d \in Addr, Refresh(d) PROVE CopiesAreInUse' /\ CopyFollowsDevice'
  <2>1. PICK st \in Setup(d, "read") :
          \/ UNCHANGED <<cache, suspect>>
          \/ /\ st.access.fd # None
             /\ cache' = [cache EXCEPT ![d] = reg[st.files[st.access.fd].slot]]
             /\ suspect' = suspect \ {d}
    BY <1>4 DEF Refresh
  <2>2. slotOf[d] # None /\ UNCHANGED <<reg, slotOf>>
    BY <1>4 DEF Refresh
  <2>3. st.access.fd # None => st.files[st.access.fd].slot = slotOf[d]
    BY <2>2, SetupKeeps DEF FdsOK, AllFor
  <2>4. QED
    BY <1>0, <2>1, <2>2, <2>3
<1>5. ASSUME NEW d \in Addr, NEW v \in Value, WriteConfig(d, v)
      PROVE  CopiesAreInUse' /\ CopyFollowsDevice'
  <2>1. PICK st \in Setup(d, "write") :
          Store(st, d, st.access.fd, v)
    BY <1>5 DEF WriteConfig
  <2>2. /\ slotOf[d] # None /\ UNCHANGED slotOf
        /\ cache' = IF cache[d] = None THEN cache ELSE [cache EXCEPT ![d] = v]
    BY <1>5 DEF WriteConfig
  <2>3. st.access.fd # None => st.files[st.access.fd].slot = slotOf[d]
    BY <2>2, SetupKeeps DEF FdsOK, AllFor
  <2>4. CASE UNCHANGED reg /\ suspect' = suspect \cup (Copies(slotOf[d]) \cap {d})
    BY <1>0, <2>2, <2>4, NoneAssumption
  <2>5. ASSUME NEW w \in Value, st.access.fd # None,
               reg' = [reg EXCEPT ![st.files[st.access.fd].slot] = w],
               suspect' = suspect \cup
                 (IF w = v THEN Copies(slotOf[d]) \ {d} ELSE Copies(slotOf[d]))
        PROVE  CopiesAreInUse' /\ CopyFollowsDevice'
    BY <1>0, <2>2, <2>3, <2>5, NoneAssumption
  <2>6. QED
    BY <2>1, <2>4, <2>5 DEF Store
<1>6. ASSUME Cleanup PROVE CopiesAreInUse' /\ CopyFollowsDevice'
  BY <1>6 DEF Cleanup
<1>7. ASSUME UNCHANGED <<reg, slotOf, cache, suspect>>
      PROVE  CopiesAreInUse' /\ CopyFollowsDevice'
  BY <1>0, <1>7
<1>8. CASE Next
  <2>1. ASSUME NEW d \in Addr, ReadConfig(d) \/ ReadVpd(d)
        PROVE  UNCHANGED <<reg, slotOf, cache, suspect>>
    BY <2>1 DEF ReadConfig, ReadVpd
  <2>2. ASSUME NEW d \in Addr, NEW field \in Fields, FillInfo(d, field)
        PROVE  UNCHANGED <<reg, slotOf, cache, suspect>>
    BY <2>2 DEF FillInfo
  <2>3. ASSUME NEW s \in Slot, Vanish(s)
        PROVE  UNCHANGED <<reg, slotOf, cache, suspect>>
    BY <2>3 DEF Vanish
  <2>4. ASSUME NEW s \in Slot, DeviceChanges(s)
        PROVE  CopiesAreInUse' /\ CopyFollowsDevice'
    BY <1>0, <2>4 DEF DeviceChanges
  <2>5. QED
    BY <1>1, <1>2, <1>3, <1>4, <1>5, <1>6, <1>7, <1>8, <2>1, <2>2, <2>3, <2>4 DEF Next
<1>9. QED
  BY <1>7, <1>8 DEF vars

\* Every step keeps the invariant.
LEMMA NextKeeps == IInv /\ [Next]_vars => IInv'
BY NextKeepsFds, NextKeepsFields, NextKeepsCopies DEF IInv, FdInv

\* The invariant holds in every reachable state.
THEOREM Invariance == Spec => []IInv
BY InitEstablishes, NextKeeps, PTL DEF Spec

\* Every variable keeps its type.
THEOREM AccessTypeCorrect == Spec => []TypeOK
BY Invariance, IInvImplies, PTL

\* libpci never leaks a descriptor, never uses a closed one, and uses each only
\* for the device it was opened for, whatever struct pci_dev is freed and
\* allocated again at the same address.
THEOREM DescriptorsServeTheirDevice == Spec => []FdsServeTheirDevice
BY Invariance, IInvImplies, PTL

\* The cached registers are the device's unless, since the last refresh, a write
\* failed or did not store what it was given, another structure wrote, the device
\* or the kernel changed a register, or the device was exchanged.
THEOREM CopiesAreTrue == Spec => []CopyFollowsDevice
BY Invariance, IInvImplies, PTL

\* As long as its device stays, a struct pci_dev holds fields read from that
\* device alone, whatever slot and address were used for before.
THEOREM FieldsAreOfOneDevice == Spec => []FieldsOfOneDevice
BY Invariance, IInvImplies, PTL

\* sysfs_write never gets a descriptor that was opened for reading only.
THEOREM WritesAreAuthorised == Spec => []WritesNeedWritableFd
BY Invariance, IInvImplies, PTL
============================================================================
