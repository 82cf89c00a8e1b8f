--------------------------- MODULE PciNamesProofs ---------------------------
(***************************************************************************)
(* Proofs about the lookup of names in PciNames, for every set of keys,    *)
(* every distribution of them over the sources and every set of flags.     *)
(***************************************************************************)
EXTENDS PciNames, TLAPS

\* Names of the DNS are only held for keys it knows, wherever they are.
NetNamesAreKnown ==
  \A k \in Key :
    /\ hash[k].src \in {"cache", "net"} /\ hash[k].name # "" => k \in NetKeys
    /\ file[k] # "none" => k \in NetKeys
    /\ tmp[k] # "none" => k \in NetKeys

\* A key that was read from the cache has an entry.
LoadedIsHashed == \A k \in loaded : hash[k] # NoEntry

\* What udev's database was asked for, and knows, has an entry.
AskedIsHashed ==
  pc \in {"turn", "done"} /\ call.tried /\ call.key \in HwdbKeys => hash[call.key] # NoEntry

\* A lookup that is over and has left no entry could not ask any further source.
GaveUp ==
  pc = "done" /\ hash[call.key] = NoEntry =>
    /\ "network" \notin call.flags
    /\ call.flags \cap {"skip_local", "no_hwdb"} = {} => call.tried
    /\ "cache" \in call.flags => status # 0

\* With a cache to write and no hash, a lookup with the network is still under
\* way, or there was one without it.
EmptyHashExplained ==
  /\ pc = "turn" /\ "refresh" \in call.flags /\ "network" \notin call.flags => alone
  /\ status = 2 /\ ~Allocated =>
       alone \/ (pc = "turn" /\ "network" \in call.flags)
  /\ pc = "crashed" => alone

\* An entry is nothing, an answer, that there is none, or a line of the cache.
LEMMA EntryForms ==
  ASSUME NEW e \in Entry
  PROVE  \/ e = NoEntry
         \/ e.src \in {"local", "hwdb"} /\ e.name # ""
         \/ e.src = "net" /\ e.name = "net"
         \/ e.src = "net" /\ e = NoAnswer
         \/ e.src = "cache" /\ e.name = "net"
<1>1. CASE e = NoEntry
  BY <1>1
<1>2. CASE e = [src |-> "net", name |-> ""]
  <2>1. e = NoAnswer
    BY <1>2 DEF NoAnswer
  <2>2. NoAnswer.src = "net"
    BY DEF NoAnswer
  <2>3. QED
    BY <2>1, <2>2
<1>3. CASE e \in {[src |-> s, name |-> s] : s \in {"local", "hwdb", "net"}}
  <2>1. PICK s \in {"local", "hwdb", "net"} : e = [src |-> s, name |-> s]
    BY <1>3
  <2>2. e.src = s /\ e.name = s
    BY <2>1
  <2>3. QED
    BY <2>2
<1>4. CASE e = [src |-> "cache", name |-> "net"]
  BY <1>4
<1>5. QED
  BY <1>1, <1>2, <1>3, <1>4 DEF Entry

\* The entries that sources make are entries.
LEMMA EntriesTyped ==
  /\ NoEntry \in Entry /\ NoAnswer \in Entry
  /\ \A s \in {"local", "hwdb", "net"} : [src |-> s, name |-> s] \in Entry
  /\ [src |-> "cache", name |-> "net"] \in Entry
  BY DEF Entry, NoEntry, NoAnswer

\* Sources of the entries that have names of their own.
LEMMA Sources == NoEntry.src = "none" /\ NoAnswer.src = "net" /\ NoAnswer.name = ""
  BY DEF NoEntry, NoAnswer

\* Whatever has a source is not the missing entry.
LEMMA SourcedIsThere ==
  ASSUME NEW e, e.src # "none"
  PROVE  e # NoEntry
<1>1. NoEntry.src = "none"
  BY DEF NoEntry
<1>2. QED
  BY <1>1

\* pci_id_insert makes an entry for its key, and changes none that is there.
LEMMA InsertKeeps ==
  ASSUME NEW h \in [Key -> Entry], NEW k \in Key, NEW e \in Entry
  PROVE  /\ Insert(h, k, e) \in [Key -> Entry]
         /\ \A j \in Key : j # k \/ h[j] # NoEntry => Insert(h, k, e)[j] = h[j]
         /\ h[k] = NoEntry => Insert(h, k, e)[k] = e
  BY DEF Insert

\* What a file is when it is written is a file.
LEMMA LinesTyped ==
  ASSUME NEW S, NEW torn
  PROVE  Lines(S, torn) \in [Key -> {"none", "net", "torn"}]
  BY DEF Lines

\* Reading the cache gives entries to the keys of its lines that have none.
LEMMA ReadKeeps ==
  ASSUME TypeOK, ReadCache
  PROVE  /\ hash' \in [Key -> Entry]
         /\ \A k \in Key : hash[k] # NoEntry => hash'[k] = hash[k]
         /\ \A k \in Key : hash'[k] = hash[k] \/ (file[k] = "net" /\ hash'[k].src = "cache")
         /\ \A k \in loaded' : k \in Key /\ file[k] = "net" /\ hash'[k] # NoEntry
<1>1. \A k \in Key : hash[k] \in Entry
  BY DEF TypeOK
<1>2. \A k \in Readable(file) : k \in Key /\ file[k] = "net"
  BY DEF Readable
<1>3. hash' = [k \in Key |-> IF k \in Readable(file) /\ hash[k] = NoEntry
                             THEN [src |-> "cache", name |-> file[k]] ELSE hash[k]]
  BY DEF ReadCache
<1>4. [src |-> "cache", name |-> "net"] \in Entry
  BY EntriesTyped
<1>5. [src |-> "cache", name |-> "net"] # NoEntry
  BY SourcedIsThere
<1>6. \A k \in Key : hash'[k] = IF k \in Readable(file) /\ hash[k] = NoEntry
                                THEN [src |-> "cache", name |-> "net"] ELSE hash[k]
  BY <1>2, <1>3
<1>7. loaded' = Readable(file)
  BY DEF ReadCache
<1>8. QED
  BY <1>1, <1>2, <1>3, <1>4, <1>5, <1>6, <1>7

\* What a turn puts into the hash: nothing, or one entry for the key of the call
\* that had none.
LEMMA TurnInserts ==
  ASSUME TypeOK, AskHwdb \/ NetAnswers \/ NetIsSilent
  PROVE  /\ hash' \in [Key -> Entry]
         /\ \A k \in Key : k # call.key \/ hash[k] # NoEntry => hash'[k] = hash[k]
         /\ hash'[call.key] \in
              {hash[call.key], NoAnswer} \cup {[src |-> s, name |-> s] : s \in {"hwdb", "net"}}
         /\ AskHwdb /\ call.key \in HwdbKeys => hash'[call.key] # NoEntry
         /\ NetAnswers \/ NetIsSilent => hash'[call.key] # NoEntry
         /\ hash'[call.key] = [src |-> "net", name |-> "net"] =>
              call.key \in NetKeys \/ hash'[call.key] = hash[call.key]
<1>1. hash \in [Key -> Entry] /\ call.key \in Key
  BY DEF TypeOK
<1>2. CASE AskHwdb
  <2>1. CASE call.key \in HwdbKeys
    <3> DEFINE e == [src |-> "hwdb", name |-> "hwdb"]
    <3>1. hash' = Insert(hash, call.key, e)
      BY <1>2, <2>1 DEF AskHwdb
    <3>2. e \in Entry /\ e # NoEntry /\ e.src = "hwdb"
      BY EntriesTyped, SourcedIsThere
    <3>3. e # [src |-> "net", name |-> "net"]
      BY <3>2
    <3>4. ~NetAnswers /\ ~NetIsSilent
      BY <1>2 DEF AskHwdb, NetAnswers, NetIsSilent, NetPending
    <3> HIDE DEF e
    <3>5. /\ hash' \in [Key -> Entry]
          /\ \A j \in Key : j # call.key \/ hash[j] # NoEntry => hash'[j] = hash[j]
          /\ hash[call.key] = NoEntry => hash'[call.key] = e
      BY <1>1, <3>1, <3>2, InsertKeeps
    <3>6. e \in {[src |-> s, name |-> s] : s \in {"hwdb", "net"}}
      BY DEF e
    <3>7. QED
      BY <1>1, <3>2, <3>3, <3>4, <3>5, <3>6
  <2>2. CASE call.key \notin HwdbKeys
    <3>1. hash' = hash
      BY <1>2, <2>2 DEF AskHwdb
    <3>2. ~NetAnswers /\ ~NetIsSilent
      BY <1>2 DEF AskHwdb, NetAnswers, NetIsSilent, NetPending
    <3>3. QED
      BY <1>1, <2>2, <3>1, <3>2
  <2>3. QED
    BY <2>1, <2>2
<1>3. CASE NetAnswers \/ NetIsSilent
  <2>1. ~AskHwdb
    BY <1>3 DEF AskHwdb, NetAnswers, NetIsSilent, NetPending
  <2>2. \E e \in {NoAnswer, [src |-> "net", name |-> "net"]} :
          /\ hash' = Insert(hash, call.key, e)
          /\ e = NoAnswer \/ call.key \in NetKeys
    BY <1>3 DEF NetAnswers, NetIsSilent, NoAnswer
  <2>3. PICK e \in {NoAnswer, [src |-> "net", name |-> "net"]} :
          /\ hash' = Insert(hash, call.key, e)
          /\ e = NoAnswer \/ call.key \in NetKeys
    BY <2>2
  <2>4. e \in Entry /\ e # NoEntry
    BY EntriesTyped, SourcedIsThere DEF NoAnswer
  <2>5. NoAnswer # [src |-> "net", name |-> "net"]
    BY DEF NoAnswer
  <2>6. /\ hash' \in [Key -> Entry]
        /\ \A j \in Key : j # call.key \/ hash[j] # NoEntry => hash'[j] = hash[j]
        /\ hash[call.key] = NoEntry => hash'[call.key] = e
    BY <1>1, <2>3, <2>4, InsertKeeps
  <2>7. QED
    BY <1>1, <2>1, <2>3, <2>4, <2>5, <2>6
<1>4. QED
  BY <1>2, <1>3

----------------------------------------------------------------------------

\* A fresh process is well typed.
LEMMA InitTyped == Init => TypeOK
<1> SUFFICES ASSUME Init PROVE TypeOK
  OBVIOUS
<1>1. hash \in [Key -> Entry]
  BY EntriesTyped DEF Init, NoHash
<1>2. call \in [key : Key, flags : SUBSET Flag, tried : BOOLEAN]
  <2>1. {{}} \subseteq SUBSET Flag /\ {FALSE} \subseteq BOOLEAN
    OBVIOUS
  <2>2. call \in [key : Key, flags : {{}}, tried : {FALSE}]
    BY DEF Init
  <2>3. QED
    BY <2>1, <2>2
<1>3. {file, tmp} \subseteq [Key -> {"none", "net", "torn"}]
  BY DEF Init, NoLines
<1>4. load_failed \in BOOLEAN /\ alone \in BOOLEAN /\ loaded \subseteq Key
  BY DEF Init
<1>5. status \in 0 .. 2 /\ pc \in {"idle", "turn", "done", "rename", "crashed"}
  BY DEF Init
<1>6. QED
  BY <1>1, <1>2, <1>3, <1>4, <1>5 DEF TypeOK

\* A process that starts again is well typed.
LEMMA FreshTyped ==
  ASSUME TypeOK, Fresh
  PROVE  /\ hash' \in [Key -> Entry] /\ tmp' \in [Key -> {"none", "net", "torn"}]
         /\ status' = 0 /\ load_failed' \in BOOLEAN /\ pc' = "idle"
         /\ loaded' = {} /\ alone' \in BOOLEAN /\ UNCHANGED call
         /\ \A k \in Key : hash'[k] = NoEntry /\ tmp'[k] = "none"
  BY EntriesTyped DEF TypeOK, Fresh, NoHash, NoLines

\* Loading the list gives its keys local names, and leaves nothing else.
LEMMA LoadMakes ==
  ASSUME NEW k, NEW flags, LookupLoadsList(k, flags) \/ LookupFindsNoList(k, flags)
  PROVE  /\ \/ \A j \in Key : hash'[j] = NoEntry
            \/ \A j \in Key : hash'[j] = IF j \in LocalKeys THEN [src |-> "local", name |-> "local"]
                                         ELSE NoEntry
         /\ status' = 0 /\ loaded' = {}
         /\ Ask(k, flags) /\ pc' = "turn"
  BY DEF LookupLoadsList, LookupFindsNoList, NoHash, Ask

\* The types are kept by the start of a lookup.
LEMMA AskTyped ==
  ASSUME TypeOK, NEW k \in Key, NEW flags \in Modes, Ask(k, flags)
  PROVE  /\ pc' = "turn" /\ call' \in [key : Key, flags : SUBSET Flag, tried : BOOLEAN]
         /\ alone' \in BOOLEAN /\ file' = file /\ tmp' = tmp
  BY ModesAssumption DEF TypeOK, Ask

\* Every step keeps the types.
LEMMA TypeStep == TypeOK /\ [Next]_vars => TypeOK'
<1> SUFFICES ASSUME TypeOK, [Next]_vars PROVE TypeOK'
  OBVIOUS
<1>1. CASE UNCHANGED vars
  BY <1>1 DEF TypeOK, vars
<1>2. ASSUME NEW k \in Key, NEW flags \in Modes, Lookup(k, flags) PROVE TypeOK'
  <2>1. Ask(k, flags) /\ UNCHANGED <<hash, status, load_failed, loaded>>
    BY <1>2 DEF Lookup
  <2>2. QED
    BY <2>1, AskTyped DEF TypeOK
<1>3. ASSUME NEW k \in Key, NEW flags \in Modes,
             LookupLoadsList(k, flags) \/ LookupFindsNoList(k, flags)
      PROVE  TypeOK'
  <2>1. Ask(k, flags) /\ status' = 0 /\ load_failed' \in BOOLEAN /\ loaded' = {}
    BY <1>3 DEF LookupLoadsList, LookupFindsNoList
  <2>2. hash' \in [Key -> Entry]
    BY <1>3, EntriesTyped DEF LookupLoadsList, LookupFindsNoList, NoHash
  <2>3. QED
    BY <2>1, <2>2, AskTyped DEF TypeOK
<1>4. CASE FindName \/ GiveUp
  BY <1>4 DEF TypeOK, FindName, GiveUp
<1>5. CASE ReadCache
  <2>1. UNCHANGED <<load_failed, pc, call, file, tmp, alone>> /\ status' = 1
    BY <1>5 DEF ReadCache
  <2>2. QED
    BY <1>5, <2>1, ReadKeeps DEF TypeOK
<1>6. CASE SkipCache
  BY <1>6 DEF TypeOK, SkipCache
<1>7. CASE AskHwdb
  <2>1. call' \in [key : Key, flags : SUBSET Flag, tried : BOOLEAN]
    BY <1>7 DEF TypeOK, AskHwdb
  <2>2. UNCHANGED <<status, load_failed, pc, file, tmp, loaded, alone>>
    BY <1>7 DEF AskHwdb
  <2>3. QED
    BY <1>7, <2>1, <2>2, TurnInserts DEF TypeOK
<1>8. CASE NetAnswers \/ NetIsSilent
  <2>1. /\ UNCHANGED <<load_failed, pc, call, file, tmp, loaded, alone>>
        /\ status' \in {status, 2}
    BY <1>8 DEF NetAnswers, NetIsSilent
  <2>2. QED
    BY <1>8, <2>1, TurnInserts DEF TypeOK
<1>9. CASE FreeNames \/ RenameFails \/ Die
  <2>1. Fresh /\ UNCHANGED file
    BY <1>9 DEF FreeNames, RenameFails, Die
  <2>2. QED
    BY <2>1, FreshTyped DEF TypeOK
<1>10. CASE Rename
  <2>1. Fresh /\ file' = tmp
    BY <1>10 DEF Rename
  <2>2. QED
    BY <2>1, FreshTyped DEF TypeOK
<1>11. CASE FlushCrashes
  BY <1>11 DEF TypeOK, FlushCrashes
<1>12. CASE WriteCache
  <2>1. PICK S \in SUBSET Writable(hash), torn \in SUBSET Writable(hash) : tmp' = Lines(S, torn)
    BY <1>12 DEF WriteCache
  <2>2. pc' = "rename" /\ UNCHANGED <<hash, status, load_failed, call, file, loaded, alone>>
    BY <1>12 DEF WriteCache
  <2>3. QED
    BY <2>1, <2>2, LinesTyped DEF TypeOK
<1>13. CASE OtherRenames
  <2>1. PICK S \in SUBSET NetKeys, torn \in SUBSET NetKeys : file' = Lines(S, torn)
    BY <1>13 DEF OtherRenames
  <2>2. UNCHANGED <<hash, status, load_failed, pc, call, tmp, loaded, alone>>
    BY <1>13 DEF OtherRenames
  <2>3. QED
    BY <2>1, <2>2, LinesTyped DEF TypeOK
<1>14. QED
  BY <1>1, <1>2, <1>3, <1>4, <1>5, <1>6, <1>7, <1>8, <1>9, <1>10, <1>11, <1>12, <1>13
  DEF Next, Request, Turn, Flush

\* The variables hold what the code's types allow: every entry of the hash has a
\* source and a name that go together, and the files hold lines for keys.
THEOREM NamesTypeCorrect == Spec => []TypeOK
  BY InitTyped, TypeStep, PTL DEF Spec

----------------------------------------------------------------------------
(* What is cached.                                                         *)

\* The keys the flush writes are keys the DNS knows.
LEMMA WritableAreKnown ==
  ASSUME TypeOK, NetNamesAreKnown
  PROVE  Writable(hash) \subseteq NetKeys
  BY DEF Writable, NetNamesAreKnown

\* A line is for one of the keys the file was written with.
LEMMA LinesOnlyOf ==
  ASSUME NEW S, NEW torn, NEW k \in Key, Lines(S, torn)[k] # "none"
  PROVE  k \in S \cup torn
  BY DEF Lines

\* Nothing is held at first.
LEMMA KnownInit == Init => NetNamesAreKnown
<1> SUFFICES ASSUME Init PROVE NetNamesAreKnown
  OBVIOUS
<1>1. \A k \in Key : hash[k] = NoEntry /\ file[k] = "none" /\ tmp[k] = "none"
  BY DEF Init, NoHash, NoLines
<1>2. QED
  BY <1>1, Sources DEF NetNamesAreKnown

\* Every step keeps NetNamesAreKnown.
LEMMA KnownStep == TypeOK /\ NetNamesAreKnown /\ [Next]_vars => NetNamesAreKnown'
<1> SUFFICES ASSUME TypeOK, NetNamesAreKnown, [Next]_vars PROVE NetNamesAreKnown'
  OBVIOUS
<1>1. CASE UNCHANGED <<hash, file, tmp>>
  BY <1>1 DEF NetNamesAreKnown
<1>2. ASSUME NEW k \in Key, NEW flags \in Modes,
             LookupLoadsList(k, flags) \/ LookupFindsNoList(k, flags)
      PROVE  NetNamesAreKnown'
  <2>1. UNCHANGED <<file, tmp>>
    BY <1>2 DEF LookupLoadsList, LookupFindsNoList, Ask
  <2>2. \A j \in Key : hash'[j].src \in {"local", "none"}
    <3> DEFINE e == [src |-> "local", name |-> "local"]
    <3>1. e.src = "local"
      OBVIOUS
    <3>2. \A j \in Key : hash'[j] \in {e, NoEntry}
      BY <1>2, LoadMakes
    <3> HIDE DEF e
    <3>3. QED
      BY <3>1, <3>2, Sources
  <2>3. QED
    BY <2>1, <2>2 DEF NetNamesAreKnown
<1>3. CASE ReadCache
  <2>1. UNCHANGED <<file, tmp>>
    BY <1>3 DEF ReadCache
  <2>2. QED
    BY <1>3, <2>1, ReadKeeps DEF NetNamesAreKnown
<1>4. CASE AskHwdb \/ NetAnswers \/ NetIsSilent
  <2>1. UNCHANGED <<file, tmp>>
    BY <1>4 DEF AskHwdb, NetAnswers, NetIsSilent
  <2>2. call.key \in Key
    BY DEF TypeOK
  <2>3. hash'[call.key].src \in {"cache", "net"} /\ hash'[call.key].name # "" =>
          call.key \in NetKeys
    <3>1. CASE hash'[call.key] = hash[call.key]
      BY <2>2, <3>1 DEF NetNamesAreKnown
    <3>2. CASE hash'[call.key] = NoAnswer
      <4>1. NoAnswer.name = ""
        BY DEF NoAnswer
      <4>2. QED
        BY <3>2, <4>1
    <3>3. CASE hash'[call.key] = [src |-> "hwdb", name |-> "hwdb"]
      BY <3>3
    <3>4. CASE hash'[call.key] = [src |-> "net", name |-> "net"]
      BY <1>4, <3>1, <3>4, TurnInserts
    <3>5. QED
      BY <1>4, <3>1, <3>2, <3>3, <3>4, TurnInserts
  <2>4. \A j \in Key : j # call.key => hash'[j] = hash[j]
    BY <1>4, TurnInserts
  <2>5. QED
    BY <2>1, <2>3, <2>4 DEF NetNamesAreKnown
<1>5. CASE Fresh /\ (file' = file \/ file' = tmp)
  <2>1. \A k \in Key : hash'[k].src = "none" /\ tmp'[k] = "none"
    BY <1>5, FreshTyped, Sources
  <2>2. QED
    BY <1>5, <2>1 DEF NetNamesAreKnown
<1>6. CASE WriteCache
  <2>1. PICK S \in SUBSET Writable(hash), torn \in SUBSET Writable(hash) : tmp' = Lines(S, torn)
    BY <1>6 DEF WriteCache
  <2>2. \A k \in Key : tmp'[k] # "none" => k \in NetKeys
    BY <2>1, WritableAreKnown, LinesOnlyOf
  <2>3. UNCHANGED <<hash, file>>
    BY <1>6 DEF WriteCache
  <2>4. QED
    BY <2>2, <2>3 DEF NetNamesAreKnown
<1>7. CASE OtherRenames
  <2>1. PICK S \in SUBSET NetKeys, torn \in SUBSET NetKeys : file' = Lines(S, torn)
    BY <1>7 DEF OtherRenames
  <2>2. \A k \in Key : file'[k] # "none" => k \in NetKeys
    BY <2>1, LinesOnlyOf
  <2>3. UNCHANGED <<hash, tmp>>
    BY <1>7 DEF OtherRenames
  <2>4. QED
    BY <2>2, <2>3 DEF NetNamesAreKnown
<1>8. QED
  <2>1. CASE Request \/ UNCHANGED vars
    BY <2>1, <1>1, <1>2 DEF Request, Lookup, Ask, vars
  <2>2. CASE Turn
    BY <2>2, <1>1, <1>3, <1>4 DEF Turn, FindName, SkipCache, GiveUp
  <2>3. CASE Flush \/ Die
    BY <2>3, <1>1, <1>5, <1>6 DEF Flush, FreeNames, FlushCrashes, Rename, RenameFails, Die
  <2>4. QED
    BY <2>1, <2>2, <2>3, <1>7 DEF Next

\* An entry of the cache has a name of the DNS.
LEMMA KnownImplies == TypeOK /\ NetNamesAreKnown => CachedNamesAreAnswers
<1> SUFFICES ASSUME TypeOK, NetNamesAreKnown PROVE CachedNamesAreAnswers
  OBVIOUS
<1>1. \A k \in Key : hash[k].src = "cache" => hash[k].name = "net"
  <2> SUFFICES ASSUME NEW k \in Key, hash[k].src = "cache" PROVE hash[k].name = "net"
    OBVIOUS
  <2>1. hash[k] \in Entry
    BY DEF TypeOK
  <2>2. NoEntry.src = "none" /\ NoAnswer.src = "net"
    BY DEF NoEntry, NoAnswer
  <2>3. QED
    BY <2>1, <2>2, EntryForms
<1>2. QED
  BY <1>1 DEF NetNamesAreKnown, CachedNamesAreAnswers

\* Whatever names.c, the network and other processes do, and wherever a flush is
\* cut short, the cache file and what is read from it hold the DNS's answers.
THEOREM CacheHoldsAnswers == Spec => []CachedNamesAreAnswers
<1>1. Init => TypeOK /\ NetNamesAreKnown
  BY InitTyped, KnownInit
<1>2. TypeOK /\ NetNamesAreKnown /\ [Next]_vars => TypeOK' /\ NetNamesAreKnown'
  BY TypeStep, KnownStep
<1>3. TypeOK /\ NetNamesAreKnown => CachedNamesAreAnswers
  BY KnownImplies
<1>4. QED
  BY <1>1, <1>2, <1>3, PTL DEF Spec

----------------------------------------------------------------------------
(* What the hash keeps.                                                    *)

\* No turn takes an entry away or changes one.
LEMMA TurnKeeps ==
  ASSUME TypeOK, Turn
  PROVE  \A k \in Key : hash[k] # NoEntry => hash'[k] = hash[k]
<1>1. CASE ReadCache
  BY <1>1, ReadKeeps
<1>2. CASE AskHwdb \/ NetAnswers \/ NetIsSilent
  BY <1>2, TurnInserts
<1>3. CASE FindName \/ SkipCache \/ GiveUp
  BY <1>3 DEF FindName, SkipCache, GiveUp
<1>4. QED
  BY <1>1, <1>2, <1>3 DEF Turn

\* Only the list makes entries of the source local.
LEMMA TurnMakesNoLocal ==
  ASSUME TypeOK, Turn
  PROVE  \A k \in Key : hash'[k].src = "local" => hash'[k] = hash[k]
<1>1. CASE ReadCache
  BY <1>1, ReadKeeps
<1>2. CASE AskHwdb \/ NetAnswers \/ NetIsSilent
  <2>1. [src |-> "hwdb", name |-> "hwdb"].src # "local"
    OBVIOUS
  <2>2. [src |-> "net", name |-> "net"].src # "local"
    OBVIOUS
  <2>3. \A k \in Key : k # call.key => hash'[k] = hash[k]
    BY <1>2, TurnInserts
  <2>4. \/ hash'[call.key] = hash[call.key] \/ hash'[call.key] = NoAnswer
        \/ hash'[call.key] = [src |-> "hwdb", name |-> "hwdb"]
        \/ hash'[call.key] = [src |-> "net", name |-> "net"]
    BY <1>2, TurnInserts
  <2>5. hash'[call.key].src = "local" => hash'[call.key] = hash[call.key]
    BY <2>1, <2>2, <2>4, Sources
  <2>6. QED
    BY <2>3, <2>5
<1>3. CASE FindName \/ SkipCache \/ GiveUp
  BY <1>3 DEF FindName, SkipCache, GiveUp
<1>4. QED
  BY <1>1, <1>2, <1>3 DEF Turn

\* Steps that leave the hash alone, and those that make a new one.
LEMMA OtherSteps ==
  ASSUME [Next]_vars, ~Turn
  PROVE  \/ UNCHANGED <<hash, loaded>>
         \/ Fresh
         \/ \E k \in Key, flags \in Modes : LookupLoadsList(k, flags) \/ LookupFindsNoList(k, flags)
  BY DEF Next, Request, Lookup, Flush, FreeNames, FlushCrashes, WriteCache, Rename, RenameFails,
         Die, OtherRenames, vars

\* Every step keeps LocalListStaysWhole.
LEMMA LocalStep == TypeOK /\ LocalListStaysWhole /\ [Next]_vars => LocalListStaysWhole'
<1> SUFFICES ASSUME TypeOK, LocalListStaysWhole, [Next]_vars PROVE LocalListStaysWhole'
  OBVIOUS
<1>1. CASE Turn
  <2> SUFFICES ASSUME NEW j \in Key, hash'[j].src = "local", NEW k \in LocalKeys
               PROVE  hash'[k].src = "local"
    BY DEF LocalListStaysWhole
  <2>1. hash[j].src = "local"
    BY <1>1, TurnMakesNoLocal
  <2>2. k \in Key /\ hash[k].src = "local"
    BY <2>1, KeysAssumption DEF LocalListStaysWhole
  <2>3. hash[k] # NoEntry
    BY <2>2, Sources
  <2>4. QED
    BY <1>1, <2>2, <2>3, TurnKeeps
<1>2. CASE UNCHANGED <<hash, loaded>>
  BY <1>2 DEF LocalListStaysWhole
<1>3. CASE Fresh
  <2>1. \A k \in Key : hash'[k].src = "none"
    BY <1>3, FreshTyped, Sources
  <2>2. QED
    BY <2>1 DEF LocalListStaysWhole
<1>4. ASSUME NEW k \in Key, NEW flags \in Modes,
             LookupLoadsList(k, flags) \/ LookupFindsNoList(k, flags)
      PROVE  LocalListStaysWhole'
  <2>1. CASE \A j \in Key : hash'[j] = NoEntry
    BY <2>1, Sources DEF LocalListStaysWhole
  <2>2. CASE \A j \in Key : hash'[j] = IF j \in LocalKeys THEN [src |-> "local", name |-> "local"]
                                       ELSE NoEntry
    <3>1. \A j \in LocalKeys : hash'[j] = [src |-> "local", name |-> "local"]
      BY <2>2, KeysAssumption
    <3>2. [src |-> "local", name |-> "local"].src = "local"
      OBVIOUS
    <3>3. QED
      BY <3>1, <3>2 DEF LocalListStaysWhole
  <2>3. QED
    BY <1>4, <2>1, <2>2, LoadMakes
<1>5. QED
  BY <1>1, <1>2, <1>3, <1>4, OtherSteps

\* No lookup, with whatever flags, makes the names of the local list go for the
\* lookups after it: pci_id_insert never replaces them.
THEOREM LocalListIsKept == Spec => []LocalListStaysWhole
<1>1. Init => LocalListStaysWhole
  <2> SUFFICES ASSUME Init PROVE LocalListStaysWhole
    OBVIOUS
  <2>1. \A k \in Key : hash[k] = NoEntry
    BY DEF Init, NoHash
  <2>2. QED
    BY <2>1, Sources DEF LocalListStaysWhole
<1>2. QED
  BY <1>1, LocalStep, InitTyped, TypeStep, PTL DEF Spec

\* Every step keeps LoadedIsHashed.
LEMMA LoadedStep == TypeOK /\ LoadedIsHashed /\ [Next]_vars => LoadedIsHashed'
<1> SUFFICES ASSUME TypeOK, LoadedIsHashed, [Next]_vars PROVE LoadedIsHashed'
  OBVIOUS
<1>1. CASE ReadCache
  BY <1>1, ReadKeeps DEF LoadedIsHashed
<1>2. CASE Turn /\ ~ReadCache
  <2>1. loaded' = loaded /\ loaded \subseteq Key
    BY <1>2 DEF Turn, FindName, SkipCache, AskHwdb, NetAnswers, NetIsSilent, GiveUp, TypeOK
  <2>2. QED
    BY <1>2, <2>1, TurnKeeps DEF LoadedIsHashed
<1>3. CASE UNCHANGED <<hash, loaded>>
  BY <1>3 DEF LoadedIsHashed
<1>4. CASE loaded' = {}
  BY <1>4 DEF LoadedIsHashed
<1>5. QED
  BY <1>1, <1>2, <1>3, <1>4, OtherSteps, FreshTyped, LoadMakes

\* A flush that was not cut short leaves a line for each key that was read and
\* has an entry of the DNS or of the cache.
LEMMA LoadedImplies ==
  ASSUME TypeOK, LoadedIsHashed, NEW k \in loaded, file' = tmp, WrittenWhole
  PROVE  file'[k] = "net" \/ hash[k].src \in {"local", "hwdb"} \/ hash[k] = NoAnswer
<1>1. k \in Key /\ hash[k] \in Entry /\ hash[k] # NoEntry
  BY DEF TypeOK, LoadedIsHashed
<1>2. \/ hash[k].src \in {"local", "hwdb"}
      \/ hash[k].src = "net" /\ hash[k].name = "net"
      \/ hash[k] = NoAnswer
      \/ hash[k].src = "cache" /\ hash[k].name = "net"
  BY <1>1, EntryForms
<1>3. k \in Writable(hash) => file'[k] = "net"
  BY <1>1 DEF WrittenWhole, Lines
<1>4. QED
  BY <1>1, <1>2, <1>3 DEF Writable

\* What a process has read from the cache file is still there after its flush,
\* if no write failed, unless another source or an unanswered query made the
\* entry before the file was read.
THEOREM CacheIsNotForgotten == Spec => CacheKeepsWhatItRead
<1>1. Init => LoadedIsHashed
  BY DEF Init, LoadedIsHashed
<1>2. TypeOK /\ LoadedIsHashed =>
        [pc = "rename" /\ pc' = "idle" /\ file' = tmp /\ WrittenWhole =>
           \A k \in loaded :
             file'[k] = "net" \/ hash[k].src \in {"local", "hwdb"} \/ hash[k] = NoAnswer]_vars
  BY LoadedImplies
<1>3. QED
  BY <1>1, <1>2, LoadedStep, InitTyped, TypeStep, PTL DEF Spec, CacheKeepsWhatItRead

----------------------------------------------------------------------------
(* How lookups end.                                                        *)

\* What is known of sources that were asked.
EndInv == AskedIsHashed /\ GaveUp

\* Every step keeps AskedIsHashed and GaveUp.
LEMMA EndStep == TypeOK /\ EndInv /\ [Next]_vars => EndInv'
<1> SUFFICES ASSUME TypeOK, EndInv, [Next]_vars PROVE EndInv'
  OBVIOUS
<1> USE DEF EndInv
<1>1. CASE UNCHANGED <<hash, status, pc, call>>
  BY <1>1 DEF AskedIsHashed, GaveUp
<1>2. ASSUME NEW k \in Key, NEW flags \in Modes, Ask(k, flags) PROVE EndInv'
  <2>1. pc' = "turn" /\ call'.tried = FALSE
    BY <1>2 DEF Ask
  <2>2. QED
    BY <2>1 DEF AskedIsHashed, GaveUp
<1>3. CASE FindName
  <2>1. pc = "turn" /\ pc' = "done" /\ UNCHANGED <<hash, status, call>>
    BY <1>3 DEF FindName
  <2>2. hash[call.key] # NoEntry
    <3>1. hash[call.key].src \in Permitted(call.flags)
      BY <1>3 DEF FindName, Visible
    <3>2. hash[call.key].src # "none"
      BY <3>1 DEF Permitted
    <3>3. QED
      BY <3>2, Sources
  <2>3. QED
    BY <2>1, <2>2 DEF AskedIsHashed, GaveUp
<1>4. CASE ReadCache
  <2>1. pc = "turn" /\ pc' = "turn" /\ UNCHANGED call /\ call.key \in Key
    BY <1>4 DEF ReadCache, InTurn, TypeOK
  <2>2. QED
    BY <1>4, <2>1, ReadKeeps DEF AskedIsHashed, GaveUp
<1>5. CASE SkipCache
  BY <1>5 DEF SkipCache, InTurn, AskedIsHashed, GaveUp
<1>6. CASE AskHwdb
  <2>1. pc' = "turn" /\ call'.key = call.key /\ call.key \in Key
    BY <1>6 DEF AskHwdb, InTurn, TypeOK
  <2>2. call.key \in HwdbKeys => hash'[call.key] # NoEntry
    BY <1>6, TurnInserts
  <2>3. QED
    BY <2>1, <2>2 DEF AskedIsHashed, GaveUp
<1>7. CASE NetAnswers \/ NetIsSilent
  <2>1. pc' = "turn" /\ UNCHANGED call
    BY <1>7 DEF NetAnswers, NetIsSilent, NetPending, InTurn
  <2>2. hash'[call.key] # NoEntry
    BY <1>7, TurnInserts
  <2>3. QED
    BY <2>1, <2>2 DEF AskedIsHashed, GaveUp
<1>8. CASE GiveUp
  <2>1. pc = "turn" /\ pc' = "done" /\ UNCHANGED <<hash, status, call>>
    BY <1>8 DEF GiveUp, InTurn
  <2>2. ~("cache" \in call.flags /\ status = 0) /\ "network" \notin call.flags
    BY <1>8 DEF GiveUp, CachePending
  <2>3. call.flags \cap {"skip_local", "no_hwdb"} = {} => call.tried
    BY <1>8 DEF GiveUp, HwdbPending
  <2>4. QED
    BY <2>1, <2>2, <2>3 DEF AskedIsHashed, GaveUp
<1>9. CASE pc' \in {"idle", "rename", "crashed"}
  BY <1>9 DEF AskedIsHashed, GaveUp
<1>10. QED
  <2>1. CASE Request
    BY <2>1, <1>2 DEF Request, Lookup, LookupLoadsList, LookupFindsNoList
  <2>2. CASE Turn
    BY <2>2, <1>3, <1>4, <1>5, <1>6, <1>7, <1>8 DEF Turn
  <2>3. CASE Flush \/ Die
    BY <2>3, <1>9 DEF Flush, FreeNames, FlushCrashes, WriteCache, Rename, RenameFails, Die, Fresh
  <2>4. CASE OtherRenames \/ UNCHANGED vars
    BY <2>4, <1>1 DEF OtherRenames, vars
  <2>5. QED
    BY <2>1, <2>2, <2>3, <2>4 DEF Next

\* A hash with an entry is allocated.
LEMMA EntryAllocates ==
  ASSUME NEW k \in Key, hash[k] # NoEntry
  PROVE  Allocated
  BY DEF Allocated, NoHash

\* A turn never leaves an allocated hash empty.
LEMMA TurnStaysAllocated ==
  ASSUME TypeOK, Turn, Allocated
  PROVE  Allocated'
<1>1. PICK k \in Key : hash[k] # NoEntry
  <2>1. hash = [k \in Key |-> hash[k]]
    BY DEF TypeOK
  <2>2. QED
    BY <2>1 DEF Allocated, NoHash
<1>2. hash'[k] # NoEntry
  BY <1>1, TurnKeeps
<1>3. QED
  BY <1>2 DEF Allocated, NoHash

\* A lookup that wants the local list finds it loaded or missing, or a hash that
\* others have made entries in.
ListOrHash ==
  pc \in {"turn", "done"} /\ WantsLocal(call.flags) /\ LocalKeys # {} =>
    load_failed \/ Allocated

\* Every step keeps ListOrHash.
LEMMA ListStep == TypeOK /\ ListOrHash /\ [Next]_vars => ListOrHash'
<1> SUFFICES ASSUME TypeOK, ListOrHash, [Next]_vars PROVE ListOrHash'
  OBVIOUS
<1>1. ASSUME NEW k \in Key, NEW flags \in Modes, Lookup(k, flags) PROVE ListOrHash'
  <2>1. ~WantsList(flags) /\ call'.flags = flags /\ UNCHANGED <<hash, load_failed>>
    BY <1>1 DEF Lookup, Ask
  <2>2. QED
    BY <2>1 DEF ListOrHash, WantsLocal, WantsList, Allocated
<1>2. ASSUME NEW k \in Key, NEW flags \in Modes, LookupLoadsList(k, flags) PROVE ListOrHash'
  <2>1. ASSUME NEW j \in LocalKeys PROVE Allocated'
    <3>1. hash'[j].src = "local"
      BY <1>2, KeysAssumption DEF LookupLoadsList
    <3>2. j \in Key /\ hash'[j] # NoEntry
      BY <3>1, Sources, KeysAssumption
    <3>3. QED
      BY <3>2 DEF Allocated, NoHash
  <2>2. QED
    BY <2>1 DEF ListOrHash
<1>3. ASSUME NEW k \in Key, NEW flags \in Modes, LookupFindsNoList(k, flags) PROVE ListOrHash'
  BY <1>3 DEF LookupFindsNoList, ListOrHash
<1>4. CASE Turn
  <2>1. /\ pc = "turn" /\ UNCHANGED load_failed
        /\ call'.flags = call.flags
    BY <1>4 DEF Turn, FindName, ReadCache, SkipCache, AskHwdb, NetAnswers, NetIsSilent, GiveUp,
                NetPending, InTurn, TypeOK
  <2>2. QED
    BY <1>4, <2>1, TurnStaysAllocated DEF ListOrHash, WantsLocal
<1>5. CASE pc' \in {"idle", "rename", "crashed"}
  BY <1>5 DEF ListOrHash
<1>6. CASE UNCHANGED <<hash, load_failed, pc, call>>
  BY <1>6 DEF ListOrHash, Allocated
<1>7. QED
  <2>1. CASE Request
    BY <2>1, <1>1, <1>2, <1>3 DEF Request
  <2>2. CASE Flush \/ Die
    BY <2>2, <1>5 DEF Flush, FreeNames, FlushCrashes, WriteCache, Rename, RenameFails, Die, Fresh
  <2>3. CASE OtherRenames \/ UNCHANGED vars
    BY <2>3, <1>6 DEF OtherRenames, vars
  <2>4. QED
    BY <2>1, <2>2, <2>3, <1>4 DEF Next

\* With them, a lookup without an entry has asked all it may.
LEMMA EndImplies == EndInv /\ ListOrHash /\ LocalListStaysWhole => GivesUpAfterAllSources
<1> SUFFICES ASSUME EndInv, ListOrHash, LocalListStaysWhole,
                    pc = "done", hash[call.key] = NoEntry
             PROVE  /\ "network" \notin call.flags
                    /\ "hwdb" \in Permitted(call.flags) => call.key \notin HwdbKeys
                    /\ "cache" \in call.flags => status # 0
                    /\ WantsLocal(call.flags) /\ call.key \in LocalKeys =>
                         load_failed \/ HashedWithoutList
  BY DEF GivesUpAfterAllSources
<1>1. "hwdb" \in Permitted(call.flags) => call.flags \cap {"skip_local", "no_hwdb"} = {}
  BY DEF Permitted
<1>2. ASSUME WantsLocal(call.flags), call.key \in LocalKeys, ~load_failed
      PROVE  HashedWithoutList
  <2>1. Allocated
    BY <1>2 DEF ListOrHash
  <2>2. hash[call.key].src # "local"
    BY Sources
  <2>3. QED
    BY <1>2, <2>1, <2>2 DEF LocalListStaysWhole, HashedWithoutList
<1>3. QED
  BY <1>1, <1>2 DEF EndInv, AskedIsHashed, GaveUp

\* When id_lookup leaves its loop without an entry, each source that the flags
\* allow has been asked and does not know the id, but for a local list that was
\* not found or not loaded because the hash was there already.
THEOREM AllSourcesAreAsked == Spec => []GivesUpAfterAllSources
<1>1. Init => EndInv /\ ListOrHash
  BY DEF Init, EndInv, AskedIsHashed, GaveUp, ListOrHash
<1>2. QED
  BY <1>1, EndStep, ListStep, EndImplies, LocalListIsKept, InitTyped, TypeStep, PTL DEF Spec

----------------------------------------------------------------------------
(* The flush.                                                              *)

\* Every step keeps EmptyHashExplained.
LEMMA FlushStep == TypeOK /\ EmptyHashExplained /\ [Next]_vars => EmptyHashExplained'
<1> SUFFICES ASSUME TypeOK, EmptyHashExplained, [Next]_vars PROVE EmptyHashExplained'
  OBVIOUS
<1>1. CASE UNCHANGED <<hash, status, pc, call, alone>>
  BY <1>1 DEF EmptyHashExplained, Allocated
<1>2. ASSUME NEW k \in Key, NEW flags \in Modes, Lookup(k, flags) PROVE EmptyHashExplained'
  <2>1. /\ pc \in {"idle", "done"} /\ pc' = "turn" /\ UNCHANGED <<hash, status>>
        /\ call'.flags = flags
        /\ alone' = (alone \/ ("refresh" \in flags /\ "network" \notin flags))
    BY <1>2 DEF Lookup, Ask, Waiting
  <2>2. QED
    BY <2>1 DEF EmptyHashExplained, Allocated
<1>3. ASSUME NEW k \in Key, NEW flags \in Modes,
             LookupLoadsList(k, flags) \/ LookupFindsNoList(k, flags)
      PROVE  EmptyHashExplained'
  <2>1. /\ pc' = "turn" /\ status' = 0 /\ call'.flags = flags
        /\ alone' = (alone \/ ("refresh" \in flags /\ "network" \notin flags))
    BY <1>3 DEF LookupLoadsList, LookupFindsNoList, Ask
  <2>2. status' # 2
    BY <2>1
  <2>3. "refresh" \in flags /\ "network" \notin flags => alone'
    BY <2>1
  <2>4. pc' # "crashed"
    BY <2>1
  <2>5. QED
    BY <2>1, <2>2, <2>3, <2>4 DEF EmptyHashExplained
<1>4. CASE FindName
  <2>1. pc' = "done" /\ UNCHANGED <<hash, status, call, alone>>
    BY <1>4 DEF FindName
  <2>2. Allocated
    <3>1. hash[call.key].src # "none" /\ call.key \in Key
      BY <1>4 DEF FindName, Visible, Permitted, TypeOK
    <3>2. QED
      BY <3>1, Sources, EntryAllocates
  <2>3. QED
    BY <2>1, <2>2 DEF EmptyHashExplained, Allocated
<1>5. CASE ReadCache
  <2>1. pc' = pc /\ status' = 1 /\ UNCHANGED <<call, alone>>
    BY <1>5 DEF ReadCache
  <2>2. QED
    BY <2>1 DEF EmptyHashExplained
<1>6. CASE SkipCache
  <2>1. /\ pc = "turn" /\ "refresh" \in call.flags
        /\ UNCHANGED <<hash, pc, call, alone>>
    BY <1>6 DEF SkipCache, InTurn
  <2>2. QED
    BY <2>1 DEF EmptyHashExplained
<1>7. CASE AskHwdb
  <2>1. pc' = pc /\ UNCHANGED <<status, alone>> /\ call'.flags = call.flags
    BY <1>7 DEF AskHwdb, TypeOK
  <2>2. Allocated => Allocated'
    BY <1>7, TurnStaysAllocated DEF Turn
  <2>3. QED
    BY <2>1, <2>2 DEF EmptyHashExplained
<1>8. CASE NetAnswers \/ NetIsSilent
  <2>1. pc' = pc /\ pc = "turn" /\ UNCHANGED <<call, alone>> /\ "network" \in call.flags
    BY <1>8 DEF NetAnswers, NetIsSilent, NetPending, InTurn
  <2>2. QED
    BY <2>1 DEF EmptyHashExplained
<1>9. CASE GiveUp
  <2>1. /\ pc = "turn" /\ pc' = "done" /\ "network" \notin call.flags
        /\ UNCHANGED <<hash, status, call, alone>>
    BY <1>9 DEF GiveUp, InTurn
  <2>2. QED
    BY <2>1 DEF EmptyHashExplained, Allocated
<1>10. CASE Fresh
  <2>1. pc' = "idle" /\ status' = 0
    BY <1>10 DEF Fresh
  <2>2. QED
    BY <2>1 DEF EmptyHashExplained
<1>11. CASE FlushCrashes
  <2>1. /\ pc \in {"idle", "done"} /\ status = 2 /\ ~Allocated /\ pc' = "crashed"
        /\ UNCHANGED <<hash, status, call, alone>>
    BY <1>11 DEF FlushCrashes, Waiting
  <2>2. alone
    BY <2>1 DEF EmptyHashExplained
  <2>3. QED
    BY <2>1, <2>2 DEF EmptyHashExplained, Allocated
<1>12. CASE WriteCache
  <2>1. Allocated /\ pc' = "rename" /\ UNCHANGED <<hash, status, call, alone>>
    BY <1>12 DEF WriteCache
  <2>2. QED
    BY <2>1 DEF EmptyHashExplained, Allocated
<1>13. QED
  <2>1. CASE Request
    BY <2>1, <1>2, <1>3 DEF Request
  <2>2. CASE Turn
    BY <2>2, <1>4, <1>5, <1>6, <1>7, <1>8, <1>9 DEF Turn
  <2>3. CASE Flush \/ Die
    BY <2>3, <1>10, <1>11, <1>12 DEF Flush, FreeNames, Rename, RenameFails, Die
  <2>4. CASE OtherRenames \/ UNCHANGED vars
    BY <2>4, <1>1 DEF OtherRenames, vars
  <2>5. QED
    BY <2>1, <2>2, <2>3, <2>4 DEF Next

\* pci_id_cache_flush dereferences the missing hash only in a process that asked
\* to refresh the cache without the network.
THEOREM FlushIsSafe == Spec => []FlushFindsHash
<1>1. Init => EmptyHashExplained
  BY DEF Init, EmptyHashExplained
<1>2. EmptyHashExplained => FlushFindsHash
  BY DEF EmptyHashExplained, FlushFindsHash
<1>3. QED
  BY <1>1, <1>2, FlushStep, InitTyped, TypeStep, PTL DEF Spec

=============================================================================
