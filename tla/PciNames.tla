------------------------------ MODULE PciNames ------------------------------
(***************************************************************************)
(* src/lib/names*.c, built with PCI_USE_DNS and PCI_HAVE_HWDB: how the     *)
(* names of ids are looked up in the local list, the cache file, udev's    *)
(* database and the DNS, kept in one hash, and written back to the cache.  *)
(*                                                                         *)
(* One process is followed through every step of a lookup; other processes *)
(* share the cache file.  A key is a category with its ids.  What a source *)
(* says of a key is named after the source; the DNS also remembers that    *)
(* there is nothing, as the empty name.                                    *)
(***************************************************************************)
EXTENDS Naturals, FiniteSets

CONSTANTS
  Key,         \* what names are asked for
  LocalKeys,   \* those in the local list (pci.ids)
  HwdbKeys,    \* those in udev's database
  NetKeys,     \* those the DNS knows
  Modes        \* sets of flags that lookups are made with

Flag == {"network", "cache", "refresh", "skip_local", "no_hwdb", "numeric"}

ASSUME KeysAssumption == LocalKeys \cup HwdbKeys \cup NetKeys \subseteq Key
ASSUME ModesAssumption == Modes \subseteq SUBSET Flag

VARIABLES
  hash,          \* a->id_hash: for each key its entry
  status,        \* a->id_cache_status: not read, read, to be written
  load_failed,   \* a->id_load_failed
  pc,            \* idle, turn, done, rename or crashed
  call,          \* the lookup: its key, flags and tried_hwdb
  file,          \* the lines of the cache file
  tmp,           \* the lines of the temporary file
  loaded,        \* history: the keys read from the cache file
  alone          \* history: was a refresh asked for without the network?

vars == <<hash, status, load_failed, pc, call, file, tmp, loaded, alone>>

NoEntry == [src |-> "none", name |-> ""]

Entry ==
  {NoEntry, [src |-> "net", name |-> ""]}
    \cup {[src |-> s, name |-> s] : s \in {"local", "hwdb", "net"}}
    \cup {[src |-> "cache", name |-> "net"]}

NoHash == [k \in Key |-> NoEntry]

\* A file has a line for a key or none; the last line may be torn.
NoLines == [k \in Key |-> "none"]

Lines(S, torn) ==
  [k \in Key |-> IF k \in S THEN "net" ELSE IF k \in torn THEN "torn" ELSE "none"]

\* The id hash is allocated when the first entry is made.
Allocated == hash # NoHash

\* A faulty variant: a new entry replaces the one for the same key.
InsertOver(h, k, e) == [h EXCEPT ![k] = e]

\* pci_id_insert: an entry that is there stays.
Insert(h, k, e) == IF h[k] = NoEntry THEN [h EXCEPT ![k] = e] ELSE h

\* Sources that a lookup with these flags may see entries of.
Permitted(flags) ==
  {s \in {"local", "hwdb", "net", "cache"} :
     /\ s \in {"local", "hwdb"} => "skip_local" \notin flags
     /\ s = "hwdb"  => "no_hwdb" \notin flags
     /\ s = "net"   => "network" \in flags
     /\ s = "cache" => "cache" \in flags}

\* pci_id_lookup finds an entry for the key of the call.
Visible == hash[call.key].src \in Permitted(call.flags)

\* An entry that the flags of the call hide.
Hidden == hash[call.key] # NoEntry /\ ~Visible

----------------------------------------------------------------------------
(* pci_lookup_name, for one name.                                          *)

Waiting == pc \in {"idle", "done"}

WantsList(flags) ==
  ~Allocated /\ flags \cap {"numeric", "skip_local"} = {} /\ ~load_failed

Ask(k, flags) ==
  /\ Waiting
  /\ pc' = "turn"
  /\ call' = [key |-> k, flags |-> flags, tried |-> FALSE]
  /\ alone' = (alone \/ ("refresh" \in flags /\ "network" \notin flags))
  /\ UNCHANGED <<file, tmp>>

Lookup(k, flags) ==
  /\ ~WantsList(flags)
  /\ Ask(k, flags)
  /\ UNCHANGED <<hash, status, load_failed, loaded>>

\* pci_load_name_list, which throws away what there was.  With status 2 it
\* first flushes the cache, and gets here only when that cannot open its file:
\* WantsList says that there is no hash, and FlushCrashes is the other case.
LookupLoadsList(k, flags) ==
  /\ WantsList(flags)
  /\ Ask(k, flags)
  /\ hash' = [j \in Key |-> IF j \in LocalKeys THEN [src |-> "local", name |-> "local"] ELSE NoEntry]
  /\ status' = 0 /\ load_failed' = FALSE /\ loaded' = {}

LookupFindsNoList(k, flags) ==
  /\ WantsList(flags)
  /\ Ask(k, flags)
  /\ hash' = NoHash /\ status' = 0 /\ load_failed' = TRUE /\ loaded' = {}

----------------------------------------------------------------------------
(* id_lookup: one turn of its loop, or a part of one, at a time.           *)

CachePending == "cache" \in call.flags /\ status = 0

\* A faulty variant: who has a cache needs no database.
HwdbPendingUncached == ~call.tried /\ call.flags \cap {"skip_local", "no_hwdb", "cache"} = {}

HwdbPending == ~call.tried /\ call.flags \cap {"skip_local", "no_hwdb"} = {}

InTurn == pc = "turn" /\ ~Visible

FindName ==
  /\ pc = "turn" /\ Visible
  /\ pc' = "done"
  /\ UNCHANGED <<hash, status, load_failed, call, file, tmp, loaded, alone>>

\* A faulty variant: a line need not end.
ReadableTorn(lines) == {k \in Key : lines[k] # "none"}

\* Lines that pci_id_cache_load takes: it stops at one without an end.
Readable(lines) == {k \in Key : lines[k] = "net"}

\* pci_id_cache_load
ReadCache ==
  /\ InTurn /\ CachePending
  /\ "refresh" \notin call.flags
  /\ status' = 1
  /\ loaded' = Readable(file)
  /\ hash' = [k \in Key |-> IF k \in Readable(file) /\ hash[k] = NoEntry
                            THEN [src |-> "cache", name |-> file[k]] ELSE hash[k]]
  /\ UNCHANGED <<load_failed, pc, call, file, tmp, alone>>

SkipCache ==
  /\ InTurn /\ CachePending
  /\ "refresh" \in call.flags
  /\ status' = 2
  /\ UNCHANGED <<hash, load_failed, pc, call, file, tmp, loaded, alone>>

\* pci_id_hwdb_lookup
AskHwdb ==
  /\ InTurn /\ ~CachePending /\ HwdbPending
  /\ call' = [call EXCEPT !.tried = TRUE]
  /\ hash' = IF call.key \in HwdbKeys
             THEN Insert(hash, call.key, [src |-> "hwdb", name |-> "hwdb"]) ELSE hash
  /\ UNCHANGED <<status, load_failed, pc, file, tmp, loaded, alone>>

NetPending == InTurn /\ ~CachePending /\ ~HwdbPending /\ "network" \in call.flags

\* A faulty variant: that there is no name is not remembered.
NoAnswerEntry == NoEntry

\* What is remembered of a query that had no answer.
NoAnswer == [src |-> "net", name |-> ""]

\* pci_id_net_lookup and pci_id_cache_dirty
NetAnswers ==
  /\ NetPending /\ call.key \in NetKeys
  /\ hash' = Insert(hash, call.key, [src |-> "net", name |-> "net"])
  /\ status' = IF status >= 1 THEN 2 ELSE status
  /\ UNCHANGED <<load_failed, pc, call, file, tmp, loaded, alone>>

\* There is no name, or the query fails.
NetIsSilent ==
  /\ NetPending
  /\ hash' = Insert(hash, call.key, NoAnswer)
  /\ UNCHANGED <<status, load_failed, pc, call, file, tmp, loaded, alone>>

GiveUp ==
  /\ InTurn /\ ~CachePending /\ ~HwdbPending /\ "network" \notin call.flags
  /\ pc' = "done"
  /\ UNCHANGED <<hash, status, load_failed, call, file, tmp, loaded, alone>>

----------------------------------------------------------------------------
(* pci_free_name_list, as pci_cleanup calls it, and a new pci_alloc.       *)

\* A faulty variant: the status outlives the hash.
FreshKeepsStatus ==
  /\ pc' = "idle"
  /\ hash' = NoHash /\ load_failed' = FALSE
  /\ tmp' = NoLines
  /\ loaded' = {} /\ alone' = FALSE
  /\ UNCHANGED <<status, call>>

Fresh ==
  /\ pc' = "idle"
  /\ hash' = NoHash /\ status' = 0 /\ load_failed' = FALSE
  /\ tmp' = NoLines
  /\ loaded' = {} /\ alone' = FALSE
  /\ UNCHANGED call

\* A faulty variant: what came from the file is not written again.
WritableNet(h) == {k \in Key : h[k].src = "net" /\ h[k].name # ""}

\* A faulty variant: that there is no name is written like a name.
WritableNegative(h) == {k \in Key : h[k].src \in {"cache", "net"}}

\* Entries that pci_id_cache_flush writes.
Writable(h) == {k \in Key : h[k].src \in {"cache", "net"} /\ h[k].name # ""}

\* Nothing to write, or the temporary file cannot be opened.
FreeNames == Waiting /\ Fresh /\ UNCHANGED file

\* pci_id_cache_flush walks a hash that was never allocated.
FlushCrashes ==
  /\ Waiting /\ status = 2 /\ ~Allocated
  /\ pc' = "crashed"
  /\ UNCHANGED <<hash, status, load_failed, call, file, tmp, loaded, alone>>

\* A write error is reported and the file renamed nevertheless.
WriteCache ==
  /\ Waiting /\ status = 2 /\ Allocated
  /\ pc' = "rename"
  /\ \E S \in SUBSET Writable(hash), torn \in SUBSET Writable(hash) :
       /\ Cardinality(torn) <= 1 /\ torn \cap S = {}
       /\ tmp' = Lines(S, torn)
  /\ UNCHANGED <<hash, status, load_failed, call, file, loaded, alone>>

Rename == pc = "rename" /\ file' = tmp /\ Fresh

RenameFails == pc = "rename" /\ Fresh /\ UNCHANGED file

\* The process ends at any point, also by the error handler when the list is
\* malformed, and another one starts.
Die == pc # "idle" /\ Fresh /\ UNCHANGED file

\* Another process renames its file, perhaps a torn one.
OtherRenames ==
  /\ \E S \in SUBSET NetKeys, torn \in SUBSET NetKeys :
       Cardinality(torn) <= 1 /\ torn \cap S = {} /\ file' = Lines(S, torn)
  /\ UNCHANGED <<hash, status, load_failed, pc, call, tmp, loaded, alone>>

----------------------------------------------------------------------------

Init ==
  /\ hash = NoHash /\ status = 0 /\ load_failed = FALSE
  /\ pc = "idle"
  /\ call \in [key : Key, flags : {{}}, tried : {FALSE}]
  /\ file = NoLines /\ tmp = NoLines
  /\ loaded = {} /\ alone = FALSE

Turn ==
  \/ FindName \/ ReadCache \/ SkipCache \/ AskHwdb
  \/ NetAnswers \/ NetIsSilent \/ GiveUp

Request ==
  \E k \in Key, flags \in Modes :
    Lookup(k, flags) \/ LookupLoadsList(k, flags) \/ LookupFindsNoList(k, flags)

Flush == FreeNames \/ FlushCrashes \/ WriteCache \/ Rename \/ RenameFails

Next == Request \/ Turn \/ Flush \/ Die \/ OtherRenames

\* A lookup goes on by itself: nothing in a turn waits but for the DNS, whose
\* resolver gives up in the end.
Spec == Init /\ [][Next]_vars /\ WF_vars(Turn)

----------------------------------------------------------------------------

TypeOK ==
  /\ hash \in [Key -> Entry]
  /\ status \in 0 .. 2 /\ load_failed \in BOOLEAN
  /\ pc \in {"idle", "turn", "done", "rename", "crashed"}
  /\ call \in [key : Key, flags : SUBSET Flag, tried : BOOLEAN]
  /\ file \in [Key -> {"none", "net", "torn"}]
  /\ tmp \in [Key -> {"none", "net", "torn"}]
  /\ loaded \subseteq Key /\ alone \in BOOLEAN

\* Every name that comes from the cache file is one the DNS gave for that key,
\* whatever was cut short while the file was written, and nothing from the other
\* sources, nor that there was no answer, is ever found there.
CachedNamesAreAnswers ==
  \A k \in Key :
    /\ hash[k].src = "cache" => k \in NetKeys /\ hash[k].name = "net"
    /\ file[k] # "none" => k \in NetKeys

\* Lookups that are not to see the local list, or ask other sources for keys in
\* it, leave the names of the list as they are for the lookups that follow.
LocalListStaysWhole ==
  (\E j \in Key : hash[j].src = "local") => \A k \in LocalKeys : hash[k].src = "local"

\* The temporary file holds all that pci_id_cache_flush had to write: no write
\* failed.
WrittenWhole == tmp = Lines(Writable(hash), {})

\* A process that has read the cache file leaves each line it read in the file
\* when its flush renames a whole temporary file over it.  Three things lose a
\* line: a write error, after which the rename is made all the same; another
\* source that had an entry for the key before the file was read; and a query
\* of the DNS that found nothing before the file was read, since its negative
\* entry keeps the line out of the hash and is not written.
CacheKeepsWhatItRead ==
  [][pc = "rename" /\ pc' = "idle" /\ file' = tmp /\ WrittenWhole =>
       \A k \in loaded :
         file'[k] = "net" \/ hash[k].src \in {"local", "hwdb"} \/ hash[k] = NoAnswer]_vars

\* Flags with which a lookup is to consult the local list.
WantsLocal(flags) == flags \cap {"numeric", "skip_local"} = {}

\* The hash was allocated for entries of other sources while no list was read.
HashedWithoutList == Allocated /\ \A k \in Key : hash[k].src # "local"

\* A lookup that leaves no entry for its key behind has asked every source its
\* flags allow.  The local list is the exception the code makes: it is loaded
\* for the first lookup that wants it and finds no hash, so that it is passed
\* over once a lookup without it has made an entry, and after it was not found.
GivesUpAfterAllSources ==
  pc = "done" /\ hash[call.key] = NoEntry =>
    /\ "network" \notin call.flags
    /\ "hwdb" \in Permitted(call.flags) => call.key \notin HwdbKeys
    /\ "cache" \in call.flags => status # 0
    /\ WantsLocal(call.flags) /\ call.key \in LocalKeys => load_failed \/ HashedWithoutList

\* pci_id_cache_flush finds the hash allocated, unless a lookup asked to refresh
\* the cache without the network: then no turn made an entry.
FlushFindsHash == pc = "crashed" => alone

\* id_lookup ends, but where an entry that the flags hide keeps the DNS's from
\* being inserted.
LookupEnds == (pc = "turn" /\ ~Hidden) ~> (pc # "turn")
=============================================================================
