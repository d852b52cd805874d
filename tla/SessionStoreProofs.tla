------------------------- MODULE SessionStoreProofs -------------------------
(***************************************************************************)
(* Theorems about the session store of SessionStore.tla, for any number of *)
(* sessions, spellings, goroutines, days, turns and incidents.             *)
(***************************************************************************)
EXTENDS SessionStore, FiniteSetTheorems, SequenceTheorems, TLAPS

-----------------------------------------------------------------------------
(* What a goroutine does at each stage, and with what.                     *)
Reading == {"lookup", "open", "install", "find", "read"}
Saving  == {"create", "write", "rename", "index"}
Knowing == {"find", "read", "prompt", "store", "add", "wipe"} \cup Saving

(* Web handlers only read, and keep nothing.                               *)
ViewerAt(w) ==
  /\ w.op \in {"none", "get", "meta"} /\ w.data = None
  /\ w.pc \in {"idle", "getmeta"} \cup Reading
  /\ w.pc # "idle" => w.op # "none"
  /\ w.pc \in {"find", "read"} => w.op = "get"

LoggerAt(w) ==
  /\ w.pc \in {"idle", "add"} \cup Reading \cup Saving
  /\ w.pc # "idle" => w.op = "log"

MainAt(w) ==
  /\ w.pc \in {"idle", "prompt", "store", "wipe"} \cup Reading \cup Saving
  /\ w.pc # "idle" => w.op \in {"turn", "store", "clear"}
  /\ w.pc = "prompt" => w.op = "turn"
  /\ w.pc = "store" => w.op = "store"
  /\ w.pc = "wipe" => w.op = "clear"
  /\ w.pc \in Saving => w.op \in {"store", "clear"}

(* Between operations nothing is kept, and only a save has a file open.    *)
Placed(c, w) ==
  /\ w \in Worker
  /\ w.pc # "idle" => w.key # None
  /\ w.pc \in Knowing \cup {"install"} => w.meta # None
  /\ w.pc \in {"add", "wipe", "create", "write", "rename"} => w.data # None
  /\ w.pc = "idle" => w = Resting
  /\ w.pc \in {"write", "rename"} <=> w.slot # "none"
  /\ c \in Viewers => ViewerAt(w)
  /\ c \in Loggers => LoggerAt(w)
  /\ c = Main => MainAt(w)

AllPlaced == at = [c \in Workers |-> at[c]] /\ \A c \in Workers : Placed(c, at[c])

Base == FilesOK /\ CachesOK /\ CountersOK /\ AllPlaced

(* Instructions are logged while the turn waits for its agents.            *)
TurnWaits == \A l \in Loggers : at[l].pc # "idle" => at[Main].pc = "prompt"

StagesInv == Base /\ TurnWaits

-----------------------------------------------------------------------------
(* A goroutine's open file, and all that it writes to it.                  *)
OpenAs(w, f, d) == w.slot # "none" /\ FileOf[w.meta.key] = f /\ w.folder = d
WrittenBy(w) == [key |-> w.meta.key, created |-> w.meta.created, data |-> w.data,
                 whole |-> TRUE]

(* A file that no two saves have had open is written by one at a time.     *)
OneWriter == \A f \in Files \ overlapped, d \in Folders, c \in Workers : Open(c, f, d) =>
  /\ at[c].slot = "tmp"
  /\ \A e \in Workers : Open(e, f, d) => e = c
  /\ at[c].pc = "rename" => tmp[f][d] = WrittenBy(at[c])

WholeInv == OneWriter /\ Whole

-----------------------------------------------------------------------------
(* Keys and folders.                                                       *)

(* Whatever bears a key bears one that names its file.                     *)
Names(m, f) == m.key # None => FileOf[m.key] = f

Named ==
  /\ \A f \in Files, d \in Folders : /\ disk[f][d] # None => Names(disk[f][d], f)
                                     /\ tmp[f][d] # None => Names(tmp[f][d], f)
  /\ \A k \in Keys : metaCache[k] # None => Names(metaCache[k], FileOf[k])
  /\ \A c \in Workers : at[c].meta # None => Names(at[c].meta, FileOf[at[c].key])

(* A dated file has its day in the header, one in the root has no key and  *)
(* no day or the first; and a save writes to the folder of the day in the  *)
(* metadata.                                                               *)
Homed ==
  /\ \A f \in Files : /\ \A d \in Days : /\ disk[f][d] # None => disk[f][d].created = d
                                         /\ tmp[f][d] # None => tmp[f][d].created = d
                      /\ disk[f][0] # None => disk[f][0].key = None /\ disk[f][0].created \in {0, 1}
  /\ \A c \in Workers :
       at[c].slot # "none" \/ at[c].pc = "index" => at[c].folder = at[c].meta.created

(* A session that did not go astray is known by one day.                   *)
OneDay == \A f \in Files \ astray : \A d, e \in DaysOf(f) : d = e

PlacesInv == Named /\ Homed /\ OneDay

-----------------------------------------------------------------------------
(* An index entry, made or about to be made, has a file, unless that was   *)
(* deleted.                                                                *)
There(f, d) == disk[f][d] # None \/ f \in deleted

Indexed ==
  /\ \A k \in Keys : dateIndex[k] # 0 => There(FileOf[k], dateIndex[k])
  /\ \A c \in Workers : at[c].pc = "index" => There(FileOf[at[c].meta.key], at[c].folder)

(* The file a search finds, when there is one dated file at most.          *)
Hit(f, d) == disk[f][d] # None /\ (d = 0 => \A e \in Days : disk[f][e] = None)

LastAt(f) ==
  /\ last[f] # None => \E d \in Folders : Hit(f, d) /\ disk[f][d] = last[f]
  /\ last[f] = None => (\A d \in Folders : disk[f][d] = None) \/ LeftOver(f)

LastFound == \A f \in Files \ (astray \cup overlapped) : LastAt(f)

-----------------------------------------------------------------------------
(* The sessions that cannot go astray.                                     *)
Plain(f) == f \notin deleted \cup respelled /\ ~Undated(f)

(* They are known by their file names only.                                *)
PlainKeys(f) ==
  /\ \A k \in Keys : FileOf[k] = f /\ (metaCache[k] # None \/ dateIndex[k] # 0) =>
       k \in Stems /\ (metaCache[k] # None => metaCache[k].key \in Stems)
  /\ \A d \in Days : /\ disk[f][d] # None => disk[f][d].key \in Stems
                     /\ tmp[f][d] # None => tmp[f][d].key \in Stems
  /\ \A c \in Workers : at[c].key # None /\ FileOf[at[c].key] = f =>
       at[c].key \in Stems /\ (at[c].meta # None => at[c].meta.key \in Stems)

(* Whoever knows one has it from the cache; and what somebody is about to  *)
(* enter there agrees with all that is known by then.                      *)
PlainMeta(w, f) ==
  /\ w.pc = "open" => disk[f][w.folder] # None
  /\ w.meta # None /\ w.pc # "install" => metaCache[w.key] # None
  /\ w.pc = "install" /\ w.op = "meta" =>
       \E d \in Folders : disk[f][d] # None /\ disk[f][d].created = w.meta.created
  /\ w.pc = "install" /\ w.op # "meta" /\ metaCache[w.key] = None =>
       DaysOf(f) \subseteq {w.meta.created}

PlainAt(f) ==
  /\ f \notin astray
  /\ PlainKeys(f)
  /\ \A c \in Workers : at[c].key # None /\ FileOf[at[c].key] = f => PlainMeta(at[c], f)

PlainInv == \A f \in Files : Plain(f) => PlainAt(f)

-----------------------------------------------------------------------------
EndsIn(t, s) == Len(s) <= Len(t) /\ \A i \in 1..Len(s) : t[Len(t) - Len(s) + i] = s[i]

(* What a turn or a logger works with ends in all that was stored; the     *)
(* message the turn adds comes after it.                                   *)
Holds(w, s) ==
  w.data # None /\ w.op # "clear" =>
    IF w.op = "store" /\ w.pc \in Saving
    THEN \E t \in Seq(Nat) : w.data.msgs = Append(t, turns) /\ EndsIn(t, s)
    ELSE EndsIn(w.data.msgs, s)

KeptAt(f) ==
  /\ stored[f] # <<>> =>
       \E d \in Days : disk[f][d] # None /\ EndsIn(disk[f][d].data.msgs, stored[f])
  /\ \A c \in {Main} \cup Loggers : at[c].meta # None /\ FileOf[at[c].meta.key] = f =>
       /\ Holds(at[c], stored[f])
       /\ at[c].pc = "read" /\ stored[f] # <<>> => at[c].folder \in Days /\ disk[f][at[c].folder] # None

Kept == \A f \in Files \ (astray \cup overlapped) : KeptAt(f)

(* Who has not read yet has nothing.                                       *)
Unread == \A c \in Workers : at[c].pc \in Reading => at[c].data = None

-----------------------------------------------------------------------------
(* Looking files up.                                                       *)

(* A set of numbers that is not empty has a least one: of the intervals    *)
(* that end in it one has no other inside it.                              *)
LEMMA LeastOf ==
  ASSUME NEW S \in SUBSET Nat, S # {}
  PROVE  Min(S) \in S /\ \A m \in S : Min(S) <= m
<1> DEFINE T == {0..n : n \in S}
           R == StrictSubsetOrdering(Nat)
<1>1. IsWellFoundedOn(R, FiniteSubsetsOf(Nat))
  BY FS_StrictSubsetOrderingWellFounded, Zenon
<1>2. T \subseteq FiniteSubsetsOf(Nat)
  <2>1. ASSUME NEW n \in S PROVE IsFiniteSet(0..n) /\ 0..n \in SUBSET Nat
    BY FS_Interval
  <2> QED BY <2>1 DEF FiniteSubsetsOf
<1>3. T # {}
  OBVIOUS
<1>4. PICK x \in T : \A y \in T : <<y, x>> \notin R
  <2> HIDE DEF T, R
  <2> QED BY <1>1, <1>2, <1>3, WFMin, Zenon
<1>5. PICK n \in S : x = 0..n
  OBVIOUS
<1>6. ASSUME NEW m \in S PROVE n <= m
  <2>1. SUFFICES ASSUME m < n PROVE FALSE
    OBVIOUS
  <2>2. 0..m \subseteq 0..n /\ n \in 0..n /\ n \notin 0..m
    BY <2>1
  <2>3. 0..m \in SUBSET Nat /\ 0..n \in SUBSET Nat /\ 0..m # 0..n
    BY <2>2
  <2>4. <<0..m, 0..n>> \in R
    BY <2>2, <2>3 DEF StrictSubsetOrdering
  <2> QED BY <1>4, <1>5, <2>4
<1> QED BY <1>6 DEF Min

LEMMA GreatestOf ==
  ASSUME NEW k \in Nat, NEW S \in SUBSET (1..k), S # {}
  PROVE  Max(S) \in S
<1> DEFINE D == {k - n : n \in S}
<1>1. D \in SUBSET Nat /\ D # {}
  <2>1. \A n \in S : k - n \in Nat
    OBVIOUS
  <2> QED BY <2>1
<1>2. PICK d \in D : \A e \in D : d <= e
  <2> HIDE DEF D
  <2> QED BY <1>1, LeastOf
<1>3. PICK n \in S : d = k - n
  OBVIOUS
<1>4. \A m \in S : n >= m
  BY <1>2, <1>3
<1> QED BY <1>4 DEF Max

LEMMA Bounds == /\ Days \subseteq Folders /\ Folders \subseteq Nat /\ 0 \in Folders
                /\ 0 \notin Days /\ 1 \in Days
                /\ \A d \in Folders : d = 0 \/ d \in Days
BY SessionAssumption DEF Days, Folders

LEMMA FoundPlaces ==
  ASSUME NEW f \in Files
  PROVE  /\ Found(f) \in SUBSET Folders
         /\ \A d \in Found(f) : disk[f][d] # None
         /\ Found(f) # {} => Min(Found(f)) \in Found(f)
<1>1. Found(f) \in SUBSET Folders /\ \A d \in Found(f) : disk[f][d] # None
  BY Bounds DEF Found, Dated
<1> QED BY <1>1, Bounds, LeastOf

LEMMA LocatedPlaces ==
  ASSUME CachesOK, NEW k \in Keys
  PROVE  /\ Located(k) \in SUBSET Folders
         /\ Located(k) # {} => Min(Located(k)) \in Located(k)
<1>1. FileOf[k] \in Files /\ dateIndex[k] \in Folders
  BY SessionAssumption DEF CachesOK
<1>2. Located(k) \in SUBSET Folders
  BY <1>1, FoundPlaces DEF Located
<1> QED BY <1>2, Bounds, LeastOf

-----------------------------------------------------------------------------
(* The types, with the stages.                                             *)
LEMMA WorkerFields ==
  ASSUME AllPlaced, NEW c \in Workers
  PROVE  /\ Placed(c, at[c]) /\ at[c] \in Worker
         /\ at[c].pc \in Stages /\ at[c].op \in Ops /\ at[c].key \in Keys \cup {None}
         /\ at[c].meta \in Meta \cup {None} /\ at[c].data \in Data \cup {None}
         /\ at[c].folder \in Folders
         /\ at[c].slot \in {"none", "tmp", "fin", "gone"}
BY DEF AllPlaced, Placed, Worker

LEMMA RestingPlaced ==
  ASSUME NEW c \in Workers
  PROVE  Placed(c, Resting)
BY Bounds DEF Placed, Resting, Worker, Stages, Ops, ViewerAt, LoggerAt, MainAt, Knowing,
  Reading, Saving

(* A step of one goroutine, which leaves it without an open file.          *)
Moves(c) == \E w : Placed(c, w) /\ w.slot = "none" /\ Becomes(c, w)

LEMMA DoneMoves ==
  ASSUME NEW c \in Workers, Done(c)
  PROVE  Moves(c)
BY RestingPlaced DEF Done, Moves, Resting

LEMMA BeginMoves ==
  ASSUME Base, NEW c \in Workers, NEW k \in Keys, NEW op, Begin(c, op, k),
         \/ c = Main /\ op \in {"turn", "clear"}
         \/ c \in Loggers /\ op = "log"
         \/ c \in Viewers /\ op = "get"
  PROVE  Moves(c)
<1> DEFINE w == [Resting EXCEPT !.op = op, !.key = k, !.meta = metaCache[k],
                                !.pc = IF metaCache[k] # None THEN "find" ELSE "lookup"]
<1>1. metaCache[k] \in Meta \cup {None} /\ k # None
  BY SessionAssumption DEF Base, CachesOK
<1>2. w \in Worker
  BY <1>1, Bounds DEF Worker, Resting, Stages, Ops
<1>3. Placed(c, w) /\ w.slot = "none"
  BY <1>1, <1>2, SessionAssumption DEF Placed, Resting, ViewerAt, LoggerAt, MainAt, Knowing,
    Reading, Saving
<1> QED BY <1>3 DEF Begin, Moves

LEMMA NotThereMoves ==
  ASSUME Base, NEW c \in Workers, at[c].pc \in {"lookup", "open"}, NotThere(c)
  PROVE  Moves(c)
<1>1. CASE at[c].op = "meta"
  BY <1>1, DoneMoves DEF NotThere
<1>2. CASE at[c].op # "meta"
  <2> DEFINE w == [at[c] EXCEPT !.pc = "install", !.meta = NewMeta(at[c].key)]
  <2>1. Placed(c, at[c]) /\ at[c] \in Worker
    BY WorkerFields DEF Base
  <2>2. NewMeta(at[c].key) \in Meta
    BY <2>1 DEF NewMeta, Meta, Placed, Worker, Base, CountersOK
  <2>3. w \in Worker
    BY <2>1, <2>2 DEF Worker, Stages
  <2>4. Placed(c, w) /\ w.slot = "none"
    BY <2>1, <2>2, <2>3, SessionAssumption DEF Placed, Worker, ViewerAt, LoggerAt, MainAt,
      Knowing, Reading, Saving
  <2> QED BY <1>2, <2>4 DEF NotThere, Moves
<1> QED BY <1>1, <1>2

LEMMA MetaFindMoves ==
  ASSUME Base, NEW c \in Workers, MetaFind(c)
  PROVE  Moves(c)
<1> DEFINE k == at[c].key
<1>1. Placed(c, at[c]) /\ at[c] \in Worker /\ k \in Keys
  BY WorkerFields DEF Base, MetaFind, Placed
<1>2. CASE Located(k) = {}
  BY <1>2, NotThereMoves DEF MetaFind
<1>3. CASE Located(k) # {}
  <2> DEFINE w == [at[c] EXCEPT !.pc = "open", !.folder = Min(Located(k))]
  <2>1. Min(Located(k)) \in Folders
    BY <1>1, <1>3, LocatedPlaces DEF Base
  <2>2. w \in Worker
    BY <1>1, <2>1 DEF Worker, Stages
  <2>3. Placed(c, w) /\ w.slot = "none"
    BY <1>1, <2>2 DEF MetaFind, Placed, Worker, ViewerAt, LoggerAt, MainAt, Knowing, Reading, Saving
  <2> QED BY <1>3, <2>3 DEF MetaFind, Moves
<1> QED BY <1>2, <1>3

LEMMA HeaderType ==
  ASSUME NEW k \in Keys, NEW file \in Content, CountersOK
  PROVE  Header(k, file) \in Meta
BY Bounds DEF Header, Meta, Content, CountersOK

LEMMA MetaOpenMoves ==
  ASSUME Base, NEW c \in Workers, MetaOpen(c)
  PROVE  Moves(c)
<1> DEFINE k == at[c].key  file == disk[FileOf[k]][at[c].folder]
<1>1. Placed(c, at[c]) /\ at[c] \in Worker /\ k \in Keys /\ at[c].folder \in Folders
  BY WorkerFields DEF Base, MetaOpen, Placed
<1>2. FileOf[k] \in Files /\ file \in Content \cup {None}
  BY <1>1, SessionAssumption DEF Base, FilesOK
<1>3. CASE NotThere(c) \/ Done(c)
  BY <1>3, NotThereMoves, DoneMoves DEF MetaOpen
<1>4. CASE file # None /\ Becomes(c, [at[c] EXCEPT !.pc = "install", !.meta = Header(k, file)])
  <2> DEFINE w == [at[c] EXCEPT !.pc = "install", !.meta = Header(k, file)]
  <2>1. Header(k, file) \in Meta
    BY <1>1, <1>2, <1>4, HeaderType DEF Base
  <2>2. w \in Worker
    BY <1>1, <2>1 DEF Worker, Stages
  <2>3. Placed(c, w) /\ w.slot = "none"
    BY <1>1, <2>1, <2>2, SessionAssumption DEF MetaOpen, Placed, Worker, ViewerAt, LoggerAt, MainAt,
      Knowing, Reading, Saving
  <2> QED BY <1>4, <2>3 DEF Moves
<1> QED BY <1>3, <1>4 DEF MetaOpen, Moves

LEMMA InstallMoves ==
  ASSUME Base, NEW c \in Workers, Install(c)
  PROVE  Moves(c)
<1> DEFINE k == at[c].key
           m == IF at[c].op # "meta" /\ metaCache[k] # None THEN metaCache[k] ELSE at[c].meta
<1>1. Placed(c, at[c]) /\ at[c] \in Worker /\ k \in Keys
  BY WorkerFields DEF Base, Install, Placed
<1>2. m \in Meta
  BY <1>1 DEF Base, CachesOK, Install, Placed, Worker
<1>3. CASE at[c].op = "meta"
  BY <1>3, DoneMoves DEF Install
<1>4. CASE at[c].op # "meta"
  <2> DEFINE w == [at[c] EXCEPT !.pc = "find", !.meta = m]
  <2>1. w \in Worker
    BY <1>1, <1>2 DEF Worker, Stages
  <2>2. Placed(c, w) /\ w.slot = "none"
    BY <1>1, <1>2, <1>4, <2>1, SessionAssumption DEF Install, Placed, Worker, ViewerAt, LoggerAt,
      MainAt, Knowing, Reading, Saving
  <2> QED BY <1>4, <2>2 DEF Install, Moves
<1> QED BY <1>3, <1>4

(* Where a caller goes on with its data.                                   *)
LEMMA LoadedMoves ==
  ASSUME Base, NEW c \in Workers, at[c].pc \in {"find", "read"}, NEW d \in Data,
         Loaded(c, d, 0)
  PROVE  Moves(c)
<1>1. CASE at[c].op = "get"
  BY <1>1, DoneMoves DEF Loaded
<1>2. CASE at[c].op # "get"
  <2> DEFINE w == [at[c] EXCEPT !.pc = NextStage[at[c].op], !.data = d, !.folder = 0]
  <2>1. Placed(c, at[c]) /\ at[c] \in Worker /\ d # None
    BY WorkerFields, SessionAssumption DEF Base
  <2>2. at[c].op \in {"turn", "store", "log", "clear"} /\ c \notin Viewers
    BY <1>2, <2>1 DEF Placed, ViewerAt, LoggerAt, MainAt, Workers
  <2>3. /\ at[c].op = "turn" => NextStage[at[c].op] = "prompt"
        /\ at[c].op = "store" => NextStage[at[c].op] = "store"
        /\ at[c].op = "log" => NextStage[at[c].op] = "add"
        /\ at[c].op = "clear" => NextStage[at[c].op] = "wipe"
    BY DEF NextStage
  <2>4. w \in Worker
    BY <2>1, <2>2, <2>3, Bounds DEF Worker, Stages
  <2>5. Placed(c, w) /\ w.slot = "none"
    BY <2>1, <2>2, <2>3, <2>4 DEF Placed, Worker, LoggerAt, MainAt, Knowing, Reading, Saving
  <2> QED BY <1>2, <2>5 DEF Loaded, Moves
<1> QED BY <1>1, <1>2

LEMMA LoadFailedMoves ==
  ASSUME Base, NEW c \in Workers, at[c].pc = "read", LoadFailed(c)
  PROVE  Moves(c)
<1>1. CASE at[c].op \notin {"turn", "store"}
  BY <1>1, DoneMoves DEF LoadFailed
<1>2. CASE at[c].op \in {"turn", "store"}
  <2> DEFINE w == [at[c] EXCEPT !.pc = NextStage[at[c].op]]
  <2>1. Placed(c, at[c]) /\ at[c] \in Worker
    BY WorkerFields DEF Base
  <2>2. c = Main
    BY <1>2, <2>1 DEF Placed, ViewerAt, LoggerAt, Workers
  <2>3. /\ at[c].op = "turn" => NextStage[at[c].op] = "prompt"
        /\ at[c].op = "store" => NextStage[at[c].op] = "store"
    BY DEF NextStage
  <2>4. w \in Worker
    BY <1>2, <2>1, <2>3 DEF Worker, Stages
  <2>5. Placed(c, w) /\ w.slot = "none"
    BY <1>2, <2>1, <2>2, <2>3, <2>4, SessionAssumption DEF Placed, Worker, LoggerAt, MainAt,
      Knowing, Reading, Saving
  <2> QED BY <1>2, <2>5 DEF LoadFailed, GoTo, Moves
<1> QED BY <1>1, <1>2

LEMMA EmptyType == Empty \in Data
BY DEF Empty, Data

LEMMA DataFindMoves ==
  ASSUME Base, NEW c \in Workers, DataFind(c)
  PROVE  Moves(c)
<1> DEFINE k == at[c].meta.key
<1>1. Placed(c, at[c]) /\ at[c] \in Worker /\ k \in Keys
  BY WorkerFields DEF Base, DataFind, Placed, Knowing, Meta
<1>2. CASE Located(k) = {}
  BY <1>2, LoadedMoves, EmptyType DEF DataFind
<1>3. CASE Located(k) # {}
  <2> DEFINE w == [at[c] EXCEPT !.pc = "read", !.folder = Min(Located(k))]
  <2>1. Min(Located(k)) \in Folders
    BY <1>1, <1>3, LocatedPlaces DEF Base
  <2>2. w \in Worker
    BY <1>1, <2>1 DEF Worker, Stages
  <2>3. Placed(c, w) /\ w.slot = "none"
    BY <1>1, <2>2 DEF DataFind, Placed, Worker, ViewerAt, LoggerAt, MainAt, Knowing, Reading, Saving
  <2> QED BY <1>3, <2>3 DEF DataFind, Moves
<1> QED BY <1>2, <1>3

LEMMA DataReadMoves ==
  ASSUME Base, NEW c \in Workers, DataRead(c)
  PROVE  Moves(c)
<1> DEFINE file == disk[FileOf[at[c].meta.key]][at[c].folder]
<1>1. Placed(c, at[c]) /\ at[c].meta.key \in Keys /\ at[c].folder \in Folders
  BY WorkerFields DEF Base, DataRead, Placed, Knowing, Meta
<1>2. file \in Content \cup {None}
  BY <1>1, SessionAssumption DEF Base, FilesOK
<1>3. CASE LoadFailed(c)
  BY <1>3, LoadFailedMoves DEF DataRead
<1>4. CASE Loaded(c, Empty, 0)
  BY SMTT(30), <1>4, LoadedMoves, EmptyType DEF DataRead
<1>5. CASE file # None /\ Loaded(c, file.data, 0)
  <2>1. file.data \in Data
    BY <1>2, <1>5 DEF Content
  <2> QED BY <1>5, <2>1, LoadedMoves DEF DataRead, Moves
<1> QED BY <1>3, <1>4, <1>5 DEF DataRead, Moves

(* The callers and Save.                                                   *)
LEMMA CallerMoves ==
  ASSUME Base, NEW c \in Workers,
         \/ c \in Loggers /\ AddInstruction(c)
         \/ c = Main /\ (RunEnds \/ AddMessage \/ Clear)
         \/ c \in Viewers /\ (List(c) \/ GetMeta(c))
  PROVE  Moves(c)
<1>1. Placed(c, at[c]) /\ at[c] \in Worker
  BY WorkerFields DEF Base
<1>2. CASE Done(c)
  BY <1>2, DoneMoves
<1>3. CASE c \in Loggers /\ AddInstruction(c) /\ ~Done(c)
  <2> DEFINE w == [at[c] EXCEPT !.pc = "create", !.data.instrs = @ \cup {c}]
  <2>1. at[c].data \in Data
    BY <1>1, <1>3 DEF AddInstruction, Placed, Worker
  <2>2. w.data \in Data /\ w.data # None
    BY <1>1, <1>3, <2>1, SessionAssumption DEF Data, Worker
  <2>3. w \in Worker
    BY <1>1, <2>2 DEF Worker, Stages
  <2>4. Placed(c, w) /\ w.slot = "none"
    BY <1>1, <1>3, <2>2, <2>3, SessionAssumption DEF AddInstruction, Placed, Worker, ViewerAt,
      LoggerAt, MainAt, Knowing, Reading, Saving
  <2> QED BY <1>3, <2>4 DEF AddInstruction, Moves
<1>4. CASE c = Main /\ RunEnds /\ ~Done(c)
  <2> DEFINE w == [at[c] EXCEPT !.pc = "store", !.op = "store"]
  <2>1. w \in Worker
    BY <1>1 DEF Worker, Stages, Ops
  <2>2. Placed(c, w) /\ w.slot = "none"
    BY <1>1, <1>4, <2>1, SessionAssumption DEF RunEnds, Placed, Worker, ViewerAt,
      LoggerAt, MainAt, Knowing, Reading, Saving
  <2> QED BY <1>4, <2>2 DEF RunEnds, Moves
<1>5. CASE c = Main /\ AddMessage /\ ~Done(c)
  <2>1. CASE at[c].data # None
    <3> DEFINE w == [at[c] EXCEPT !.pc = "create", !.data.msgs = Append(@, turns + 1)]
    <3>1. at[c].data \in Data /\ at[c].data.msgs \in Seq(Nat) /\ turns + 1 \in Nat
      BY <1>1, <2>1 DEF Worker, Data, Base, CountersOK
    <3>2. Append(at[c].data.msgs, turns + 1) \in Seq(Nat)
      BY <3>1
    <3>3. w.data \in Data /\ w.data # None
      BY <1>1, <3>1, <3>2, SessionAssumption DEF Data, Worker
    <3>4. w \in Worker
      BY <1>1, <3>3 DEF Worker, Stages
    <3>5. Placed(c, w) /\ w.slot = "none"
      BY <1>1, <1>5, <3>3, <3>4, SessionAssumption DEF AddMessage, Placed, Worker, ViewerAt,
        LoggerAt, MainAt, Knowing, Reading, Saving
    <3> QED BY <1>5, <2>1, <3>5 DEF AddMessage, Moves
  <2>2. CASE at[c].data = None
    <3> DEFINE w == [at[c] EXCEPT !.pc = "find"]
    <3>1. w \in Worker
      BY <1>1 DEF Worker, Stages
    <3>2. Placed(c, w) /\ w.slot = "none"
      BY <1>1, <1>5, <3>1, SessionAssumption DEF AddMessage, Placed, Worker, ViewerAt,
        LoggerAt, MainAt, Knowing, Reading, Saving
    <3> QED BY <1>5, <2>2, <3>2 DEF AddMessage, GoTo, Moves
  <2> QED BY <2>1, <2>2
<1>6. CASE c = Main /\ Clear
  <2> DEFINE w == [at[c] EXCEPT !.pc = "create", !.data = Empty]
  <2>1. w \in Worker /\ w.data # None
    BY <1>1, EmptyType, SessionAssumption DEF Worker, Stages
  <2>2. Placed(c, w) /\ w.slot = "none"
    BY <1>1, <1>6, <2>1, SessionAssumption DEF Clear, Placed, Worker, ViewerAt,
      LoggerAt, MainAt, Knowing, Reading, Saving
  <2> QED BY <1>6, <2>2 DEF Clear, Moves
<1>7. CASE c \in Viewers /\ List(c)
  <2>1. PICK k \in Stems :
          Becomes(c, [Resting EXCEPT !.pc = "getmeta", !.op = "meta", !.key = k])
    BY <1>7 DEF List
  <2> DEFINE w == [Resting EXCEPT !.pc = "getmeta", !.op = "meta", !.key = k]
  <2>2. k \in Keys /\ k # None
    BY SessionAssumption
  <2>3. w \in Worker
    BY <2>2, Bounds DEF Worker, Resting, Stages, Ops
  <2>4. Placed(c, w) /\ w.slot = "none"
    BY <1>7, <2>2, <2>3, SessionAssumption DEF Placed, Resting, ViewerAt, Knowing, Reading, Saving
  <2> QED BY <2>1, <2>4 DEF Moves
<1>8. CASE c \in Viewers /\ GetMeta(c) /\ ~Done(c)
  <2> DEFINE w == [at[c] EXCEPT !.pc = "lookup"]
  <2>1. w \in Worker
    BY <1>1 DEF Worker, Stages
  <2>2. Placed(c, w) /\ w.slot = "none"
    BY <1>1, <1>8, <2>1, SessionAssumption DEF GetMeta, Placed, Worker, ViewerAt,
      Knowing, Reading, Saving
  <2> QED BY <1>8, <2>2 DEF GetMeta, GoTo, Moves
<1> QED BY <1>2, <1>3, <1>4, <1>5, <1>6, <1>7, <1>8

LEMMA SaveEnds ==
  ASSUME NEW c \in Workers, SaveIndex(c) \/ SaveFails(c)
  PROVE  Moves(c)
BY DoneMoves DEF SaveIndex, SaveFails

LEMMA SavePlaced ==
  ASSUME Base, NEW c \in Workers, SaveCreate(c) \/ SaveWrite(c)
  PROVE  \E w : Placed(c, w) /\ Becomes(c, w)
<1>1. Placed(c, at[c]) /\ at[c] \in Worker
  BY WorkerFields DEF Base
<1>2. CASE SaveCreate(c)
  <2> DEFINE w == [at[c] EXCEPT !.pc = "write", !.slot = "tmp", !.folder = SaveFolder(c)]
  <2>1. SaveFolder(c) \in Folders
    BY <1>1, <1>2, Bounds DEF SaveCreate, SaveFolder, Placed, Knowing, Saving, Worker, Meta
  <2>2. w \in Worker
    BY <1>1, <2>1 DEF Worker, Stages
  <2>3. Placed(c, w)
    BY <1>1, <1>2, <2>2 DEF SaveCreate, Placed, Worker, ViewerAt, LoggerAt, MainAt, Knowing,
      Reading, Saving
  <2> QED BY <1>2, <2>3 DEF SaveCreate
<1>3. CASE SaveWrite(c)
  <2> DEFINE w == [at[c] EXCEPT !.pc = "rename"]
  <2>1. w \in Worker
    BY <1>1 DEF Worker, Stages
  <2>2. Placed(c, w)
    BY <1>1, <1>3, <2>1 DEF SaveWrite, Placed, Worker, ViewerAt, LoggerAt, MainAt, Knowing,
      Reading, Saving
  <2> QED BY <1>3, <2>2 DEF SaveWrite, GoTo
<1> QED BY <1>2, <1>3

(* Another goroutine's open file changes its name.                         *)
LEMMA SlotPlaced ==
  ASSUME AllPlaced, NEW c \in Workers, at[c].slot # "none", NEW s \in {"fin", "gone"}
  PROVE  Placed(c, [at[c] EXCEPT !.slot = s])
<1> DEFINE w == [at[c] EXCEPT !.slot = s]
<1>1. Placed(c, at[c]) /\ at[c] \in Worker
  BY WorkerFields
<1>2. w \in Worker
  BY <1>1 DEF Worker
<1> QED BY <1>1, <1>2 DEF Placed, Worker, ViewerAt, LoggerAt, MainAt, Knowing, Reading, Saving

LEMMA RenamePlaced ==
  ASSUME Base, NEW c \in Workers, SaveRename(c)
  PROVE  AllPlaced'
<1>1. Placed(c, at[c]) /\ at[c] \in Worker
  BY WorkerFields DEF Base
<1> DEFINE f == Path(c)[1]  d == Path(c)[2]
           w == [at[c] EXCEPT !.pc = "index", !.slot = "none", !.data = None]
<1>2. CASE Done(c)
  BY <1>1, <1>2, RestingPlaced DEF Base, AllPlaced, Done, Becomes
<1>3. CASE ~Done(c)
  <2>1. at' = [e \in Workers |->
                 IF e = c THEN w
                 ELSE IF Open(e, f, d) /\ at[e].slot = "tmp"
                      THEN [at[e] EXCEPT !.slot = "fin"] ELSE Unlink(e, f, d)]
    BY <1>3 DEF SaveRename
  <2>2. Placed(c, w)
    <3>1. w \in Worker
      BY <1>1 DEF Worker, Stages
    <3> QED BY <1>1, <3>1 DEF SaveRename, Placed, Worker, ViewerAt, LoggerAt, MainAt, Knowing,
          Reading, Saving
  <2>3. ASSUME NEW e \in Workers, e # c PROVE Placed(e, at'[e])
    BY <2>1, <2>3, SlotPlaced, WorkerFields DEF Base, Open, Unlink
  <2>4. ASSUME NEW e \in Workers PROVE Placed(e, at'[e])
    BY <2>1, <2>2, <2>3
  <2> QED BY <2>1, <2>4 DEF AllPlaced
<1> QED BY <1>2, <1>3

LEMMA DeletePlaced ==
  ASSUME Base, NEW k \in Keys, Delete(k)
  PROVE  AllPlaced'
<1>2. CASE at' = at
  BY <1>2 DEF Base, AllPlaced
<1>3. CASE at' # at
  <2> DEFINE f == FileOf[k]  d == Min(Victim(k))
  <2>1. at' = [c \in Workers |-> Unlink(c, f, d)]
    BY <1>3 DEF Delete
  <2>2. ASSUME NEW e \in Workers PROVE Placed(e, at'[e])
    BY <2>1, SlotPlaced, WorkerFields DEF Base, Unlink
  <2> QED BY <2>1, <2>2 DEF AllPlaced
<1> QED BY <1>2, <1>3

LEMMA BecomesAllPlaced ==
  ASSUME AllPlaced, NEW c \in Workers, NEW w, Placed(c, w), Becomes(c, w)
  PROVE  AllPlaced'
BY DEF AllPlaced, Becomes

(* Every step, one case each.                                              *)
LEMMA SessionSteps ==
  [Next]_vars =>
    \/ \E c \in Workers : \/ MetaFind(c) \/ MetaOpen(c) \/ Install(c)
                          \/ DataFind(c) \/ DataRead(c)
                          \/ SaveCreate(c) \/ SaveWrite(c) \/ SaveRename(c)
                          \/ SaveIndex(c) \/ SaveFails(c)
    \/ \E k \in Keys : Turn(k) \/ ClearCommand(k) \/ Delete(k)
    \/ RunEnds \/ AddMessage \/ Clear
    \/ \E l \in Loggers : Log(l) \/ AddInstruction(l)
    \/ \E v \in Viewers : List(v) \/ GetMeta(v) \/ \E k \in Keys : Get(v, k)
    \/ NextDay \/ Restart \/ UNCHANGED vars
BY DEF Next, Load, Save

(* What a step does to the goroutines.                                     *)
LEMMA WorkerSteps ==
  ASSUME Base, [Next]_vars
  PROVE  \/ \E c \in Workers : Moves(c)
         \/ \E c \in Workers : SaveCreate(c) \/ SaveWrite(c) \/ SaveRename(c)
         \/ \E k \in Keys : Delete(k)
         \/ Restart \/ at' = at
<1>1. \A c \in Workers : MetaFind(c) \/ MetaOpen(c) \/ Install(c) \/ DataFind(c) \/ DataRead(c)
                           \/ SaveIndex(c) \/ SaveFails(c) => Moves(c)
  BY MetaFindMoves, MetaOpenMoves, InstallMoves, DataFindMoves, DataReadMoves, SaveEnds
<1>2. Main \in Workers /\ Loggers \subseteq Workers /\ Viewers \subseteq Workers
  BY DEF Workers
<1>3. \A k \in Keys : Turn(k) \/ ClearCommand(k) => Moves(Main)
  BY <1>2, BeginMoves DEF Turn, ClearCommand
<1>4. RunEnds \/ AddMessage \/ Clear => Moves(Main)
  BY <1>2, CallerMoves
<1>5. ASSUME NEW l \in Loggers PROVE Log(l) \/ AddInstruction(l) => Moves(l)
  <2>1. AddInstruction(l) => Moves(l)
    BY <1>2, CallerMoves
  <2>2. Log(l) => at[Main].key \in Keys
    BY <1>2, WorkerFields DEF Base, Log, Placed
  <2> QED BY <1>2, <2>1, <2>2, BeginMoves DEF Log
<1>6. ASSUME NEW v \in Viewers PROVE List(v) \/ GetMeta(v) \/ (\E k \in Keys : Get(v, k)) => Moves(v)
  <2>1. List(v) \/ GetMeta(v) => Moves(v)
    BY <1>2, CallerMoves
  <2> QED BY <1>2, <2>1, BeginMoves DEF Get
<1>7. NextDay \/ UNCHANGED vars => at' = at
  BY DEF NextDay, vars
<1> QED BY <1>1, <1>2, <1>3, <1>4, <1>5, <1>6, <1>7, SessionSteps

LEMMA PlacedStep == Base /\ [Next]_vars => AllPlaced'
<1> SUFFICES ASSUME Base, [Next]_vars PROVE AllPlaced'
  OBVIOUS
<1> USE DEF Base
<1>1. ASSUME NEW c \in Workers, Moves(c) PROVE AllPlaced'
  BY <1>1, BecomesAllPlaced DEF Moves
<1>2. ASSUME NEW c \in Workers, SaveCreate(c) \/ SaveWrite(c) PROVE AllPlaced'
  BY <1>2, SavePlaced, BecomesAllPlaced
<1>3. CASE Restart
  <2>1. at' = [c \in Workers |-> Resting] /\ \A c \in Workers : Placed(c, Resting)
    BY <1>3, RestingPlaced DEF Restart
  <2> QED BY <2>1 DEF AllPlaced
<1>4. CASE at' = at
  BY <1>4 DEF AllPlaced
<1> QED BY <1>1, <1>2, <1>3, <1>4, RenamePlaced, DeletePlaced, WorkerSteps

LEMMA WrittenType ==
  ASSUME Base, NEW c \in Workers, at[c].pc \in {"create", "write"}, NEW d \in Data,
         NEW whole \in BOOLEAN
  PROVE  /\ Written(c, d, whole) \in Content
         /\ FileOf[at[c].meta.key] \in Files /\ SaveFolder(c) \in Folders
<1>1. at[c].meta \in Meta
  BY WorkerFields DEF Base, Placed, Knowing, Saving
<1> QED BY <1>1, Bounds, SessionAssumption DEF Written, Content, Meta, SaveFolder

LEMMA SetFile ==
  ASSUME NEW D \in [Files -> [Folders -> Content \cup {None}]],
         NEW f \in Files, NEW d \in Folders, NEW x \in Content \cup {None}
  PROVE  [D EXCEPT ![f][d] = x] \in [Files -> [Folders -> Content \cup {None}]]
OBVIOUS

LEMMA FilesStep == Base /\ [Next]_vars => FilesOK'
<1> SUFFICES ASSUME Base, [Next]_vars PROVE FilesOK'
  OBVIOUS
<1> USE DEF Base
<1>1. ASSUME NEW c \in Workers, SaveCreate(c) PROVE FilesOK'
  <2> DEFINE f == FileOf[at[c].meta.key]  d == SaveFolder(c)
  <2>1. f \in Files /\ d \in Folders /\ Written(c, Empty, FALSE) \in Content
    BY <1>1, WrittenType, EmptyType DEF SaveCreate
  <2>2. tmp' = [tmp EXCEPT ![f][d] = Written(c, Empty, FALSE)] /\ UNCHANGED <<disk, last>>
    BY <1>1 DEF SaveCreate
  <2> QED BY <2>1, <2>2, SetFile DEF FilesOK
<1>2. ASSUME NEW c \in Workers, SaveWrite(c) PROVE FilesOK'
  <2> DEFINE f == Path(c)[1]  d == Path(c)[2]
  <2>1. PICK whole \in BOOLEAN :
          /\ tmp' = IF at[c].slot = "tmp"
                    THEN [tmp EXCEPT ![f][d] = Written(c, at[c].data, whole)] ELSE tmp
          /\ disk' = IF at[c].slot = "fin"
                     THEN [disk EXCEPT ![f][d] = Written(c, at[c].data, whole)] ELSE disk
    BY <1>2 DEF SaveWrite
  <2>2. at[c].data \in Data /\ d \in Folders
    BY <1>2, WorkerFields DEF SaveWrite, Placed, Path
  <2>3. f \in Files /\ Written(c, at[c].data, whole) \in Content
    BY <1>2, <2>2, WrittenType DEF SaveWrite, Path
  <2>4. last' = last
    BY <1>2 DEF SaveWrite, histVars, callVars
  <2> QED BY <2>1, <2>2, <2>3, <2>4, SetFile DEF FilesOK
<1>3. ASSUME NEW c \in Workers, SaveRename(c) PROVE FilesOK'
  <2> DEFINE f == Path(c)[1]  d == Path(c)[2]
  <2>1. f \in Files /\ d \in Folders
    BY <1>3, WorkerFields, SessionAssumption DEF SaveRename, Placed, Knowing, Saving, Meta, Path
  <2>2. CASE tmp[f][d] = None
    BY <1>3, <2>2 DEF SaveRename, FilesOK, fileVars
  <2>3. CASE tmp[f][d] # None
    <3>1. tmp[f][d] \in Content
      BY <2>1, <2>3 DEF FilesOK
    <3>2. /\ disk' = [disk EXCEPT ![f][d] = tmp[f][d]]
          /\ tmp' = [tmp EXCEPT ![f][d] = None]
          /\ last' = [last EXCEPT ![f] = tmp[f][d]]
      BY <1>3, <2>3 DEF SaveRename
    <3> QED BY <2>1, <3>1, <3>2, SetFile DEF FilesOK
  <2> QED BY SMTT(30), <2>2, <2>3
<1>4. ASSUME NEW k \in Keys, Delete(k) PROVE FilesOK'
  <2> DEFINE f == FileOf[k]  d == Min(Victim(k))
  <2>1. f \in Files
    BY SessionAssumption
  <2>2. tmp' = tmp /\ last' = [last EXCEPT ![f] = None]
    BY <1>4 DEF Delete
  <2>3. CASE Victim(k) = {}
    BY <1>4, <2>1, <2>2, <2>3 DEF Delete, FilesOK
  <2>4. CASE Victim(k) # {}
    <3>1. Victim(k) \in SUBSET Folders
      BY <2>1, FoundPlaces DEF Victim, CachesOK
    <3>2. d \in Folders
      BY <2>4, <3>1, Bounds, LeastOf
    <3>3. disk' = [disk EXCEPT ![f][d] = None]
      BY <1>4, <2>4 DEF Delete
    <3> QED BY <2>1, <2>2, <3>2, <3>3, SetFile DEF FilesOK
  <2> QED BY <2>3, <2>4
<1>5. CASE UNCHANGED <<disk, tmp, last>>
  BY SMTT(30), <1>5 DEF FilesOK
<1>6. \/ UNCHANGED <<disk, tmp, last>>
      \/ \E c \in Workers : SaveCreate(c) \/ SaveWrite(c) \/ SaveRename(c)
      \/ \E k \in Keys : Delete(k)
  BY SessionSteps DEF MetaFind, MetaOpen, Install, DataFind, DataRead, SaveIndex, SaveFails,
    Turn, ClearCommand, Begin, RunEnds, AddMessage, Clear, Log, AddInstruction, List, GetMeta,
    Get, NextDay, Restart, vars, fileVars, histVars, callVars
<1> QED BY <1>1, <1>2, <1>3, <1>4, <1>5, <1>6

LEMMA RememberType ==
  ASSUME CachesOK, NEW k, NEW d \in Folders, Remember(k, d)
  PROVE  dateIndex' \in [Keys -> Folders]
BY DEF Remember, CachesOK

LEMMA CachesStep == Base /\ [Next]_vars => CachesOK'
<1> SUFFICES ASSUME Base, [Next]_vars PROVE CachesOK'
  OBVIOUS
<1> USE DEF Base
<1>1. ASSUME NEW c \in Workers, MetaFind(c) \/ DataFind(c) PROVE CachesOK'
  <2> DEFINE k == IF at[c].pc = "lookup" THEN at[c].key ELSE at[c].meta.key
  <2>1. k \in Keys
    BY <1>1, WorkerFields DEF MetaFind, DataFind, Placed, Knowing, Meta
  <2>2. metaCache' = metaCache
    BY <1>1 DEF MetaFind, DataFind
  <2>3. CASE dateIndex' = dateIndex
    BY <2>2, <2>3 DEF CachesOK
  <2>4. CASE dateIndex' # dateIndex
    <3>1. Located(k) # {} /\ Remember(k, Min(Located(k)))
      BY <1>1, <2>4 DEF MetaFind, DataFind
    <3>2. Min(Located(k)) \in Folders
      BY <2>1, <3>1, LocatedPlaces
    <3> QED BY <2>2, <3>1, <3>2, RememberType DEF CachesOK
  <2> QED BY <2>3, <2>4
<1>2. ASSUME NEW c \in Workers, Install(c) PROVE CachesOK'
  <2>1. at[c].key \in Keys /\ at[c].meta \in Meta
    BY <1>2, WorkerFields DEF Install, Placed
  <2> QED BY <1>2, <2>1 DEF Install, CachesOK
<1>3. ASSUME NEW v \in Viewers, List(v) PROVE CachesOK'
  <2>1. ASSUME NEW k \in Keys PROVE Dated(FileOf[k]) # {} => Max(Dated(FileOf[k])) \in Folders
    <3>1. SUFFICES ASSUME Dated(FileOf[k]) # {} PROVE Max(Dated(FileOf[k])) \in Folders
      OBVIOUS
    <3>2. Dated(FileOf[k]) \in SUBSET (1..MaxDay) /\ MaxDay \in Nat
      BY SessionAssumption DEF Dated, Days
    <3>3. Max(Dated(FileOf[k])) \in Dated(FileOf[k])
      BY <3>1, <3>2, GreatestOf
    <3> QED BY <3>2, <3>3, Bounds DEF Days
  <2> QED BY <1>3, <2>1 DEF List, CachesOK
<1>4. ASSUME NEW c \in Workers, SaveIndex(c) PROVE CachesOK'
  <2>1. at[c].meta \in Meta /\ at[c].folder \in Folders
    BY <1>4, WorkerFields DEF SaveIndex, Placed, Knowing, Saving
  <2> QED BY <1>4, <2>1 DEF SaveIndex, CachesOK, Meta
<1>5. ASSUME NEW k \in Keys, Delete(k) PROVE CachesOK'
  BY <1>5, Bounds DEF Delete, CachesOK
<1>6. CASE Restart
  BY <1>6, Bounds DEF Restart, CachesOK
<1>7. CASE UNCHANGED cacheVars
  BY SMTT(30), <1>7 DEF cacheVars, CachesOK
<1>8. \/ UNCHANGED cacheVars \/ Restart
      \/ \E c \in Workers : MetaFind(c) \/ DataFind(c) \/ Install(c) \/ SaveIndex(c)
      \/ \E v \in Viewers : List(v)
      \/ \E k \in Keys : Delete(k)
  BY SessionSteps DEF MetaOpen, DataRead, SaveCreate, SaveWrite, SaveRename, SaveFails,
    Turn, ClearCommand, Begin, RunEnds, AddMessage, Clear, Log, AddInstruction, GetMeta,
    Get, NextDay, vars, cacheVars
<1> QED BY <1>1, <1>2, <1>3, <1>4, <1>5, <1>6, <1>7, <1>8

(* The histories are about files of the store.                             *)
HistoryOK == /\ stored \in [Files -> Seq(Nat)]
             /\ deleted \subseteq Files /\ respelled \subseteq Files
             /\ astray \subseteq Files /\ overlapped \subseteq Files

LEMMA HistoryType == Base /\ [Next]_vars => HistoryOK'
<1> SUFFICES ASSUME Base, [Next]_vars PROVE HistoryOK'
  OBVIOUS
<1>0. HistoryOK /\ turns \in Nat
  BY DEF Base, CountersOK, HistoryOK
<1>1. ASSUME NEW c \in Workers, SaveCreate(c) PROVE HistoryOK'
  <2>1. FileOf[at[c].meta.key] \in Files
    BY <1>1, WrittenType, EmptyType DEF SaveCreate
  <2> QED BY <1>0, <1>1, <2>1 DEF SaveCreate, HistoryOK, callVars
<1>2. ASSUME NEW c \in Workers, SaveRename(c) PROVE HistoryOK'
  <2>1. UNCHANGED <<deleted, respelled, astray, overlapped>>
    BY <1>2 DEF SaveRename, callVars
  <2>2. CASE stored' = stored
    BY <1>0, <2>1, <2>2 DEF HistoryOK
  <2>3. CASE stored' # stored
    <3> DEFINE f == Path(c)[1]
    <3>1. stored' = [stored EXCEPT ![f] = IF at[c].op = "clear" THEN <<>>
                                          ELSE IF at[c].op = "store" THEN Append(@, turns)
                                          ELSE @]
      BY <1>2, <2>3 DEF SaveRename
    <3>2. f \in Files
      BY <1>2, WorkerFields, SessionAssumption
        DEF Base, SaveRename, Placed, Knowing, Saving, Meta, Path
    <3>3. stored[f] \in Seq(Nat) /\ Append(stored[f], turns) \in Seq(Nat)
      BY <1>0, <3>2 DEF HistoryOK
    <3> DEFINE t == IF at[c].op = "clear" THEN <<>>
                    ELSE IF at[c].op = "store" THEN Append(stored[f], turns) ELSE stored[f]
    <3>4. t \in Seq(Nat)
      BY <3>3
    <3>5. stored' = [stored EXCEPT ![f] = t]
      BY <1>0, <3>1, <3>2 DEF HistoryOK
    <3>6. [stored EXCEPT ![f] = t] \in [Files -> Seq(Nat)]
      <4> HIDE DEF t
      <4> QED BY <1>0, <3>2, <3>4 DEF HistoryOK
    <3> QED BY <1>0, <2>1, <3>5, <3>6 DEF HistoryOK
  <2> QED BY <2>2, <2>3
<1>3. ASSUME NEW k \in Keys, Delete(k) PROVE HistoryOK'
  BY <1>0, <1>3, SessionAssumption DEF Delete, HistoryOK
<1>4. ASSUME NEW k \in Keys, ClearCommand(k) PROVE HistoryOK'
  BY <1>0, <1>4, SessionAssumption DEF ClearCommand, Begin, HistoryOK
<1>5. ASSUME NEW c \in Workers, Install(c) PROVE HistoryOK'
  <2>1. FileOf[at[c].key] \in Files
    BY <1>5, WorkerFields, SessionAssumption DEF Base, Install, Placed
  <2> QED BY <1>0, <1>5, <2>1 DEF Install, HistoryOK, callVars
<1>6. CASE UNCHANGED <<stored, callVars, astray, overlapped>>
  BY <1>0, <1>6 DEF HistoryOK, callVars
<1> QED BY <1>1, <1>2, <1>3, <1>4, <1>5, <1>6, SessionSteps DEF MetaFind, MetaOpen, DataFind,
      DataRead, SaveWrite, SaveIndex, SaveFails, Turn, Begin, RunEnds, AddMessage, Clear, Log,
      AddInstruction, List, GetMeta, Get, NextDay, Restart, vars, histVars, callVars

LEMMA CountersStep == Base /\ [Next]_vars => CountersOK'
<1> SUFFICES ASSUME Base, [Next]_vars PROVE CountersOK'
  OBVIOUS
<1>2. today' \in Days
  <2>1. CASE NextDay
    BY <2>1, SessionAssumption DEF NextDay, Days, Base, CountersOK
  <2>2. CASE today' = today
    BY <2>2 DEF Base, CountersOK
  <2> QED BY <2>1, <2>2, SessionSteps DEF MetaFind, MetaOpen, Install, DataFind, DataRead,
        SaveCreate, SaveWrite, SaveRename, SaveIndex, SaveFails, Turn, ClearCommand, Begin,
        RunEnds, AddMessage, Clear, Log, AddInstruction, List, GetMeta, Get, Delete, Restart,
        vars
<1>3. turns' \in Nat /\ incidents' \in Nat
  <2>1. turns' \in {turns, turns + 1} /\ incidents' \in {incidents, incidents + 1}
    BY SessionSteps DEF MetaFind, MetaOpen, Install, DataFind, DataRead,
        SaveCreate, SaveWrite, SaveRename, SaveIndex, SaveFails, Turn, ClearCommand, Begin,
        RunEnds, AddMessage, Clear, Log, AddInstruction, List, GetMeta, Get, Delete, NextDay,
        Restart, vars, bounds
  <2> QED BY <2>1 DEF Base, CountersOK
<1>4. HistoryOK'
  BY HistoryType
<1> QED BY <1>2, <1>3, <1>4 DEF Base, CountersOK, HistoryOK

LEMMA InitBase == Init => Base
<1> SUFFICES ASSUME Init PROVE Base
  OBVIOUS
<1>1. FilesOK
  <2>1. PICK first \in [Files -> {None, Old(0), Old(1)}] :
          disk = [f \in Files |-> [d \in Folders |-> IF d = 0 THEN first[f] ELSE None]]
    BY DEF Init
  <2>2. \A d \in Folders : Old(d) \in Content
    <3>1. [msgs |-> <<0>>, instrs |-> {}] \in Data
      BY DEF Data
    <3> QED BY <3>1 DEF Old, Content
  <2>3. \A f \in Files : first[f] \in Content \cup {None}
    BY <2>2, Bounds
  <2> QED BY <2>1, <2>3, Bounds DEF Init, FilesOK
<1>2. CachesOK
  BY Bounds DEF Init, CachesOK
<1>3. AllPlaced
  BY RestingPlaced DEF Init, AllPlaced
<1>4. CountersOK
  BY Bounds DEF Init, CountersOK
<1> QED BY <1>1, <1>2, <1>3, <1>4 DEF Base

LEMMA BaseType == Base => TypeOK
<1> SUFFICES ASSUME Base PROVE TypeOK
  OBVIOUS
<1>1. ASSUME NEW c \in Workers
      PROVE  /\ at[c].pc # "idle" => at[c].key # None
             /\ at[c].pc \in {"install", "find", "read", "prompt", "store", "add", "wipe",
                              "create", "write", "rename", "index"} => at[c].meta # None
             /\ at[c].pc \in {"add", "wipe", "create", "write"} => at[c].data # None
  BY WorkerFields DEF Base, Placed, Knowing, Saving
<1>2. at \in [Workers -> Worker]
  BY WorkerFields DEF Base, AllPlaced
<1> QED BY <1>1, <1>2 DEF Base, TypeOK, WorkersOK

(* Every goroutine is at a stage of its operation, with the metadata and   *)
(* the data that this stage works with; files and caches hold sessions.    *)
THEOREM TypeCorrect == Spec => []TypeOK
<1>1. Base /\ [Next]_vars => Base'
  BY FilesStep, CachesStep, CountersStep, PlacedStep DEF Base
<1> QED BY <1>1, InitBase, BaseType, PTL DEF Spec

-----------------------------------------------------------------------------
(* A turn waits for the instruction loggers it has started.                *)
LEMMA TurnWaitsFor ==
  ASSUME TurnWaits, NEW c \in Workers,
         \A e \in Workers \ {c} : at'[e].pc = at[e].pc,
         \/ c \in Viewers
         \/ c = Main /\ at[Main].pc # "prompt"
         \/ c \in Loggers /\ at[c].pc # "idle"
  PROVE  TurnWaits'
BY SessionAssumption DEF TurnWaits, Workers

LEMMA TurnStep == Base /\ TurnWaits /\ [Next]_vars => TurnWaits'
<1> SUFFICES ASSUME Base, TurnWaits, [Next]_vars PROVE TurnWaits'
  OBVIOUS
<1>0. at = [c \in Workers |-> at[c]]
  BY DEF Base, AllPlaced
<1>1. ASSUME NEW c \in Workers, \A e \in Workers \ {c} : at'[e].pc = at[e].pc,
             at[c].pc \notin {"idle", "prompt"}
      PROVE  TurnWaits'
  BY <1>1, TurnWaitsFor DEF Workers
<1>2. ASSUME NEW c \in Workers,
             MetaFind(c) \/ MetaOpen(c) \/ Install(c) \/ DataFind(c) \/ DataRead(c)
      PROVE  TurnWaits'
  <2>1. PICK w : Becomes(c, w)
    BY SMTT(30), <1>2, MetaFindMoves, MetaOpenMoves, InstallMoves, DataFindMoves, DataReadMoves
      DEF Moves
  <2>2. at[c].pc \in Reading
    BY <1>2 DEF MetaFind, MetaOpen, Install, DataFind, DataRead, Reading
  <2> QED BY <1>0, <1>1, <2>1, <2>2 DEF Becomes, Reading
<1>3. ASSUME NEW c \in Workers, SaveCreate(c) \/ SaveWrite(c) \/ SaveIndex(c) \/ SaveFails(c)
      PROVE  TurnWaits'
  <2>1. PICK w : Becomes(c, w)
    BY SMTT(30), <1>3, SavePlaced, SaveEnds DEF Moves
  <2>2. at[c].pc \in Saving
    BY <1>3 DEF SaveCreate, SaveWrite, SaveIndex, SaveFails, Saving
  <2> QED BY <1>0, <1>1, <2>1, <2>2 DEF Becomes, Saving
<1>4. ASSUME NEW c \in Workers, SaveRename(c) PROVE TurnWaits'
  <2>1. at[c].pc = "rename"
    BY <1>4 DEF SaveRename
  <2>2. ASSUME NEW e \in Workers \ {c} PROVE at'[e].pc = at[e].pc
    <3>1. Placed(e, at[e]) /\ at[e] \in Worker
      BY WorkerFields DEF Base
    <3>2. CASE Done(c)
      BY <1>0, <3>2 DEF Done, Becomes
    <3>3. CASE ~Done(c)
      BY <1>4, <3>1, <3>3 DEF SaveRename, Unlink, Worker
    <3> QED BY <3>2, <3>3
  <2> QED BY <1>1, <2>1, <2>2
<1>5. ASSUME NEW k \in Keys, Turn(k) \/ ClearCommand(k) PROVE TurnWaits'
  BY <1>0, <1>5, TurnWaitsFor DEF Turn, ClearCommand, Begin, Becomes, Workers
<1>6. ASSUME NEW k \in Keys, Delete(k) PROVE TurnWaits'
  <2>1. ASSUME NEW c \in Workers PROVE at'[c].pc = at[c].pc
    BY <1>6, WorkerFields DEF Base, Delete, Unlink, Worker
  <2> QED BY <1>6, <2>1 DEF Delete, TurnWaits, Workers
<1>7. CASE RunEnds
  BY <1>0, <1>7, SessionAssumption DEF RunEnds, Idle, Done, Becomes, TurnWaits, Resting, Workers
<1>8. CASE AddMessage
  BY <1>0, <1>8, TurnWaitsFor DEF AddMessage, GoTo, Done, Becomes, Workers
<1>9. CASE Clear
  BY <1>0, <1>9, TurnWaitsFor DEF Clear, Becomes, Workers
<1>10. ASSUME NEW l \in Loggers, Log(l) PROVE TurnWaits'
  <2>1. /\ l \in Workers /\ l # Main /\ Main \in Workers
        /\ at[Main].pc = "prompt"
        /\ \A e \in Workers \ {l} : at'[e] = at[e]
    BY <1>0, <1>10, SessionAssumption DEF Log, Begin, Becomes, Workers
  <2>2. at'[Main].pc = "prompt"
    BY <1>10, <2>1 DEF Log
  <2> QED BY <2>2 DEF TurnWaits
<1>11. ASSUME NEW l \in Loggers, AddInstruction(l) PROVE TurnWaits'
  BY <1>0, <1>11, TurnWaitsFor DEF AddInstruction, Done, Becomes, Workers
<1>12. ASSUME NEW v \in Viewers, \/ List(v) \/ GetMeta(v) \/ \E k \in Keys : Get(v, k)
       PROVE  TurnWaits'
  <2>1. \E w : Becomes(v, w)
    BY <1>12 DEF List, GetMeta, Get, GoTo, Done, Begin
  <2>2. \A e \in Workers \ {v} : at'[e].pc = at[e].pc
    BY <1>0, <2>1 DEF Becomes
  <2> QED BY <2>1, <2>2, TurnWaitsFor DEF Workers
<1>13. CASE Restart
  BY <1>13, SessionAssumption DEF Restart, TurnWaits, Resting, Workers
<1>14. CASE NextDay \/ UNCHANGED vars
  BY <1>14 DEF NextDay, vars, TurnWaits
<1> QED BY <1>2, <1>3, <1>4, <1>5, <1>6, <1>7, <1>8, <1>9, <1>10, <1>11, <1>12, <1>13, <1>14,
      SessionSteps

(* Two goroutines that save at once are sub-agents; a turn saves alone,    *)
(* and web handlers never do.                                              *)
LEMMA OneSaves ==
  ASSUME Base, TurnWaits, NEW c \in Workers, NEW e \in Workers, c # e,
         at[c].pc \in Saving, at[e].pc \in Saving
  PROVE  {c, e} \subseteq Loggers
<1>1. Placed(c, at[c]) /\ Placed(e, at[e])
  BY WorkerFields DEF Base
<1>2. c \notin Viewers /\ e \notin Viewers
  BY <1>1 DEF Placed, ViewerAt, Saving, Reading
<1> QED BY <1>1, <1>2 DEF TurnWaits, Workers, Saving

LEMMA StagesStep == StagesInv /\ [Next]_vars => StagesInv'
BY FilesStep, CachesStep, CountersStep, PlacedStep, TurnStep DEF StagesInv, Base

LEMMA InitStages == Init => StagesInv
<1> SUFFICES ASSUME Init PROVE StagesInv
  OBVIOUS
<1>1. TurnWaits
  BY SMTT(30) DEF Init, TurnWaits, Resting, Workers
<1> QED BY <1>1, InitBase DEF StagesInv

-----------------------------------------------------------------------------
(* No partial file.                                                        *)

(* Only Save and Delete touch the files.                                   *)
LEMMA FileSteps ==
  ASSUME [Next]_vars, ~(\E c \in Workers : SaveCreate(c) \/ SaveWrite(c) \/ SaveRename(c))
  PROVE  /\ tmp' = tmp /\ overlapped' = overlapped
         /\ (\E k \in Keys : Delete(k)) \/ (disk' = disk /\ last' = last /\ deleted' = deleted)
BY SessionSteps DEF MetaFind, MetaOpen, Install, DataFind, DataRead, SaveIndex, SaveFails, Turn,
  ClearCommand, Begin, RunEnds, AddMessage, Clear, Log, AddInstruction, List, GetMeta, Get,
  Delete, NextDay, Restart, vars, fileVars, histVars, callVars

LEMMA OverlappedGrows == [Next]_vars => overlapped \subseteq overlapped'
<1>1. ASSUME NEW c \in Workers, SaveCreate(c) \/ SaveWrite(c) \/ SaveRename(c)
      PROVE  overlapped \subseteq overlapped'
  BY <1>1 DEF SaveCreate, SaveWrite, SaveRename, histVars, callVars
<1> QED BY <1>1, FileSteps

(* What an open file says of its owner.                                    *)
LEMMA OpenFields ==
  ASSUME StagesInv, NEW c \in Workers, NEW f, NEW d, Open(c, f, d)
  PROVE  at[c].pc \in {"write", "rename"} /\ f \in Files /\ d \in Folders
BY WorkerFields, SessionAssumption DEF StagesInv, Base, Placed, Open, Knowing, Saving, Meta

LEMMA PathOpen ==
  ASSUME StagesInv, NEW c \in Workers, at[c].pc \in {"write", "rename"}
  PROVE  /\ Open(c, Path(c)[1], Path(c)[2])
         /\ Path(c)[1] \in Files /\ Path(c)[2] \in Folders
         /\ \A f, d : Open(c, f, d) => f = Path(c)[1] /\ d = Path(c)[2]
<1>1. Open(c, Path(c)[1], Path(c)[2])
  BY WorkerFields DEF StagesInv, Base, Placed, Open, Path
<1> QED BY <1>1, OpenFields DEF Open, Path

(* What the rename of one goroutine does.                                  *)
LEMMA RenameDoes ==
  ASSUME StagesInv, NEW c \in Workers, SaveRename(c)
  PROVE  /\ Path(c)[1] \in Files /\ Path(c)[2] \in Folders /\ Open(c, Path(c)[1], Path(c)[2])
         /\ \/ /\ tmp[Path(c)[1]][Path(c)[2]] = None
               /\ Done(c) /\ tmp' = tmp /\ disk' = disk /\ last' = last
            \/ /\ tmp[Path(c)[1]][Path(c)[2]] # None
               /\ tmp' = [tmp EXCEPT ![Path(c)[1]][Path(c)[2]] = None]
               /\ disk' = [disk EXCEPT ![Path(c)[1]][Path(c)[2]] = tmp[Path(c)[1]][Path(c)[2]]]
               /\ last' = [last EXCEPT ![Path(c)[1]] = tmp[Path(c)[1]][Path(c)[2]]]
               /\ at'[c] = [at[c] EXCEPT !.pc = "index", !.slot = "none", !.data = None]
         /\ \A e \in Workers \ {c} :
              \/ at'[e] = at[e]
              \/ /\ Open(e, Path(c)[1], Path(c)[2])
                 /\ \E s \in {"fin", "gone"} : at'[e] = [at[e] EXCEPT !.slot = s]
<1> DEFINE f == Path(c)[1]  d == Path(c)[2]
<1>1. f \in Files /\ d \in Folders /\ Open(c, f, d)
  BY PathOpen DEF SaveRename
<1>2. at = [e \in Workers |-> at[e]]
  BY DEF StagesInv, Base, AllPlaced
<1>3. CASE tmp[f][d] = None
  BY <1>1, <1>2, <1>3 DEF SaveRename, Done, Becomes, fileVars
<1>4. CASE tmp[f][d] # None
  BY <1>1, <1>4 DEF SaveRename, Unlink
<1> QED BY <1>1, <1>3, <1>4

LEMMA OneWriterStep ==
  ASSUME StagesInv, OneWriter, [Next]_vars
  PROVE  OneWriter'
<1>0. at = [e \in Workers |-> at[e]] /\ \A e \in Workers : at[e] \in Worker
  BY WorkerFields DEF StagesInv, Base, AllPlaced
<1> SUFFICES ASSUME NEW f \in Files \ overlapped', NEW d \in Folders, NEW c \in Workers,
                    OpenAs(at'[c], f, d)
             PROVE  /\ at'[c].slot = "tmp"
                    /\ \A e \in Workers : OpenAs(at'[e], f, d) => e = c
                    /\ at'[c].pc = "rename" => tmp'[f][d] = WrittenBy(at'[c])
  BY DEF OneWriter, Open, OpenAs
<1> DEFINE Goal == /\ at'[c].slot = "tmp"
                   /\ \A e \in Workers : OpenAs(at'[e], f, d) => e = c
                   /\ at'[c].pc = "rename" => tmp'[f][d] = WrittenBy(at'[c])
<1>1. f \in Files \ overlapped
  BY OverlappedGrows
<1>2. ASSUME at'[c] = at[c], tmp'[f][d] = tmp[f][d],
             \A e \in Workers : OpenAs(at'[e], f, d) => Open(e, f, d)
      PROVE  Goal
  BY <1>1, <1>2 DEF OneWriter, Open, OpenAs
<1>3. ASSUME NEW x \in Workers, Moves(x), tmp' = tmp PROVE Goal
  <2>1. at'[x].slot = "none" /\ \A e \in Workers \ {x} : at'[e] = at[e]
    BY <1>0, <1>3 DEF Moves, Becomes
  <2> QED BY <1>2, <1>3, <2>1 DEF Open, OpenAs
<1>4. ASSUME NEW k \in Keys, Delete(k) PROVE Goal
  <2>1. \A e \in Workers : \/ at'[e] = at[e]
                           \/ at[e].slot = "fin" /\ at'[e] = [at[e] EXCEPT !.slot = "gone"]
    BY <1>4 DEF Delete, Unlink
  <2>2. ASSUME NEW e \in Workers, OpenAs(at'[e], f, d) PROVE Open(e, f, d)
    <3>1. at[e] \in Worker
      BY <1>0
    <3>2. CASE at[e].slot = "fin" /\ at'[e] = [at[e] EXCEPT !.slot = "gone"]
      <4>1. at'[e].meta = at[e].meta /\ at'[e].folder = at[e].folder
        BY <3>1, <3>2 DEF Worker
      <4> QED BY <2>2, <3>2, <4>1 DEF Open, OpenAs
    <3> QED BY <2>1, <2>2, <3>2 DEF Open, OpenAs
  <2>3. at'[c] = at[c]
    BY <1>1, <2>1, <2>2 DEF OneWriter
  <2>4. tmp' = tmp
    BY <1>4 DEF Delete
  <2> QED BY <1>2, <2>2, <2>3, <2>4
<1>5. ASSUME NEW x \in Workers, SaveCreate(x) PROVE Goal
  <2> DEFINE g == FileOf[at[x].meta.key]  h == SaveFolder(x)
  <2>1. /\ \A e \in Workers \ {x} : at'[e] = at[e]
        /\ at'[x] = [at[x] EXCEPT !.pc = "write", !.slot = "tmp", !.folder = h]
        /\ tmp' = [tmp EXCEPT ![g][h] = Written(x, Empty, FALSE)]
        /\ Sharing(x, g, h) # {} => g \in overlapped'
    BY <1>0, <1>5 DEF SaveCreate, Becomes
  <2>2. at'[x].slot = "tmp" /\ at'[x].pc = "write" /\ at'[x].meta = at[x].meta /\ at'[x].folder = h
    BY <1>0, <2>1 DEF Worker
  <2>3. CASE f = g /\ d = h
    <3>1. \A e \in Workers : OpenAs(at'[e], f, d) => e = x
      BY <2>1, <2>3 DEF Open, OpenAs, Sharing
    <3> QED BY <2>2, <3>1
  <2>4. CASE ~(f = g /\ d = h)
    <3>1. ~OpenAs(at'[x], f, d)
      BY <2>2, <2>4 DEF Open, OpenAs
    <3>2. tmp'[f][d] = tmp[f][d]
      <4>1. g \in Files /\ h \in Folders
        BY <1>5, WrittenType, EmptyType DEF SaveCreate, StagesInv
      <4> QED BY <2>1, <2>4, <4>1 DEF StagesInv, Base, FilesOK
    <3>3. \A e \in Workers : OpenAs(at'[e], f, d) => Open(e, f, d) /\ at'[e] = at[e]
      BY <2>1, <3>1 DEF Open, OpenAs
    <3> QED BY <1>2, <3>2, <3>3
  <2> QED BY <2>3, <2>4
<1>6. ASSUME NEW x \in Workers, SaveWrite(x) PROVE Goal
  <2> DEFINE g == Path(x)[1]  h == Path(x)[2]
  <2>1. PICK whole \in BOOLEAN :
          /\ whole \/ \E e \in Sharing(x, g, h) : at[e].slot = at[x].slot
          /\ tmp' = IF at[x].slot = "tmp"
                    THEN [tmp EXCEPT ![g][h] = Written(x, at[x].data, whole)] ELSE tmp
    BY <1>6 DEF SaveWrite
  <2>2. /\ \A e \in Workers \ {x} : at'[e] = at[e]
        /\ at'[x] = [at[x] EXCEPT !.pc = "rename"]
    BY <1>0, <1>6 DEF SaveWrite, GoTo, Becomes
  <2>3. /\ Open(x, g, h) /\ g \in Files /\ h \in Folders
        /\ \A i, j : Open(x, i, j) => i = g /\ j = h
    BY <1>6, PathOpen DEF SaveWrite
  <2>4. \A e \in Workers : OpenAs(at'[e], f, d) => Open(e, f, d)
    BY <1>0, <2>2 DEF Open, OpenAs, Worker
  <2>5. CASE c = x
    <3>1. f = g /\ d = h /\ at[x].slot = "tmp" /\ Sharing(x, g, h) = {}
      BY <1>1, <2>3, <2>4, <2>5 DEF OneWriter, Sharing
    <3>2. tmp'[f][d] = WrittenBy(at[x])
      BY <2>1, <2>3, <3>1 DEF Written, WrittenBy, StagesInv, Base, FilesOK
    <3>3. at'[x].meta = at[x].meta /\ at'[x].data = at[x].data /\ at'[x].slot = "tmp"
      BY <1>0, <2>2, <3>1 DEF Worker
    <3> QED BY <1>1, <2>4, <2>5, <3>2, <3>3 DEF OneWriter, WrittenBy
  <2>6. CASE c # x
    <3>1. ~(f = g /\ d = h)
      BY <1>1, <2>3, <2>4, <2>6 DEF OneWriter
    <3>2. tmp'[f][d] = tmp[f][d]
      BY <2>1, <2>3, <3>1 DEF StagesInv, Base, FilesOK
    <3> QED BY <1>2, <2>2, <2>4, <2>6, <3>2
  <2> QED BY <2>5, <2>6
<1>7. ASSUME NEW x \in Workers, SaveRename(x) PROVE Goal
  <2> DEFINE g == Path(x)[1]  h == Path(x)[2]
  <2>1. /\ g \in Files /\ h \in Folders /\ Open(x, g, h)
        /\ \/ Done(x) /\ tmp' = tmp
           \/ /\ tmp' = [tmp EXCEPT ![g][h] = None]
              /\ at'[x] = [at[x] EXCEPT !.pc = "index", !.slot = "none", !.data = None]
        /\ \A e \in Workers \ {x} :
             \/ at'[e] = at[e]
             \/ /\ Open(e, g, h)
                /\ \E s \in {"fin", "gone"} : at'[e] = [at[e] EXCEPT !.slot = s]
    BY <1>7, RenameDoes
  <2>2. at'[x].slot = "none"
    <3>1. at[x] \in Worker /\ (Done(x) => at'[x] = Resting)
      BY <1>0 DEF Done, Becomes
    <3>2. Done(x) => at'[x].slot = "none"
      BY <3>1 DEF Resting
    <3>3. at'[x] = [at[x] EXCEPT !.pc = "index", !.slot = "none", !.data = None]
            => at'[x].slot = "none"
      BY <3>1 DEF Worker
    <3> QED BY <2>1, <3>2, <3>3
  <2>3. ASSUME NEW e \in Workers, OpenAs(at'[e], f, d) PROVE Open(e, f, d) /\ e # x
    <3>1. e # x
      BY <2>2, <2>3 DEF OpenAs
    <3>2. CASE at'[e] = at[e]
      BY <2>3, <3>1, <3>2 DEF Open, OpenAs
    <3>3. ASSUME Open(e, g, h), NEW s \in {"fin", "gone"}, at'[e] = [at[e] EXCEPT !.slot = s]
          PROVE  Open(e, f, d)
      <4>1. at[e] \in Worker
        BY <1>0
      <4>2. at'[e].meta = at[e].meta /\ at'[e].folder = at[e].folder
        BY <3>3, <4>1 DEF Worker
      <4> QED BY <2>3, <3>3, <4>2 DEF Open, OpenAs
    <3> QED BY <2>1, <3>1, <3>2, <3>3
  <2>4. ~(f = g /\ d = h)
    BY <1>1, <2>1, <2>3 DEF OneWriter
  <2>5. at'[c] = at[c]
    BY <2>1, <2>3, <2>4 DEF Open, OpenAs
  <2>6. tmp'[f][d] = tmp[f][d]
    BY <2>1, <2>4 DEF StagesInv, Base, FilesOK
  <2> QED BY SMTT(30), <1>2, <2>3, <2>5, <2>6
<1>8. CASE Restart
  BY <1>8 DEF Restart, OpenAs, Resting
<1>9. CASE at' = at /\ tmp' = tmp
  BY <1>2, <1>9 DEF Open, OpenAs
<1> QED BY <1>3, <1>4, <1>5, <1>6, <1>7, <1>8, <1>9, WorkerSteps, FileSteps DEF StagesInv

LEMMA SharingLoggers ==
  ASSUME StagesInv
  PROVE  \A f \in Files, d \in Folders, c, e \in Workers :
           Open(c, f, d) /\ Open(e, f, d) /\ c # e => {c, e} \subseteq Loggers
<1> SUFFICES ASSUME NEW f \in Files, NEW d \in Folders, NEW c \in Workers, NEW e \in Workers,
                    Open(c, f, d), Open(e, f, d), c # e
             PROVE  {c, e} \subseteq Loggers
  OBVIOUS
<1>1. at[c].pc \in Saving /\ at[e].pc \in Saving
  BY OpenFields DEF Saving
<1> QED BY <1>1, OneSaves DEF StagesInv

LEMMA WholeStep ==
  ASSUME StagesInv, OneWriter, Whole, [Next]_vars
  PROVE  Whole'
<1>1. ASSUME NEW f \in Files, NEW d \in Folders, disk'[f][d] # None, f \notin overlapped'
      PROVE  disk'[f][d].whole
  <2>0. f \notin overlapped
    BY <1>1, OverlappedGrows
  <2>1. CASE disk'[f][d] = disk[f][d]
    BY <1>1, <2>0, <2>1 DEF Whole
  <2>2. ASSUME NEW c \in Workers, SaveWrite(c), disk'[f][d] # disk[f][d] PROVE FALSE
    <3>1. Path(c)[1] = f /\ Path(c)[2] = d /\ at[c].slot = "fin"
      BY <2>2 DEF SaveWrite, StagesInv, Base, FilesOK
    <3>2. Open(c, f, d)
      BY <2>2, <3>1, PathOpen DEF SaveWrite
    <3> QED BY <2>0, <3>1, <3>2 DEF OneWriter
  <2>3. ASSUME NEW c \in Workers, SaveRename(c), disk'[f][d] # disk[f][d]
        PROVE  disk'[f][d].whole
    <3> DEFINE g == Path(c)[1]  h == Path(c)[2]
    <3>1. g \in Files /\ h \in Folders /\ Open(c, g, h) /\ disk' = [disk EXCEPT ![g][h] = tmp[g][h]]
      BY <2>3, RenameDoes
    <3>2. f = g /\ d = h /\ disk'[f][d] = tmp[f][d]
      BY <2>3, <3>1 DEF StagesInv, Base, FilesOK
    <3>3. tmp[f][d] = WrittenBy(at[c])
      BY <2>0, <2>3, <3>1, <3>2 DEF OneWriter, SaveRename
    <3> QED BY SMTT(30), <3>2, <3>3 DEF WrittenBy
  <2>4. ASSUME NEW k \in Keys, Delete(k), disk'[f][d] # disk[f][d] PROVE FALSE
    BY <1>1, <2>4 DEF Delete, StagesInv, Base, FilesOK
  <2>5. ASSUME NEW c \in Workers, SaveCreate(c) PROVE disk' = disk
    BY <2>5 DEF SaveCreate
  <2> QED BY <2>1, <2>2, <2>3, <2>4, <2>5, FileSteps
<1>2. (\A f \in Files, d \in Folders, c, e \in Workers :
         Open(c, f, d) /\ Open(e, f, d) /\ c # e => {c, e} \subseteq Loggers)'
  <2>1. StagesInv'
    BY StagesStep
  <2> QED BY <2>1, SharingLoggers, PTL
<1> QED BY <1>1, <1>2 DEF Whole

LEMMA InitWhole == Init => WholeInv
<1> SUFFICES ASSUME Init PROVE WholeInv
  OBVIOUS
<1>1. OneWriter
  BY DEF Init, OneWriter, Open, Resting
<1>2. \A f \in Files, d \in Folders : disk[f][d] # None => disk[f][d].whole
  BY DEF Init, Old
<1>3. Whole
  BY <1>2, InitStages, SharingLoggers DEF Whole
<1> QED BY <1>1, <1>3 DEF WholeInv

(* A partial session file means that two saves had its temporary file open *)
(* at once, and only sub-agents side by side can do that.                  *)
THEOREM NeverPartial == Spec => []Whole
<1>1. Init => StagesInv /\ WholeInv
  BY InitStages, InitWhole
<1>2. StagesInv /\ WholeInv /\ [Next]_vars => (StagesInv /\ WholeInv)'
  BY StagesStep, OneWriterStep, WholeStep DEF WholeInv
<1>3. WholeInv => Whole
  BY DEF WholeInv
<1> QED BY <1>1, <1>2, <1>3, PTL DEF Spec

-----------------------------------------------------------------------------
(* Who changes what.                                                       *)

(* Where a goroutine saves.                                                *)
File(c) == FileOf[at[c].meta.key]
Day(c)  == at[c].meta.created

LEMMA Saver ==
  ASSUME StagesInv, NEW c \in Workers, at[c].pc \in Saving
  PROVE  /\ c \in {Main} \cup Loggers /\ at[c].meta \in Meta
         /\ File(c) \in Files /\ Day(c) \in Days /\ at[c].meta.key \in Keys
<1>1. at[c].meta \in Meta /\ c \notin Viewers
  BY WorkerFields DEF StagesInv, Base, Placed, Knowing, Saving, ViewerAt, Reading
<1> QED BY <1>1, SessionAssumption DEF Meta, File, Day, Workers

(* The steps a goroutine takes itself.                                     *)
Own(c) ==
  \/ MetaFind(c) \/ MetaOpen(c) \/ Install(c) \/ DataFind(c) \/ DataRead(c)
  \/ SaveCreate(c) \/ SaveWrite(c) \/ SaveRename(c) \/ SaveIndex(c) \/ SaveFails(c)
  \/ c = Main /\ (RunEnds \/ AddMessage \/ Clear \/ \E k \in Keys : Turn(k) \/ ClearCommand(k))
  \/ c \in Loggers /\ (Log(c) \/ AddInstruction(c))
  \/ c \in Viewers /\ (List(c) \/ GetMeta(c) \/ \E k \in Keys : Get(c, k))

(* What the steps of others change of it: the name of its open file.       *)
Renamed(w, v) ==
  \/ v = w
  \/ w.slot # "none" /\ \E s \in {"fin", "gone"} : v = [w EXCEPT !.slot = s]

LEMMA OwnMoves ==
  ASSUME StagesInv, NEW x \in Workers, Own(x), ~SaveRename(x), ~SaveCreate(x), ~SaveWrite(x)
  PROVE  Moves(x)
<1>1. Base
  BY DEF StagesInv
<1>2. (\/ MetaFind(x) \/ MetaOpen(x) \/ Install(x) \/ DataFind(x) \/ DataRead(x)
       \/ SaveIndex(x) \/ SaveFails(x)) => Moves(x)
  BY <1>1, MetaFindMoves, MetaOpenMoves, InstallMoves, DataFindMoves, DataReadMoves, SaveEnds
<1>3. \A k \in Keys : x = Main /\ (Turn(k) \/ ClearCommand(k)) => Moves(x)
  BY <1>1, BeginMoves DEF Turn, ClearCommand
<1>4. /\ x = Main /\ (RunEnds \/ AddMessage \/ Clear) => Moves(x)
      /\ x \in Loggers /\ AddInstruction(x) => Moves(x)
      /\ x \in Viewers /\ (List(x) \/ GetMeta(x)) => Moves(x)
  BY <1>1, CallerMoves
<1>5. x \in Loggers /\ Log(x) => Moves(x)
  <2>1. Log(x) => at[Main].key \in Keys
    BY <1>1, WorkerFields DEF Base, Log, Placed, Workers
  <2> QED BY <1>1, <2>1, BeginMoves DEF Log
<1>6. \A k \in Keys : x \in Viewers /\ Get(x, k) => Moves(x)
  BY <1>1, BeginMoves DEF Get
<1> QED BY <1>2, <1>3, <1>4, <1>5, <1>6 DEF Own

LEMMA OwnBecomes ==
  ASSUME StagesInv, NEW x \in Workers, Own(x), ~SaveRename(x)
  PROVE  \E w : Placed(x, w) /\ Becomes(x, w)
<1>1. Moves(x) => \E w : Placed(x, w) /\ Becomes(x, w)
  BY DEF Moves
<1>2. SaveCreate(x) \/ SaveWrite(x) => \E w : Placed(x, w) /\ Becomes(x, w)
  BY SavePlaced DEF StagesInv
<1> QED BY <1>1, <1>2, OwnMoves

LEMMA OwnSteps ==
  ASSUME StagesInv, [Next]_vars, NEW c \in Workers
  PROVE  Own(c) \/ Restart \/ Renamed(at[c], at'[c])
<1>0. at = [e \in Workers |-> at[e]]
  BY DEF StagesInv, Base, AllPlaced
<1>1. ASSUME NEW x \in Workers, Own(x), x # c, ~SaveRename(x) PROVE at'[c] = at[c]
  BY <1>0, <1>1, OwnBecomes DEF Becomes
<1>2. ASSUME NEW x \in Workers, SaveRename(x), x # c PROVE Renamed(at[c], at'[c])
  <2>1. \/ at'[c] = at[c]
        \/ /\ Open(c, Path(x)[1], Path(x)[2])
           /\ \E s \in {"fin", "gone"} : at'[c] = [at[c] EXCEPT !.slot = s]
    BY <1>2, RenameDoes
  <2> QED BY <2>1 DEF Renamed, Open
<1>3. ASSUME NEW k \in Keys, Delete(k) PROVE Renamed(at[c], at'[c])
  BY <1>3 DEF Delete, Unlink, Renamed, Open
<1>4. NextDay \/ UNCHANGED vars => at' = at
  BY DEF NextDay, vars
<1>5. \/ \E x \in Workers : Own(x)
      \/ \E k \in Keys : Delete(k)
      \/ NextDay \/ Restart \/ UNCHANGED vars
  BY SessionSteps DEF Own, Workers
<1> QED BY <1>1, <1>2, <1>3, <1>4, <1>5 DEF Renamed

(* The name of an open file is all that Renamed changes.                   *)
LEMMA RenamedFields ==
  ASSUME NEW w \in Worker, NEW v, Renamed(w, v)
  PROVE  /\ v.pc = w.pc /\ v.op = w.op /\ v.key = w.key /\ v.meta = w.meta /\ v.data = w.data
         /\ v.folder = w.folder /\ (v.slot = "none" <=> w.slot = "none")
BY DEF Renamed, Worker

(* What a step does to a session file, to a temporary file, ...            *)
LEMMA DiskChanges ==
  ASSUME StagesInv, Homed, [Next]_vars, NEW f \in Files, NEW d \in Folders,
         disk'[f][d] # disk[f][d]
  PROVE  \/ disk'[f][d] = None /\ \E k \in Keys : Delete(k) /\ FileOf[k] = f
         \/ \E c \in Workers :
              /\ at[c].pc \in Saving /\ File(c) = f /\ Day(c) = d
              /\ \/ SaveRename(c) /\ tmp[f][d] # None /\ disk'[f][d] = tmp[f][d]
                 \/ /\ SaveWrite(c) /\ Open(c, f, d) /\ at[c].slot = "fin"
                    /\ \E whole \in BOOLEAN : disk'[f][d] = Written(c, at[c].data, whole)
<1>0. disk \in [Files -> [Folders -> Content \cup {None}]]
  BY DEF StagesInv, Base, FilesOK
<1>1. ASSUME NEW c \in Workers, at[c].pc \in {"write", "rename"}
      PROVE  /\ Path(c)[1] = File(c) /\ Path(c)[2] = Day(c) /\ Open(c, File(c), Day(c))
             /\ File(c) \in Files /\ Day(c) \in Folders
  <2>1. Open(c, Path(c)[1], Path(c)[2]) /\ Path(c)[1] \in Files /\ Path(c)[2] \in Folders
    BY <1>1, PathOpen
  <2>2. at[c].folder = Day(c)
    BY <2>1 DEF Open, Homed, Day
  <2> QED BY <2>1, <2>2 DEF Path, File
<1>2. ASSUME NEW c \in Workers, SaveRename(c)
      PROVE  /\ File(c) = f /\ Day(c) = d
             /\ SaveRename(c) /\ tmp[f][d] # None /\ disk'[f][d] = tmp[f][d]
  <2>1. at[c].pc = "rename"
    BY <1>2 DEF SaveRename
  <2>2. \/ disk' = disk
        \/ /\ tmp[File(c)][Day(c)] # None
           /\ disk' = [disk EXCEPT ![File(c)][Day(c)] = tmp[File(c)][Day(c)]]
    BY <1>1, <1>2, <2>1, RenameDoes
  <2> QED BY <1>0, <1>1, <1>2, <2>1, <2>2
<1>3. ASSUME NEW c \in Workers, SaveWrite(c)
      PROVE  /\ File(c) = f /\ Day(c) = d /\ Open(c, f, d) /\ at[c].slot = "fin"
             /\ \E whole \in BOOLEAN : disk'[f][d] = Written(c, at[c].data, whole)
  <2>1. at[c].pc = "write"
    BY <1>3 DEF SaveWrite
  <2>2. PICK whole \in BOOLEAN :
          disk' = IF at[c].slot = "fin"
                  THEN [disk EXCEPT ![File(c)][Day(c)] = Written(c, at[c].data, whole)] ELSE disk
    BY <1>1, <1>3, <2>1 DEF SaveWrite
  <2> QED BY <1>0, <1>1, <2>1, <2>2
<1>4. ASSUME NEW k \in Keys, Delete(k) PROVE FileOf[k] = f /\ disk'[f][d] = None
  <2>1. disk' = disk \/ disk' = [disk EXCEPT ![FileOf[k]][Min(Victim(k))] = None]
    BY <1>4 DEF Delete
  <2> QED BY <1>0, <2>1
<1>5. ASSUME NEW c \in Workers, SaveCreate(c) PROVE FALSE
  BY <1>5 DEF SaveCreate
<1> QED BY <1>2, <1>3, <1>4, <1>5, FileSteps DEF SaveRename, SaveWrite, Saving

LEMMA TmpChanges ==
  ASSUME StagesInv, Homed, [Next]_vars, NEW f \in Files, NEW d \in Folders,
         tmp'[f][d] # tmp[f][d], tmp'[f][d] # None
  PROVE  \E c \in Workers : /\ at[c].pc \in Saving /\ File(c) = f /\ Day(c) = d
                            /\ \E dat, whole : tmp'[f][d] = Written(c, dat, whole)
<1>0. tmp \in [Files -> [Folders -> Content \cup {None}]]
  BY DEF StagesInv, Base, FilesOK
<1>1. ASSUME NEW c \in Workers, SaveCreate(c)
      PROVE  File(c) = f /\ Day(c) = d /\ \E dat, whole : tmp'[f][d] = Written(c, dat, whole)
  <2>1. File(c) \in Files /\ Day(c) \in Days
    BY <1>1, Saver DEF SaveCreate, Saving
  <2>2. tmp' = [tmp EXCEPT ![File(c)][Day(c)] = Written(c, Empty, FALSE)]
    BY <1>1 DEF SaveCreate, SaveFolder, File, Day
  <2> QED BY <1>0, <2>1, <2>2, Bounds
<1>2. ASSUME NEW c \in Workers, SaveWrite(c)
      PROVE  File(c) = f /\ Day(c) = d /\ \E dat, whole : tmp'[f][d] = Written(c, dat, whole)
  <2>1. Open(c, Path(c)[1], Path(c)[2])
    BY <1>2, PathOpen DEF SaveWrite
  <2>2. Path(c)[1] = File(c) /\ Path(c)[2] = Day(c)
    BY <2>1 DEF Path, File, Day, Open, Homed
  <2>3. File(c) \in Files /\ Day(c) \in Days
    BY <1>2, Saver DEF SaveWrite, Saving
  <2>4. PICK whole \in BOOLEAN :
          tmp' = IF at[c].slot = "tmp"
                 THEN [tmp EXCEPT ![File(c)][Day(c)] = Written(c, at[c].data, whole)] ELSE tmp
    BY <1>2, <2>2 DEF SaveWrite
  <2> QED BY <1>0, <2>3, <2>4, Bounds
<1>3. ASSUME NEW c \in Workers, SaveRename(c) PROVE FALSE
  <2>1. \/ tmp' = tmp
        \/ /\ Path(c)[1] \in Files /\ Path(c)[2] \in Folders
           /\ tmp' = [tmp EXCEPT ![Path(c)[1]][Path(c)[2]] = None]
    BY <1>3, RenameDoes
  <2> QED BY <1>0, <2>1
<1> QED BY <1>1, <1>2, <1>3, FileSteps DEF SaveCreate, SaveWrite, Saving

(* ... and to the caches.                                                  *)
Entered(c) == IF at[c].op # "meta" /\ metaCache[at[c].key] # None
              THEN metaCache[at[c].key] ELSE at[c].meta

LEMMA CacheChanges ==
  ASSUME StagesInv, [Next]_vars, NEW k \in Keys, metaCache'[k] # metaCache[k]
  PROVE  \/ metaCache'[k] = None /\ (Delete(k) \/ Restart)
         \/ \E c \in Workers : Install(c) /\ at[c].key = k /\ metaCache'[k] = Entered(c)
         \/ \E c \in Workers : SaveIndex(c) /\ at[c].meta.key = k /\ metaCache'[k] = at[c].meta
<1>0. metaCache \in [Keys -> Meta \cup {None}]
  BY DEF StagesInv, Base, CachesOK
<1>1. ASSUME NEW c \in Workers, Install(c) PROVE at[c].key = k /\ metaCache'[k] = Entered(c)
  BY <1>0, <1>1 DEF Install, Entered
<1>2. ASSUME NEW c \in Workers, SaveIndex(c)
      PROVE  at[c].meta.key = k /\ metaCache'[k] = at[c].meta
  BY <1>0, <1>2 DEF SaveIndex
<1>3. ASSUME NEW l \in Keys, Delete(l) PROVE l = k /\ metaCache'[k] = None
  BY <1>0, <1>3 DEF Delete
<1>4. Restart => metaCache'[k] = None
  BY DEF Restart
<1>5. metaCache' # metaCache
  OBVIOUS
<1>6. \/ Restart \/ \E c \in Workers : Install(c) \/ SaveIndex(c)
      \/ \E l \in Keys : Delete(l)
  BY <1>5, SessionSteps DEF MetaFind, MetaOpen, DataFind, DataRead, SaveCreate, SaveWrite,
    SaveRename, SaveFails, Turn, ClearCommand, Begin, RunEnds, AddMessage, Clear, Log,
    AddInstruction, List, GetMeta, Get, NextDay, vars, cacheVars
<1> QED BY <1>1, <1>2, <1>3, <1>4, <1>6

Looks(c, k) == \/ MetaFind(c) /\ at[c].key = k
               \/ DataFind(c) /\ at[c].meta.key = k
               \/ List(c) /\ k \in Stems

LEMMA IndexChanges ==
  ASSUME StagesInv, [Next]_vars, NEW k \in Keys, dateIndex'[k] # dateIndex[k]
  PROVE  \/ dateIndex'[k] = 0
         \/ /\ dateIndex'[k] \in Days /\ disk[FileOf[k]][dateIndex'[k]] # None
            /\ disk' = disk /\ deleted' = deleted /\ \E c \in Workers : Looks(c, k)
         \/ \E c \in Workers : /\ SaveIndex(c) /\ at[c].meta.key = k
                               /\ dateIndex'[k] = at[c].folder
<1>0. dateIndex \in [Keys -> Folders] /\ FileOf[k] \in Files
  BY SessionAssumption DEF StagesInv, Base, CachesOK
<1>1. ASSUME NEW c \in Workers, MetaFind(c) \/ DataFind(c)
      PROVE  /\ dateIndex'[k] \in Days /\ disk[FileOf[k]][dateIndex'[k]] # None
             /\ disk' = disk /\ deleted' = deleted /\ Looks(c, k)
  <2> DEFINE l == IF MetaFind(c) THEN at[c].key ELSE at[c].meta.key
  <2>1. /\ Located(l) # {} /\ Remember(l, Min(Located(l)))
        /\ disk' = disk /\ deleted' = deleted
    BY <1>1 DEF MetaFind, DataFind, fileVars, histVars, callVars
  <2>2. l = k /\ Min(Located(l)) # 0 /\ dateIndex'[k] = Min(Located(l))
    BY <1>0, <2>1 DEF Remember
  <2>3. dateIndex[k] = 0 /\ Located(k) = Found(FileOf[k])
    <3>1. Min(Located(k)) \in Located(k)
      BY <2>1, <2>2, LocatedPlaces DEF StagesInv, Base
    <3> QED BY <2>2, <3>1 DEF Located
  <2>4. Min(Found(FileOf[k])) \in Found(FileOf[k])
    BY <1>0, <2>1, <2>2, <2>3, FoundPlaces
  <2>5. dateIndex'[k] \in Folders /\ disk[FileOf[k]][dateIndex'[k]] # None
    BY <1>0, <2>2, <2>3, <2>4, FoundPlaces
  <2> QED BY <1>1, <2>1, <2>2, <2>5, Bounds DEF Looks
<1>2. ASSUME NEW v \in Viewers, List(v)
      PROVE  /\ dateIndex'[k] \in Days /\ disk[FileOf[k]][dateIndex'[k]] # None
             /\ disk' = disk /\ deleted' = deleted /\ Looks(v, k)
  <2>1. /\ k \in Stems /\ Dated(FileOf[k]) # {} /\ dateIndex'[k] = Max(Dated(FileOf[k]))
        /\ disk' = disk /\ deleted' = deleted
    BY <1>0, <1>2 DEF List, fileVars, histVars, callVars
  <2>2. Dated(FileOf[k]) \in SUBSET (1..MaxDay) /\ MaxDay \in Nat
    BY SessionAssumption DEF Dated, Days
  <2>3. Max(Dated(FileOf[k])) \in Dated(FileOf[k])
    BY <2>1, <2>2, GreatestOf
  <2> QED BY <1>2, <2>1, <2>3 DEF Dated, Looks
<1>3. ASSUME NEW c \in Workers, SaveIndex(c)
      PROVE  at[c].meta.key = k /\ dateIndex'[k] = at[c].folder
  BY <1>0, <1>3 DEF SaveIndex
<1>4. ASSUME NEW l \in Keys, Delete(l) PROVE dateIndex'[k] = 0
  BY <1>0, <1>4 DEF Delete
<1>5. Restart => dateIndex'[k] = 0
  BY DEF Restart
<1>6. dateIndex' # dateIndex
  OBVIOUS
<1>7. \/ Restart \/ \E c \in Workers : MetaFind(c) \/ DataFind(c) \/ SaveIndex(c)
      \/ \E v \in Viewers : List(v)
      \/ \E l \in Keys : Delete(l)
  BY <1>6, SessionSteps DEF MetaOpen, Install, DataRead, SaveCreate, SaveWrite,
    SaveRename, SaveFails, Turn, ClearCommand, Begin, RunEnds, AddMessage, Clear, Log,
    AddInstruction, GetMeta, Get, NextDay, vars, cacheVars
<1> QED BY <1>1, <1>2, <1>3, <1>4, <1>5, <1>7 DEF Workers

-----------------------------------------------------------------------------
(* A step of one goroutine, and its metadata.                              *)

LEMMA BecomesIs ==
  ASSUME StagesInv, NEW c \in Workers, NEW w, Becomes(c, w)
  PROVE  at'[c] = w /\ \A e \in Workers \ {c} : at'[e] = at[e]
BY DEF StagesInv, Base, AllPlaced, Becomes

(* Where a goroutine's metadata comes from.                                *)
Keeps(w, v) == v.key = w.key /\ v.meta = w.meta /\ w.pc # "install"

(* What a goroutine is about to enter into the cache: new metadata, when   *)
(* no file was there, or that of the file it has opened.                   *)
Looked(c) ==
  /\ at'[c].pc = "install" /\ at'[c].key = at[c].key /\ at[c].pc \in {"lookup", "open"}
  /\ at'[c].op = at[c].op
  /\ disk' = disk /\ metaCache' = metaCache
  /\ \/ /\ at[c].op # "meta" /\ at'[c].meta = NewMeta(at[c].key)
        /\ \/ at[c].pc = "lookup" /\ Located(at[c].key) = {}
           \/ at[c].pc = "open" /\ disk[FileOf[at[c].key]][at[c].folder] = None
     \/ /\ at[c].pc = "open" /\ disk[FileOf[at[c].key]][at[c].folder] # None
        /\ at'[c].meta = Header(at[c].key, disk[FileOf[at[c].key]][at[c].folder])

LEMMA NotThereLooked ==
  ASSUME StagesInv, NEW c \in Workers, NotThere(c), ~Done(c),
         \/ at[c].pc = "lookup" /\ Located(at[c].key) = {}
         \/ at[c].pc = "open" /\ disk[FileOf[at[c].key]][at[c].folder] = None,
         disk' = disk, metaCache' = metaCache
  PROVE  Looked(c)
<1>1. at[c] \in Worker
  BY WorkerFields DEF StagesInv, Base
<1>2. at[c].op # "meta" /\ at'[c] = [at[c] EXCEPT !.pc = "install", !.meta = NewMeta(at[c].key)]
  BY BecomesIs DEF NotThere
<1> QED BY <1>1, <1>2 DEF Looked, Worker

LEMMA MetaSteps ==
  ASSUME StagesInv, NEW c \in Workers, Own(c), at'[c].meta # None
  PROVE  \/ Keeps(at[c], at'[c])
         \/ /\ at[c].pc = "idle" /\ at'[c].pc = "find" /\ at'[c].key \in Keys
            /\ at'[c].meta = metaCache[at'[c].key] /\ metaCache' = metaCache
         \/ Install(c) /\ at'[c].meta = Entered(c) /\ at'[c].key = at[c].key
         \/ Looked(c)
<1>0. at[c] \in Worker /\ Placed(c, at[c]) /\ Resting.meta = None
  BY WorkerFields DEF StagesInv, Base, Resting
<1>2. ~Done(c)
  BY <1>0, BecomesIs DEF Done
<1>1. ASSUME NEW op, NEW k \in Keys, Begin(c, op, k)
      PROVE  /\ at[c].pc = "idle" /\ at'[c].key = k /\ at'[c].meta = metaCache[k]
             /\ at'[c].pc = "find" /\ metaCache' = metaCache
  <2>1. at'[c] = [Resting EXCEPT !.op = op, !.key = k, !.meta = metaCache[k],
                                !.pc = IF metaCache[k] # None THEN "find" ELSE "lookup"]
    BY <1>1, BecomesIs DEF Begin
  <2> QED BY <1>1, <2>1 DEF Begin, Resting, cacheVars
<1>3. CASE MetaFind(c)
  <2>1. CASE Located(at[c].key) = {}
    BY <1>2, <1>3, <2>1, NotThereLooked DEF MetaFind, fileVars
  <2>2. CASE Located(at[c].key) # {}
    <3>1. at'[c] = [at[c] EXCEPT !.pc = "open", !.folder = Min(Located(at[c].key))]
      BY <1>3, <2>2, BecomesIs DEF MetaFind
    <3> QED BY <1>0, <1>3, <3>1 DEF MetaFind, Keeps, Worker
  <2> QED BY <2>1, <2>2
<1>4. CASE MetaOpen(c)
  <2> DEFINE file == disk[FileOf[at[c].key]][at[c].folder]
  <2>1. CASE file = None
    BY <1>2, <1>4, <2>1, NotThereLooked DEF MetaOpen, fileVars, cacheVars
  <2>2. CASE file # None
    <3>1. at'[c] = [at[c] EXCEPT !.pc = "install", !.meta = Header(at[c].key, file)]
      BY <1>0, <1>4, <2>2, BecomesIs DEF MetaOpen, Done
    <3> QED BY <1>0, <1>4, <2>2, <3>1 DEF MetaOpen, Looked, Worker, fileVars, cacheVars
  <2> QED BY <2>1, <2>2
<1>5. CASE Install(c)
  <2>1. at[c].op # "meta" /\ at'[c] = [at[c] EXCEPT !.pc = "find", !.meta = Entered(c)]
    BY <1>0, <1>5, BecomesIs DEF Install, Entered, Done
  <2> QED BY <1>0, <1>5, <2>1 DEF Worker
<1>6. ASSUME NEW d, NEW i, Loaded(c, d, i) PROVE at'[c].meta = at[c].meta /\ at'[c].key = at[c].key
  <2>1. at'[c] = [at[c] EXCEPT !.pc = NextStage[at[c].op], !.data = d, !.folder = i]
    BY <1>0, <1>6, BecomesIs DEF Loaded, Done
  <2> QED BY <1>0, <2>1 DEF Worker
<1>7. CASE DataFind(c)
  <2>1. CASE Located(at[c].meta.key) = {}
    BY <1>6, <1>7, <2>1 DEF DataFind, Keeps
  <2>2. CASE Located(at[c].meta.key) # {}
    <3>1. at'[c] = [at[c] EXCEPT !.pc = "read", !.folder = Min(Located(at[c].meta.key))]
      BY <1>7, <2>2, BecomesIs DEF DataFind
    <3> QED BY <1>0, <1>7, <3>1 DEF DataFind, Keeps, Worker
  <2> QED BY <2>1, <2>2
<1>8. ASSUME NEW p, GoTo(c, p) PROVE at'[c].meta = at[c].meta /\ at'[c].key = at[c].key
  <2>1. at'[c] = [at[c] EXCEPT !.pc = p]
    BY <1>8, BecomesIs DEF GoTo
  <2> QED BY <1>0, <2>1 DEF Worker
<1>9. CASE DataRead(c)
  <2>1. LoadFailed(c) => \E p : GoTo(c, p)
    BY <1>0, BecomesIs DEF LoadFailed, Done
  <2> QED BY <1>6, <1>8, <1>9, <2>1 DEF DataRead, Keeps
<1>10. CASE SaveCreate(c) \/ SaveWrite(c) \/ SaveRename(c) \/ SaveIndex(c) \/ SaveFails(c)
  <2>1. ~SaveFails(c) /\ ~SaveIndex(c)
    BY <1>0, BecomesIs DEF SaveFails, SaveIndex, Done
  <2>2. CASE SaveCreate(c)
    <3>1. at'[c] = [at[c] EXCEPT !.pc = "write", !.slot = "tmp", !.folder = SaveFolder(c)]
      BY <2>2, BecomesIs DEF SaveCreate
    <3> QED BY <1>0, <2>2, <3>1 DEF SaveCreate, Keeps, Worker
  <2>3. CASE SaveWrite(c)
    BY <1>8, <2>3 DEF SaveWrite, Keeps
  <2>4. CASE SaveRename(c)
    <3>1. at'[c] = [at[c] EXCEPT !.pc = "index", !.slot = "none", !.data = None]
      BY <1>0, <2>4, RenameDoes, BecomesIs DEF Done
    <3> QED BY <1>0, <2>4, <3>1 DEF SaveRename, Keeps, Worker
  <2> QED BY <1>10, <2>1, <2>2, <2>3, <2>4
<1>11. CASE c = Main /\ (RunEnds \/ AddMessage \/ Clear)
  <2>1. CASE RunEnds
    <3>1. at'[c] = [at[c] EXCEPT !.pc = "store", !.op = "store"]
      BY <1>0, <1>11, <2>1, BecomesIs DEF RunEnds, Done
    <3> QED BY <1>0, <1>11, <2>1, <3>1 DEF RunEnds, Keeps, Worker
  <2>2. CASE AddMessage
    <3>1. \/ GoTo(c, "find")
          \/ at'[c] = [at[c] EXCEPT !.pc = "create", !.data.msgs = Append(@, turns + 1)]
      BY <1>0, <1>11, <2>2, BecomesIs DEF AddMessage, Done
    <3> QED BY <1>0, <1>8, <1>11, <2>2, <3>1 DEF AddMessage, Keeps, Worker
  <2>3. CASE Clear
    <3>1. at'[c] = [at[c] EXCEPT !.pc = "create", !.data = Empty]
      BY <1>11, <2>3, BecomesIs DEF Clear
    <3> QED BY <1>0, <1>11, <2>3, <3>1 DEF Clear, Keeps, Worker
  <2> QED BY <1>11, <2>1, <2>2, <2>3
<1>12. CASE c = Main /\ \E k \in Keys : Turn(k) \/ ClearCommand(k)
  BY <1>1, <1>12 DEF Turn, ClearCommand
<1>13. CASE c \in Loggers /\ (Log(c) \/ AddInstruction(c))
  <2>1. CASE Log(c)
    <3>1. at[Main].key \in Keys
      BY <2>1, WorkerFields DEF StagesInv, Base, Log, Placed, Workers
    <3> QED BY <1>1, <2>1, <3>1 DEF Log
  <2>2. CASE AddInstruction(c)
    <3>1. at'[c] = [at[c] EXCEPT !.pc = "create", !.data.instrs = @ \cup {c}]
      <4>1. ~Done(c)
        BY <1>0, BecomesIs DEF Done
      <4>2. Becomes(c, [at[c] EXCEPT !.pc = "create", !.data.instrs = @ \cup {c}])
        BY <2>2, <4>1, Zenon DEF AddInstruction
      <4>3. ASSUME NEW w, Becomes(c, w) PROVE at'[c] = w
        BY <4>3, BecomesIs
      <4> QED BY <4>2, <4>3, Zenon
    <3> QED BY <1>0, <2>2, <3>1 DEF AddInstruction, Keeps, Worker
  <2> QED BY <1>13, <2>1, <2>2
<1>14. CASE c \in Viewers /\ (List(c) \/ GetMeta(c) \/ \E k \in Keys : Get(c, k))
  <2>1. ~List(c)
    <3>1. ASSUME NEW k, Becomes(c, [Resting EXCEPT !.pc = "getmeta", !.op = "meta", !.key = k])
          PROVE  FALSE
      <4>1. at'[c] = [Resting EXCEPT !.pc = "getmeta", !.op = "meta", !.key = k]
        BY <3>1, BecomesIs
      <4> QED BY <4>1 DEF Resting
    <3> QED BY <3>1 DEF List
  <2>2. GetMeta(c) => Keeps(at[c], at'[c])
    BY <1>0, <1>8, BecomesIs DEF GetMeta, Done, Keeps
  <2>3. ASSUME NEW k \in Keys, Get(c, k) PROVE Begin(c, "get", k)
    BY <2>3 DEF Get
  <2> QED BY <1>1, <1>14, <2>1, <2>2, <2>3
<1> QED BY <1>3, <1>4, <1>5, <1>7, <1>9, <1>10, <1>11, <1>12, <1>13, <1>14 DEF Own

-----------------------------------------------------------------------------
(* The keys that files, caches and goroutines bear name the session's file.*)

LEMMA StageFields ==
  ASSUME StagesInv, NEW c \in Workers
  PROVE  /\ at[c] \in Worker /\ Placed(c, at[c])
         /\ at[c].pc # "idle" => at[c].key \in Keys
         /\ at[c].meta # None => at[c].meta \in Meta /\ at[c].meta.key \in Keys
                                 /\ at[c].meta.created \in Days
BY WorkerFields DEF StagesInv, Base, Placed, Meta

LEMMA InstallEnters ==
  ASSUME StagesInv, NEW c \in Workers, Install(c)
  PROVE  /\ at[c].key \in Keys /\ FileOf[at[c].key] \in Files /\ Entered(c) \in Meta
         /\ metaCache' = [metaCache EXCEPT ![at[c].key] = Entered(c)]
         /\ at'[c].pc # "install"
         /\ astray' = IF DaysOf(FileOf[at[c].key]) \subseteq {Entered(c).created} THEN astray
                      ELSE astray \cup {FileOf[at[c].key]}
<1>1. at[c].pc = "install" /\ at[c] \in Worker /\ Placed(c, at[c]) /\ at[c].key \in Keys
  BY StageFields DEF Install
<1>2. at[c].meta \in Meta
  BY <1>1 DEF Placed, Worker
<1>3. Entered(c) \in Meta /\ FileOf[at[c].key] \in Files
  BY <1>1, <1>2, SessionAssumption DEF Entered, StagesInv, Base, CachesOK
<1>4. CASE at[c].op = "meta"
  <2>1. at'[c] = Resting
    BY <1>4, BecomesIs DEF Install, Done
  <2> QED BY <1>1, <1>3, <2>1 DEF Install, Entered, Resting
<1>5. CASE at[c].op # "meta"
  <2>1. at'[c] = [at[c] EXCEPT !.pc = "find", !.meta = Entered(c)]
    BY <1>5, BecomesIs DEF Install, Entered
  <2>2. at'[c].pc = "find"
    BY <1>1, <2>1 DEF Worker
  <2> QED BY <1>1, <1>3, <2>2 DEF Install, Entered
<1> QED BY <1>4, <1>5

LEMMA WrittenFields ==
  ASSUME NEW c \in Workers, NEW dat, NEW whole
  PROVE  /\ Written(c, dat, whole).key = at[c].meta.key
         /\ Written(c, dat, whole).created = at[c].meta.created
         /\ Written(c, dat, whole).data = dat /\ Written(c, dat, whole).whole = whole
BY DEF Written

LEMMA NamedStep ==
  ASSUME StagesInv, Named, Homed, [Next]_vars
  PROVE  Named'
<1>1. ASSUME NEW f \in Files, NEW d \in Folders, disk'[f][d] # None PROVE Names(disk'[f][d], f)
  <2>1. CASE disk'[f][d] = disk[f][d]
    BY <1>1, <2>1 DEF Named
  <2>2. CASE disk'[f][d] # disk[f][d]
    <3>1. PICK c \in Workers :
            /\ at[c].pc \in Saving /\ File(c) = f
            /\ \/ tmp[f][d] # None /\ disk'[f][d] = tmp[f][d]
               \/ \E whole \in BOOLEAN : disk'[f][d] = Written(c, at[c].data, whole)
      BY <1>1, <2>2, DiskChanges
    <3>2. \A dat, whole : Names(Written(c, dat, whole), f)
      BY <3>1, WrittenFields DEF Names, File
    <3> QED BY <3>1, <3>2 DEF Named
  <2> QED BY <2>1, <2>2
<1>2. ASSUME NEW f \in Files, NEW d \in Folders, tmp'[f][d] # None PROVE Names(tmp'[f][d], f)
  <2>1. CASE tmp'[f][d] = tmp[f][d]
    BY <1>2, <2>1 DEF Named
  <2>2. CASE tmp'[f][d] # tmp[f][d]
    <3>1. PICK c \in Workers : File(c) = f /\ \E dat, whole : tmp'[f][d] = Written(c, dat, whole)
      BY <1>2, <2>2, TmpChanges
    <3>2. \A dat, whole : Names(Written(c, dat, whole), f)
      BY <3>1, WrittenFields DEF Names, File
    <3> QED BY <3>1, <3>2
  <2> QED BY <2>1, <2>2
<1>3. ASSUME NEW k \in Keys, metaCache'[k] # None PROVE Names(metaCache'[k], FileOf[k])
  <2>1. CASE metaCache'[k] = metaCache[k]
    BY <1>3, <2>1 DEF Named
  <2>2. ASSUME NEW c \in Workers, Install(c), at[c].key = k, metaCache'[k] = Entered(c)
        PROVE  Names(metaCache'[k], FileOf[k])
    <3>1. at[c].meta # None
      BY <2>2, StageFields DEF Install, Placed
    <3> QED BY <2>2, <3>1 DEF Named, Entered
  <2>3. ASSUME NEW c \in Workers, SaveIndex(c), at[c].meta.key = k, metaCache'[k] = at[c].meta
        PROVE  Names(metaCache'[k], FileOf[k])
    BY <2>3 DEF Names
  <2> QED BY <1>3, <2>1, <2>2, <2>3, CacheChanges
<1>4. ASSUME NEW c \in Workers, at'[c].meta # None PROVE Names(at'[c].meta, FileOf[at'[c].key])
  <2>1. CASE Renamed(at[c], at'[c])
    <3>1. at'[c].meta = at[c].meta /\ at'[c].key = at[c].key
      BY <2>1, StageFields, RenamedFields
    <3> QED BY <1>4, <3>1 DEF Named
  <2>2. CASE Restart
    BY <1>4, <2>2 DEF Restart, Resting
  <2>3. CASE Own(c)
    <3>1. CASE Keeps(at[c], at'[c])
      BY <1>4, <3>1 DEF Named, Keeps
    <3>2. CASE at'[c].key \in Keys /\ at'[c].meta = metaCache[at'[c].key]
      BY <1>4, <3>2 DEF Named
    <3>3. CASE Install(c) /\ at'[c].meta = Entered(c) /\ at'[c].key = at[c].key
      <4>1. at[c].meta # None /\ at[c].key \in Keys
        BY <3>3, StageFields DEF Install, Placed
      <4> QED BY <3>3, <4>1 DEF Named, Entered
    <3>4. CASE Looked(c)
      <4> DEFINE k == at[c].key
      <4>1. k \in Keys /\ FileOf[k] \in Files /\ at[c].folder \in Folders
        BY <3>4, StageFields, WorkerFields, SessionAssumption DEF Looked, StagesInv, Base
      <4>2. CASE at'[c].meta = NewMeta(k)
        BY <3>4, <4>2 DEF Looked, NewMeta, Names
      <4>3. CASE /\ disk[FileOf[k]][at[c].folder] # None
                 /\ at'[c].meta = Header(k, disk[FileOf[k]][at[c].folder])
        <5> DEFINE file == disk[FileOf[k]][at[c].folder]
        <5>1. Names(file, FileOf[k])
          BY <4>1, <4>3 DEF Named
        <5>2. at'[c].meta.key = IF file.key = None THEN k ELSE file.key
          BY <4>3 DEF Header
        <5> QED BY <3>4, <5>1, <5>2 DEF Looked, Names
      <4> QED BY <3>4, <4>2, <4>3 DEF Looked
    <3> QED BY <1>4, <2>3, <3>1, <3>2, <3>3, <3>4, MetaSteps
  <2> QED BY <2>1, <2>2, <2>3, OwnSteps
<1> QED BY <1>1, <1>2, <1>3, <1>4 DEF Named

(* How a goroutine gets to the stages that depend on what it found.        *)
LEMMA StageAfter ==
  ASSUME StagesInv, NEW c \in Workers, Own(c),
         at'[c].pc \in {"index", "install", "open", "read"}
  PROVE  \/ at'[c].pc = "index" /\ SaveRename(c)
         \/ Looked(c)
         \/ /\ MetaFind(c) /\ Located(at[c].key) # {}
            /\ at'[c] = [at[c] EXCEPT !.pc = "open", !.folder = Min(Located(at[c].key))]
         \/ /\ DataFind(c) /\ Located(at[c].meta.key) # {}
            /\ at'[c] = [at[c] EXCEPT !.pc = "read", !.folder = Min(Located(at[c].meta.key))]
<1> DEFINE late == {"index", "install", "open", "read"}
<1>0. at[c] \in Worker /\ Placed(c, at[c]) /\ Resting.pc = "idle"
  BY StageFields DEF Resting
<1>1. ASSUME NEW w, Becomes(c, w) PROVE w.pc \in late
  BY <1>1, BecomesIs
<1>2. ~Done(c) /\ \A p : GoTo(c, p) => p \in late
  <2>1. \A p : [at[c] EXCEPT !.pc = p].pc = p
    BY <1>0 DEF Worker
  <2>2. ASSUME NEW p, GoTo(c, p) PROVE p \in late
    BY <1>1, <2>1, <2>2 DEF GoTo
  <2> QED BY <1>0, <1>1, <2>2 DEF Done
<1>3. \A k, op : ~Begin(c, op, k)
  <2> SUFFICES ASSUME NEW k, NEW op, Begin(c, op, k) PROVE FALSE
    OBVIOUS
  <2>1. at'[c] = [Resting EXCEPT !.op = op, !.key = k, !.meta = metaCache[k],
                                !.pc = IF metaCache[k] # None THEN "find" ELSE "lookup"]
    BY BecomesIs DEF Begin
  <2> QED BY <2>1 DEF Resting
<1>4. ASSUME at[c].pc \in {"find", "read"} PROVE ~\E d, i : Loaded(c, d, i)
  <2>1. at[c].op = "get" \/ at[c].op \in {"turn", "store", "log", "clear"}
    BY <1>0, <1>4 DEF Placed, ViewerAt, LoggerAt, MainAt, Workers
  <2>2. at[c].op \in {"turn", "store", "log", "clear"} => NextStage[at[c].op] \notin late
    BY DEF NextStage
  <2>3. ASSUME NEW d, NEW i, NEW p, Becomes(c, [at[c] EXCEPT !.pc = p, !.data = d, !.folder = i])
        PROVE  p \in late
    <3>1. at'[c] = [at[c] EXCEPT !.pc = p, !.data = d, !.folder = i]
      BY <2>3, BecomesIs
    <3> QED BY <1>0, <3>1 DEF Worker
  <2> QED BY <1>2, <2>1, <2>2, <2>3 DEF Loaded
<1>5. CASE MetaFind(c)
  <2>1. CASE Located(at[c].key) = {}
    BY <1>2, <1>5, <2>1, NotThereLooked DEF MetaFind, fileVars
  <2>2. CASE Located(at[c].key) # {}
    BY <1>5, <2>2, BecomesIs DEF MetaFind
  <2> QED BY <2>1, <2>2
<1>6. CASE MetaOpen(c)
  <2>1. CASE disk[FileOf[at[c].key]][at[c].folder] = None
    BY <1>2, <1>6, <2>1, NotThereLooked DEF MetaOpen, fileVars, cacheVars
  <2>2. CASE disk[FileOf[at[c].key]][at[c].folder] # None
    <3>1. at'[c] = [at[c] EXCEPT !.pc = "install",
                                 !.meta = Header(at[c].key, disk[FileOf[at[c].key]][at[c].folder])]
      BY <1>2, <1>6, <2>2, BecomesIs DEF MetaOpen
    <3> QED BY <1>0, <1>6, <2>2, <3>1 DEF MetaOpen, Looked, Worker, fileVars, cacheVars
  <2> QED BY <2>1, <2>2
<1>7. CASE DataFind(c)
  <2>1. Located(at[c].meta.key) # {}
    BY <1>4, <1>7 DEF DataFind
  <2> QED BY <1>7, <2>1, BecomesIs DEF DataFind
<1>8. ~DataRead(c)
  <2>1. at[c].op \in {"turn", "store"} => NextStage[at[c].op] \notin late
    BY DEF NextStage
  <2>2. ~LoadFailed(c)
    BY <1>2, <2>1 DEF LoadFailed
  <2> QED BY <1>4, <2>2 DEF DataRead
<1>9. ~Install(c)
  <2>1. ASSUME NEW m, Becomes(c, [at[c] EXCEPT !.pc = "find", !.meta = m]) PROVE FALSE
    <3>1. at'[c] = [at[c] EXCEPT !.pc = "find", !.meta = m]
      BY <2>1, BecomesIs
    <3> QED BY <1>0, <3>1 DEF Worker
  <2> QED BY <1>2, <2>1 DEF Install
<1>10. SaveRename(c) => at'[c].pc = "index"
  <2>1. SaveRename(c) => at'[c] = [at[c] EXCEPT !.pc = "index", !.slot = "none", !.data = None]
    BY <1>2, RenameDoes
  <2> QED BY <1>0, <2>1 DEF Worker
<1>11. ~SaveCreate(c) /\ ~SaveWrite(c) /\ ~SaveIndex(c) /\ ~SaveFails(c)
  <2>1. ASSUME NEW i, Becomes(c, [at[c] EXCEPT !.pc = "write", !.slot = "tmp", !.folder = i]) PROVE FALSE
    <3>1. at'[c] = [at[c] EXCEPT !.pc = "write", !.slot = "tmp", !.folder = i]
      BY <2>1, BecomesIs
    <3> QED BY <1>0, <3>1 DEF Worker
  <2>2. ~GoTo(c, "rename")
    BY <1>2
  <2> QED BY <1>2, <2>1, <2>2 DEF SaveCreate, SaveWrite, SaveIndex, SaveFails
<1>12. c = Main => ~RunEnds /\ ~AddMessage /\ ~Clear
  <2>1. ASSUME Becomes(c, [at[c] EXCEPT !.pc = "store", !.op = "store"]) PROVE FALSE
    <3>1. at'[c] = [at[c] EXCEPT !.pc = "store", !.op = "store"]
      BY <2>1, BecomesIs
    <3> QED BY <1>0, <3>1 DEF Worker
  <2>2. ASSUME Becomes(c, [at[c] EXCEPT !.pc = "create", !.data = Empty]) PROVE FALSE
    <3>1. at'[c] = [at[c] EXCEPT !.pc = "create", !.data = Empty]
      BY <2>2, BecomesIs
    <3> QED BY <1>0, <3>1 DEF Worker
  <2>3. ASSUME Becomes(c, [at[c] EXCEPT !.pc = "create", !.data.msgs = Append(@, turns + 1)]) PROVE FALSE
    <3>1. at'[c] = [at[c] EXCEPT !.pc = "create", !.data.msgs = Append(@, turns + 1)]
      BY <2>3, BecomesIs
    <3> QED BY <1>0, <3>1 DEF Worker
  <2> QED BY <1>2, <2>1, <2>2, <2>3 DEF RunEnds, AddMessage, Clear
<1>13. c \in Loggers => ~Log(c) /\ ~AddInstruction(c)
  <2>1. at[Main].pc = "prompt" => at[Main].key \in Keys
    BY StageFields DEF Workers
  <2>2. ASSUME Becomes(c, [at[c] EXCEPT !.pc = "create", !.data.instrs = @ \cup {c}]) PROVE FALSE
    <3>1. at'[c] = [at[c] EXCEPT !.pc = "create", !.data.instrs = @ \cup {c}]
      BY <2>2, BecomesIs
    <3> QED BY <1>0, <3>1 DEF Worker
  <2> QED BY <1>2, <1>3, <2>1, <2>2 DEF Log, AddInstruction
<1>14. c \in Viewers => ~List(c) /\ ~GetMeta(c)
  <2>1. ASSUME NEW k, Becomes(c, [Resting EXCEPT !.pc = "getmeta", !.op = "meta", !.key = k]) PROVE FALSE
    <3>1. at'[c] = [Resting EXCEPT !.pc = "getmeta", !.op = "meta", !.key = k]
      BY <2>1, BecomesIs
    <3> QED BY <1>0, <3>1 DEF Resting
  <2>2. ~GoTo(c, "lookup")
    BY <1>2
  <2> QED BY <1>2, <2>1, <2>2 DEF List, GetMeta
<1>15. \A k \in Keys : /\ c = Main => ~Turn(k) /\ ~ClearCommand(k)
                       /\ ~Get(c, k)
  BY <1>3 DEF Turn, ClearCommand, Get
<1> QED BY <1>5, <1>6, <1>7, <1>8, <1>9, <1>10, <1>11, <1>12, <1>13, <1>14, <1>15 DEF Own

(* Only a save has a file open or has just put one in its place.           *)
LEMMA SlotSteps ==
  ASSUME StagesInv, NEW c \in Workers, Own(c), at'[c].slot # "none" \/ at'[c].pc = "index"
  PROVE  /\ SaveCreate(c) \/ SaveWrite(c) \/ SaveRename(c)
         /\ at'[c].meta = at[c].meta
         /\ SaveCreate(c) => at'[c].folder = SaveFolder(c)
         /\ ~SaveCreate(c) => at'[c].folder = at[c].folder /\ at[c].slot # "none"
         /\ at'[c].pc = "index" => SaveRename(c) /\ tmp[File(c)][at[c].folder] # None
<1>0. at[c] \in Worker /\ Placed(c, at[c])
  BY StageFields
<1>1. CASE SaveCreate(c)
  <2>1. at'[c] = [at[c] EXCEPT !.pc = "write", !.slot = "tmp", !.folder = SaveFolder(c)]
    BY <1>1, BecomesIs DEF SaveCreate
  <2>2. at'[c].pc = "write" /\ at'[c].meta = at[c].meta /\ at'[c].folder = SaveFolder(c)
    BY <1>0, <2>1 DEF Worker
  <2> QED BY <1>1, <2>2
<1>2. CASE SaveWrite(c)
  <2>1. at'[c] = [at[c] EXCEPT !.pc = "rename"]
    BY <1>2, BecomesIs DEF SaveWrite, GoTo
  <2>2. at'[c].pc = "rename" /\ at'[c].meta = at[c].meta /\ at'[c].folder = at[c].folder
    BY <1>0, <2>1 DEF Worker
  <2>3. at[c].slot # "none" /\ ~SaveCreate(c)
    BY <1>0, <1>2 DEF SaveWrite, SaveCreate, Placed
  <2> QED BY <1>2, <2>2, <2>3
<1>3. CASE SaveRename(c)
  <2>1. ~Done(c)
    BY BecomesIs DEF Done, Resting
  <2>2. /\ at'[c] = [at[c] EXCEPT !.pc = "index", !.slot = "none", !.data = None]
        /\ tmp[File(c)][at[c].folder] # None
    BY <1>3, <2>1, RenameDoes DEF Path, File
  <2>3. at'[c].meta = at[c].meta /\ at'[c].folder = at[c].folder
    BY <1>0, <2>2 DEF Worker
  <2>4. at[c].slot # "none" /\ ~SaveCreate(c)
    BY <1>0, <1>3 DEF SaveRename, SaveCreate, Placed
  <2> QED BY <1>3, <2>2, <2>3, <2>4
<1>4. CASE ~SaveCreate(c) /\ ~SaveWrite(c) /\ ~SaveRename(c)
  <2>1. PICK w : w.slot = "none" /\ Becomes(c, w)
    BY <1>4, OwnMoves DEF Moves
  <2>2. at'[c].slot = "none"
    BY <2>1, BecomesIs
  <2>3. at'[c].pc = "index"
    BY <2>2
  <2>4. \A i : /\ [at[c] EXCEPT !.pc = "open", !.folder = i].pc = "open"
                /\ [at[c] EXCEPT !.pc = "read", !.folder = i].pc = "read"
    BY <1>0 DEF Worker
  <2> QED BY <1>4, <2>3, <2>4, StageAfter DEF Looked
<1> QED BY <1>1, <1>2, <1>3, <1>4

-----------------------------------------------------------------------------
(* A save writes to the folder of the metadata's day.                      *)

LEMMA HomedStep ==
  ASSUME StagesInv, Homed, [Next]_vars
  PROVE  Homed'
<1>1. ASSUME NEW f \in Files, NEW d \in Days
      PROVE  /\ disk'[f][d] # None => disk'[f][d].created = d
             /\ tmp'[f][d] # None => tmp'[f][d].created = d
  <2>0. d \in Folders
    BY Bounds
  <2>1. ASSUME NEW c \in Workers, NEW dat, NEW whole, Day(c) = d
        PROVE  Written(c, dat, whole).created = d
    BY <2>1, WrittenFields DEF Day
  <2>2. tmp'[f][d] # None => tmp'[f][d].created = d
    <3>1. CASE tmp'[f][d] = tmp[f][d]
      BY <3>1 DEF Homed
    <3>2. ASSUME tmp'[f][d] # tmp[f][d], tmp'[f][d] # None PROVE tmp'[f][d].created = d
      BY <2>0, <2>1, <3>2, TmpChanges
    <3> QED BY <3>1, <3>2
  <2>3. disk'[f][d] # None => disk'[f][d].created = d
    <3>1. CASE disk'[f][d] = disk[f][d]
      BY <3>1 DEF Homed
    <3>2. ASSUME disk'[f][d] # disk[f][d], disk'[f][d] # None PROVE disk'[f][d].created = d
      <4>1. PICK c \in Workers :
              /\ Day(c) = d
              /\ \/ tmp[f][d] # None /\ disk'[f][d] = tmp[f][d]
                 \/ \E whole \in BOOLEAN : disk'[f][d] = Written(c, at[c].data, whole)
        BY <2>0, <3>2, DiskChanges
      <4> QED BY <2>1, <4>1 DEF Homed
    <3> QED BY <3>1, <3>2
  <2> QED BY <2>2, <2>3
<1>2. ASSUME NEW f \in Files, disk'[f][0] # None
      PROVE  disk'[f][0].key = None /\ disk'[f][0].created \in {0, 1}
  <2>1. disk'[f][0] = disk[f][0]
    <3>1. ASSUME disk'[f][0] # disk[f][0] PROVE FALSE
      <4>1. \E c \in Workers : at[c].pc \in Saving /\ Day(c) = 0
        BY <1>2, <3>1, DiskChanges, Bounds
      <4> QED BY <4>1, Saver, Bounds
    <3> QED BY <3>1
  <2> QED BY <1>2, <2>1 DEF Homed
<1>3. ASSUME NEW c \in Workers, at'[c].slot # "none" \/ at'[c].pc = "index"
      PROVE  at'[c].folder = at'[c].meta.created
  <2>1. CASE Renamed(at[c], at'[c])
    <3>1. /\ at'[c].meta = at[c].meta /\ at'[c].folder = at[c].folder /\ at'[c].pc = at[c].pc
          /\ at'[c].slot = "none" <=> at[c].slot = "none"
      BY <2>1, StageFields, RenamedFields
    <3> QED BY <1>3, <3>1 DEF Homed
  <2>2. CASE Restart
    BY <1>3, <2>2 DEF Restart, Resting
  <2>3. CASE Own(c)
    BY <1>3, <2>3, SlotSteps DEF Homed, SaveFolder
  <2> QED BY <2>1, <2>2, <2>3, OwnSteps
<1> QED BY <1>1, <1>2, <1>3 DEF Homed

LEMMA EnteredNamed ==
  ASSUME StagesInv, Named, NEW c \in Workers, Install(c)
  PROVE  Names(Entered(c), FileOf[at[c].key])
<1>1. at[c].meta # None /\ at[c].key \in Keys
  BY StageFields DEF Install, Placed
<1> QED BY <1>1 DEF Named, Entered

(* A goroutine that saves is one of those that know.                       *)
LEMMA SaverKnows ==
  ASSUME StagesInv, NEW c \in Workers, at[c].pc \in Saving
  PROVE  Day(c) \in DaysOf(File(c))
<1>1. c \in {Main} \cup Loggers /\ at[c].meta # None /\ Day(c) \in Days
  BY Saver, SessionAssumption
<1>2. Knows(c, File(c), Day(c))
  BY <1>1 DEF Knows, File, Day, Saving
<1> QED BY <1>1, <1>2 DEF DaysOf

(* A day is new to a session only when it is entered into the cache.       *)
LEMMA DaysStep ==
  ASSUME StagesInv, Named, Homed, [Next]_vars, NEW f \in Files, NEW d \in Days,
         d \in DaysOf(f)', d \notin DaysOf(f)
  PROVE  \E c \in Workers : Install(c) /\ FileOf[at[c].key] = f /\ d = Entered(c).created
<1> DEFINE Goal == \E c \in Workers : Install(c) /\ FileOf[at[c].key] = f /\ d = Entered(c).created
<1>0. d \in Folders /\ d # 0
  BY Bounds
<1>1. ASSUME NEW g, NEW e PROVE Knows(g, f, e)' <=>
         /\ at'[g].meta # None /\ at'[g].pc # "install"
         /\ FileOf[at'[g].meta.key] = f /\ at'[g].meta.created = e
  BY DEF Knows
<1>2. disk'[f][d] = None
  <2>1. disk[f][d] = None
    BY DEF DaysOf
  <2>2. ASSUME disk'[f][d] # None PROVE FALSE
    <3>1. PICK c \in Workers : at[c].pc \in Saving /\ File(c) = f /\ Day(c) = d
      BY <1>0, <2>1, <2>2, DiskChanges
    <3> QED BY <3>1, SaverKnows
  <2> QED BY <2>2
<1>3. ASSUME NEW k \in Keys, FileOf[k] = f, dateIndex'[k] = d PROVE FALSE
  <2>1. dateIndex[k] # d
    BY <1>3 DEF DaysOf
  <2>2. disk[f][d] = None
    BY DEF DaysOf
  <2>3. PICK c \in Workers : SaveIndex(c) /\ at[c].meta.key = k /\ d = at[c].folder
    BY <1>0, <1>3, <2>1, <2>2, IndexChanges
  <2>4. at[c].pc \in Saving /\ File(c) = f /\ Day(c) = d
    BY <1>3, <2>3 DEF SaveIndex, Saving, File, Day, Homed
  <2> QED BY <2>4, SaverKnows
<1>4. ASSUME NEW k \in Keys, FileOf[k] = f, metaCache'[k] # None, metaCache'[k].created = d
      PROVE  Goal
  <2>1. metaCache'[k] # metaCache[k]
    BY <1>4 DEF DaysOf
  <2>2. ASSUME NEW c \in Workers, SaveIndex(c), at[c].meta.key = k, metaCache'[k] = at[c].meta
        PROVE  FALSE
    <3>1. at[c].pc \in Saving /\ File(c) = f /\ Day(c) = d
      BY <1>4, <2>2 DEF SaveIndex, Saving, File, Day
    <3> QED BY <3>1, SaverKnows
  <2> QED BY <1>4, <2>1, <2>2, CacheChanges
<1>5. ASSUME disk'[f][0] # None, disk'[f][0].created = d PROVE FALSE
  <2>1. disk'[f][0] # disk[f][0]
    BY <1>5 DEF DaysOf
  <2>2. \E c \in Workers : at[c].pc \in Saving /\ Day(c) = 0
    BY <1>5, <2>1, DiskChanges, Bounds
  <2> QED BY <2>2, Saver, Bounds
<1>6. ASSUME NEW c \in {Main} \cup Loggers, Knows(c, f, d)' PROVE Goal
  <2>0. c \in Workers
    BY DEF Workers
  <2>1. ~Knows(c, f, d)
    BY DEF DaysOf
  <2>2. CASE Renamed(at[c], at'[c])
    <3>1. at'[c].meta = at[c].meta /\ at'[c].pc = at[c].pc
      BY <2>0, <2>2, StageFields, RenamedFields
    <3> QED BY <1>1, <1>6, <2>1, <3>1 DEF Knows
  <2>3. CASE Restart
    BY <1>1, <1>6, <2>0, <2>3 DEF Restart, Resting
  <2>4. CASE Own(c)
    <3>1. ~Keeps(at[c], at'[c])
      BY <1>1, <1>6, <2>1 DEF Knows, Keeps
    <3>2. ~Looked(c)
      BY <1>1, <1>6 DEF Looked
    <3>3. CASE /\ at'[c].key \in Keys /\ at'[c].meta = metaCache[at'[c].key]
               /\ metaCache' = metaCache
      <4>1. metaCache[at'[c].key] \in Meta
        BY <1>1, <1>6, <3>3 DEF StagesInv, Base, CachesOK
      <4>2. FileOf[at'[c].key] = f
        BY <1>1, <1>6, <3>3, <4>1, SessionAssumption DEF Named, Names, Meta
      <4> QED BY <1>1, <1>4, <1>6, <3>3, <4>2
    <3>4. CASE Install(c) /\ at'[c].meta = Entered(c) /\ at'[c].key = at[c].key
      <4>1. Entered(c) \in Meta /\ at[c].key \in Keys /\ Names(Entered(c), FileOf[at[c].key])
        BY <2>0, <3>4, InstallEnters, EnteredNamed
      <4> QED BY <1>1, <1>6, <2>0, <3>4, <4>1, SessionAssumption DEF Names, Meta
    <3> QED BY <1>1, <1>6, <2>0, <2>4, <3>1, <3>2, <3>3, <3>4, MetaSteps
  <2> QED BY <2>0, <2>2, <2>3, <2>4, OwnSteps
<1>7. \/ disk'[f][d] # None
      \/ \E k \in Keys : /\ FileOf[k] = f
                         /\ \/ dateIndex'[k] = d
                            \/ metaCache'[k] # None /\ metaCache'[k].created = d
      \/ disk'[f][0] # None /\ disk'[f][0].created = d
      \/ \E c \in {Main} \cup Loggers : Knows(c, f, d)'
  BY DEF DaysOf
<1> QED BY <1>2, <1>3, <1>4, <1>5, <1>6, <1>7

-----------------------------------------------------------------------------
(* The histories, and the one day of a session that did not go astray.     *)

(* The histories only grow, each by one kind of step.                      *)
LEMMA HistorySteps ==
  ASSUME [Next]_vars
  PROVE  /\ astray \subseteq astray' /\ overlapped \subseteq overlapped'
         /\ deleted \subseteq deleted' /\ respelled \subseteq respelled'
         /\ (\A c \in Workers : ~SaveRename(c)) /\ (\A k \in Keys : ~Delete(k)) =>
              last' = last /\ stored' = stored
<1> USE DEF histVars, callVars
<1>2. CASE \E c \in Workers : Load(c)
  BY <1>2 DEF Load, MetaFind, MetaOpen, Install, DataFind, DataRead
<1>3. CASE \E c \in Workers : Save(c)
  BY <1>3 DEF Save, SaveCreate, SaveWrite, SaveRename, SaveIndex, SaveFails
<1>4. CASE \E k \in Keys : Turn(k) \/ ClearCommand(k)
  BY <1>4 DEF Turn, ClearCommand, Begin
<1>5. CASE RunEnds \/ AddMessage \/ Clear
  BY <1>5 DEF RunEnds, AddMessage, Clear
<1>6. CASE \E l \in Loggers : Log(l) \/ AddInstruction(l)
  BY <1>6 DEF Log, AddInstruction, Begin
<1>7. CASE \E v \in Viewers : List(v) \/ GetMeta(v)
  BY <1>7 DEF List, GetMeta
<1>8. CASE \E v \in Viewers, k \in Keys : Get(v, k)
  BY <1>8 DEF Get, Begin
<1>9. CASE \E k \in Keys : Delete(k)
  BY <1>9 DEF Delete
<1>10. CASE NextDay \/ Restart \/ UNCHANGED vars
  BY <1>10 DEF NextDay, Restart, vars
<1> QED BY <1>2, <1>3, <1>4, <1>5, <1>6, <1>7, <1>8, <1>9, <1>10 DEF Next

LEMMA AstraySteps == [Next]_vars => astray' = astray \/ \E c \in Workers : Install(c)
BY DEF Next, Load, Save, MetaFind, MetaOpen, DataFind, DataRead, SaveCreate, SaveWrite, SaveRename,
  SaveIndex, SaveFails, Turn, ClearCommand, Begin, RunEnds, AddMessage, Clear, Log, AddInstruction,
  List, GetMeta, Get, Delete, NextDay, Restart, vars, histVars, callVars

LEMMA OneDayStep ==
  ASSUME StagesInv, Named, Homed, OneDay, [Next]_vars
  PROVE  OneDay'
<1> SUFFICES ASSUME NEW f \in Files \ astray', NEW d \in DaysOf(f)', NEW e \in DaysOf(f)'
             PROVE  d = e
  BY DEF OneDay
<1>0. f \in Files \ astray /\ d \in Days /\ e \in Days
  BY HistorySteps DEF DaysOf
<1>1. ASSUME NEW c \in Workers, Install(c), FileOf[at[c].key] = f
      PROVE  DaysOf(f) \subseteq {Entered(c).created}
  BY <1>0, <1>1, InstallEnters
<1>2. ASSUME NEW x \in Workers, Install(x), NEW y \in Workers, Install(y) PROVE x = y
  <2>1. at'[x].pc # "install" /\ at[y].pc = "install"
    BY <1>2, InstallEnters DEF Install
  <2>2. x # y => at'[x] = at[x]
    <3>1. \E w : Becomes(y, w)
      BY <1>2 DEF Install, Done
    <3> QED BY <3>1, BecomesIs
  <2> QED BY <1>2, <2>1, <2>2 DEF Install
<1>3. CASE d \in DaysOf(f) /\ e \in DaysOf(f)
  BY <1>0, <1>3 DEF OneDay
<1>4. ASSUME NEW i \in DaysOf(f)', i \notin DaysOf(f), NEW j \in DaysOf(f)' PROVE i = j
  <2>0. i \in Days /\ j \in Days
    BY DEF DaysOf
  <2>1. PICK c \in Workers : Install(c) /\ FileOf[at[c].key] = f /\ i = Entered(c).created
    BY <1>0, <1>4, <2>0, DaysStep
  <2>2. CASE j \in DaysOf(f)
    BY <1>1, <2>1, <2>2
  <2>3. CASE j \notin DaysOf(f)
    <3>1. PICK b \in Workers : Install(b) /\ FileOf[at[b].key] = f /\ j = Entered(b).created
      BY <1>0, <1>4, <2>0, <2>3, DaysStep
    <3> QED BY <1>2, <2>1, <3>1
  <2> QED BY <2>2, <2>3
<1> QED BY <1>3, <1>4

LEMMA PlacesStep == StagesInv /\ PlacesInv /\ [Next]_vars => PlacesInv'
BY NamedStep, HomedStep, OneDayStep DEF PlacesInv

-----------------------------------------------------------------------------
(* There, after the step: the file an index entry names stays.             *)
ThereAfter(f, d) == disk'[f][d] # None \/ f \in deleted'

LEMMA ThereStep ==
  ASSUME StagesInv, Homed, [Next]_vars, NEW f \in Files, NEW d \in Folders, There(f, d)
  PROVE  ThereAfter(f, d)
<1>1. CASE disk'[f][d] = disk[f][d]
  BY <1>1, HistorySteps DEF There, ThereAfter
<1>2. CASE disk'[f][d] # disk[f][d] /\ disk'[f][d] = None
  <2>1. CASE \E k \in Keys : Delete(k) /\ FileOf[k] = f
    BY <2>1 DEF Delete, ThereAfter
  <2>2. ASSUME NEW c \in Workers, SaveWrite(c), NEW whole \in BOOLEAN
        PROVE  Written(c, at[c].data, whole) # None
    <3>1. at[c].data \in Data /\ at[c].pc = "write"
      BY <2>2, StageFields DEF SaveWrite, Placed, Worker
    <3>2. Written(c, at[c].data, whole) \in Content
      BY <3>1, WrittenType DEF StagesInv
    <3> QED BY <3>2, SessionAssumption
  <2> QED BY <1>2, <2>1, <2>2, DiskChanges
<1>3. CASE disk'[f][d] # None
  BY <1>3 DEF ThereAfter
<1> QED BY <1>1, <1>2, <1>3

LEMMA IndexedStep ==
  ASSUME StagesInv, Homed, Indexed, [Next]_vars
  PROVE  Indexed'
<1>1. ASSUME NEW k \in Keys, dateIndex'[k] # 0 PROVE ThereAfter(FileOf[k], dateIndex'[k])
  <2>0. FileOf[k] \in Files /\ dateIndex[k] \in Folders
    BY SessionAssumption DEF StagesInv, Base, CachesOK
  <2>1. CASE dateIndex'[k] = dateIndex[k]
    BY <1>1, <2>0, <2>1, ThereStep DEF Indexed
  <2>2. CASE disk[FileOf[k]][dateIndex'[k]] # None /\ disk' = disk
    BY <2>2 DEF ThereAfter
  <2>3. ASSUME NEW c \in Workers, SaveIndex(c), at[c].meta.key = k, dateIndex'[k] = at[c].folder
        PROVE  ThereAfter(FileOf[k], dateIndex'[k])
    <3>1. There(FileOf[k], at[c].folder) /\ at[c].folder \in Folders
      BY <2>3, StageFields DEF Indexed, SaveIndex, Worker
    <3> QED BY <2>0, <2>3, <3>1, ThereStep
  <2> QED BY <1>1, <2>1, <2>2, <2>3, IndexChanges
<1>2. ASSUME NEW c \in Workers, at'[c].pc = "index"
      PROVE  ThereAfter(FileOf[at'[c].meta.key], at'[c].folder)
  <2>1. CASE Renamed(at[c], at'[c])
    <3>1. /\ at'[c].meta = at[c].meta /\ at'[c].folder = at[c].folder /\ at'[c].pc = at[c].pc
      BY <2>1, StageFields, RenamedFields
    <3>2. There(File(c), at[c].folder) /\ File(c) \in Files /\ at[c].folder \in Folders
      BY <1>2, <3>1, StageFields, Saver DEF Indexed, File, Worker, Saving
    <3> QED BY <3>1, <3>2, ThereStep DEF File
  <2>2. CASE Restart
    BY <1>2, <2>2 DEF Restart, Resting
  <2>3. CASE Own(c)
    <3>1. /\ SaveRename(c) /\ at'[c].meta = at[c].meta /\ at'[c].folder = at[c].folder
          /\ tmp[File(c)][at[c].folder] # None
      <4>1. /\ SaveRename(c) /\ at'[c].meta = at[c].meta /\ tmp[File(c)][at[c].folder] # None
            /\ ~SaveCreate(c) => at'[c].folder = at[c].folder
        BY <1>2, <2>3, SlotSteps
      <4> QED BY <4>1 DEF SaveRename, SaveCreate
    <3>2. /\ Path(c)[1] = File(c) /\ Path(c)[2] = at[c].folder
          /\ File(c) \in Files /\ at[c].folder \in Folders
      BY <3>1, RenameDoes DEF Path, File
    <3>3. disk' = [disk EXCEPT ![File(c)][at[c].folder] = tmp[File(c)][at[c].folder]]
      BY <3>1, <3>2, RenameDoes
    <3>4. disk'[File(c)][at[c].folder] # None
      BY <3>1, <3>2, <3>3 DEF StagesInv, Base, FilesOK
    <3> QED BY <3>1, <3>4 DEF ThereAfter, File
  <2> QED BY <2>1, <2>2, <2>3, OwnSteps
<1> QED BY <1>1, <1>2 DEF Indexed, There, ThereAfter

-----------------------------------------------------------------------------
(* The file a search finds is the one saved last.                          *)

(* A dated file is one of the days its session is known by.                *)
LEMMA DatedDays ==
  ASSUME NEW f \in Files
  PROVE  Dated(f) \subseteq DaysOf(f)
BY DEF Dated, DaysOf

(* What a save or a Delete leaves of a file.                               *)
LEMMA RenameLeaves ==
  ASSUME StagesInv, Homed, NEW c \in Workers, SaveRename(c)
  PROVE  /\ File(c) \in Files /\ Day(c) \in Days /\ Open(c, File(c), Day(c))
         /\ \/ /\ tmp[File(c)][Day(c)] = None
               /\ disk' = disk /\ last' = last /\ stored' = stored
            \/ /\ tmp[File(c)][Day(c)] # None
               /\ disk' = [disk EXCEPT ![File(c)][Day(c)] = tmp[File(c)][Day(c)]]
               /\ last' = [last EXCEPT ![File(c)] = tmp[File(c)][Day(c)]]
               /\ stored' = [stored EXCEPT ![File(c)] =
                               IF at[c].op = "clear" THEN <<>>
                               ELSE IF at[c].op = "store" THEN Append(@, turns)
                               ELSE @]
<1>1. File(c) \in Files /\ Day(c) \in Days
  BY Saver DEF SaveRename, Saving
<1>2. Open(c, Path(c)[1], Path(c)[2])
  BY PathOpen DEF SaveRename
<1>3. Path(c)[1] = File(c) /\ Path(c)[2] = Day(c)
  BY <1>2 DEF Path, File, Day, Open, Homed
<1> QED BY <1>1, <1>2, <1>3 DEF SaveRename, fileVars

LEMMA DeleteLeaves ==
  ASSUME StagesInv, OneDay, NEW f \in Files \ astray, NEW k \in Keys, Delete(k), FileOf[k] = f
  PROVE  /\ \A d \in Days : disk'[f][d] = None
         /\ \A d \in Folders : disk'[f][d] = None \/ (f \in deleted' /\ disk'[f][0] # None)
<1>0. /\ disk \in [Files -> [Folders -> Content \cup {None}]] /\ dateIndex[k] \in Folders
      /\ f \in deleted'
  BY DEF StagesInv, Base, FilesOK, CachesOK, Delete
<1>1. \A d, e \in Days : disk[f][d] # None /\ disk[f][e] # None => d = e
  BY DatedDays DEF OneDay, Dated
<1>2. CASE Victim(k) = {}
  <2>1. Found(f) = {} /\ disk' = disk
    BY <1>2 DEF Victim, Delete
  <2> QED BY <2>1, Bounds DEF Found, Dated
<1>3. CASE Victim(k) # {}
  <2>1. /\ Min(Victim(k)) \in Folders
        /\ disk[f][Min(Victim(k))] # None
        /\ Min(Victim(k)) = 0 => \A d \in Days : disk[f][d] = None
    <3>1. CASE dateIndex[k] # 0 /\ disk[FileOf[k]][dateIndex[k]] # None
      <4>1. Victim(k) = {dateIndex[k]}
        BY <3>1 DEF Victim
      <4>2. Min(Victim(k)) = dateIndex[k]
        BY <1>0, <4>1, LeastOf, Bounds
      <4> QED BY <1>0, <3>1, <4>2
    <3>2. CASE ~(dateIndex[k] # 0 /\ disk[FileOf[k]][dateIndex[k]] # None)
      <4>1. Victim(k) = Found(f)
        BY <3>2 DEF Victim
      <4>2. Min(Victim(k)) \in Found(f)
        BY <1>3, <4>1, FoundPlaces
      <4> QED BY <4>2, FoundPlaces, Bounds DEF Found, Dated
    <3> QED BY <3>1, <3>2
  <2>2. disk' = [disk EXCEPT ![f][Min(Victim(k))] = None]
    BY <1>3 DEF Delete
  <2>3. \A d \in Folders : disk'[f][d] = IF d = Min(Victim(k)) THEN None ELSE disk[f][d]
    BY <1>0, <2>1, <2>2
  <2>4. ASSUME NEW d \in Days PROVE disk'[f][d] = None
    BY <1>1, <2>1, <2>3, Bounds
  <2> QED BY <1>0, <2>3, <2>4, Bounds
<1> QED BY <1>2, <1>3

(* A file that no two saves had open changes by a rename or a Delete.      *)
LEMMA FilesStay ==
  ASSUME StagesInv, OneWriter, Homed, [Next]_vars, NEW f \in Files \ overlapped,
         \A c \in Workers : ~(SaveRename(c) /\ File(c) = f /\ tmp[f][Day(c)] # None),
         \A k \in Keys : ~(Delete(k) /\ FileOf[k] = f)
  PROVE  /\ \A d \in Folders : disk'[f][d] = disk[f][d]
         /\ last'[f] = last[f] /\ stored'[f] = stored[f]
<1>1. ASSUME NEW d \in Folders, disk'[f][d] # disk[f][d] PROVE FALSE
  <2>1. PICK c \in Workers : /\ at[c].pc \in Saving /\ File(c) = f /\ Day(c) = d
                             /\ SaveWrite(c) /\ Open(c, f, d) /\ at[c].slot = "fin"
    BY <1>1, DiskChanges
  <2> QED BY <2>1 DEF OneWriter
<1>2. last'[f] = last[f] /\ stored'[f] = stored[f]
  <2>1. ASSUME NEW c \in Workers, SaveRename(c) PROVE last'[f] = last[f] /\ stored'[f] = stored[f]
    <3>1. CASE File(c) = f
      BY <2>1, <3>1, RenameLeaves
    <3>2. CASE File(c) # f
      BY <2>1, <3>2, RenameLeaves DEF StagesInv, Base, FilesOK, CountersOK
    <3> QED BY <3>1, <3>2
  <2>2. ASSUME NEW k \in Keys, Delete(k) PROVE last'[f] = last[f] /\ stored'[f] = stored[f]
    BY <2>2 DEF Delete, StagesInv, Base, FilesOK, CountersOK
  <2> QED BY <2>1, <2>2, HistorySteps
<1> QED BY <1>1, <1>2

LEMMA LastFoundStep ==
  ASSUME StagesInv, OneWriter, PlacesInv, LastFound, [Next]_vars
  PROVE  LastFound'
<1> SUFFICES ASSUME NEW f \in Files \ (astray' \cup overlapped')
             PROVE  LastAt(f)'
  BY DEF LastFound
<1>0. f \in Files \ (astray \cup overlapped)
  BY HistorySteps
<1>1. ASSUME NEW c \in Workers, SaveRename(c), File(c) = f, tmp[f][Day(c)] # None
      PROVE  last'[f] # None /\ \E d \in Days : disk'[f][d] = last'[f]
  <2>1. /\ Day(c) \in Days /\ tmp[f][Day(c)] # None
        /\ disk' = [disk EXCEPT ![f][Day(c)] = tmp[f][Day(c)]]
        /\ last' = [last EXCEPT ![f] = tmp[f][Day(c)]]
    BY <1>1, RenameLeaves DEF PlacesInv
  <2>2. Day(c) \in Folders
    BY <2>1, Bounds
  <2>3. last'[f] = tmp[f][Day(c)] /\ disk'[f][Day(c)] = tmp[f][Day(c)]
    BY <2>1, <2>2 DEF StagesInv, Base, FilesOK
  <2> QED BY <2>1, <2>3
<1>2. ASSUME NEW k \in Keys, Delete(k), FileOf[k] = f
      PROVE  /\ last'[f] = None
             /\ \A d \in Folders : disk'[f][d] = None \/ (f \in deleted' /\ disk'[f][0] # None)
  <2>1. last'[f] = None
    BY <1>2 DEF Delete, StagesInv, Base, FilesOK
  <2> QED BY <1>0, <1>2, <2>1, DeleteLeaves DEF PlacesInv
<1>3. CASE /\ \A c \in Workers : ~(SaveRename(c) /\ File(c) = f /\ tmp[f][Day(c)] # None)
           /\ \A k \in Keys : ~(Delete(k) /\ FileOf[k] = f)
  <2>1. /\ \A d \in Folders : disk'[f][d] = disk[f][d]
        /\ last'[f] = last[f]
    BY <1>0, <1>3, FilesStay DEF PlacesInv
  <2>2. \A d \in Days : disk'[f][d] = disk[f][d]
    BY <2>1, Bounds
  <2>3. disk'[f][0] = disk[f][0]
    BY <2>1, Bounds
  <2>4. deleted \subseteq deleted'
    BY HistorySteps
  <2> QED BY <1>0, <2>1, <2>2, <2>3, <2>4 DEF LastFound, LastAt, Hit, LeftOver
<1>4. ASSUME NEW d \in Days PROVE d \in Folders /\ d # 0
  BY Bounds
<1> QED BY <1>1, <1>2, <1>3, <1>4 DEF LastAt, Hit, LeftOver

-----------------------------------------------------------------------------
LEMMA ReadsLast ==
  ASSUME StagesInv, PlacesInv, Indexed, LastFound, NEW f \in Files \ (astray \cup overlapped),
         ~LeftOver(f)
  PROVE  /\ Seen(f, Found(f)) = last[f]
         /\ \A k \in Keys : FileOf[k] = f => Seen(f, Located(k)) = last[f]
<1>0. \A d, e \in Days : disk[f][d] # None /\ disk[f][e] # None => d = e
  BY DatedDays DEF PlacesInv, OneDay, Dated
<1>1. Seen(f, Found(f)) = last[f]
  <2>1. CASE last[f] = None
    <3>1. \A d \in Folders : disk[f][d] = None
      BY <2>1 DEF LastFound, LastAt
    <3>2. Found(f) = {}
      BY <3>1, Bounds DEF Found, Dated
    <3> QED BY <2>1, <3>2 DEF Seen
  <2>2. CASE last[f] # None
    <3>1. PICK d \in Folders : Hit(f, d) /\ disk[f][d] = last[f]
      BY <2>2 DEF LastFound, LastAt
    <3>2. Found(f) # {}
      BY <3>1, Bounds DEF Found, Dated, Hit
    <3>3. Min(Found(f)) \in Found(f)
      BY <3>2, FoundPlaces
    <3>4. Min(Found(f)) = d
      BY <1>0, <3>1, <3>3, Bounds DEF Found, Dated, Hit
    <3> QED BY <3>1, <3>2, <3>4 DEF Seen
  <2> QED BY <2>1, <2>2
<1>2. ASSUME NEW k \in Keys, FileOf[k] = f, dateIndex[k] # 0
      PROVE  Seen(f, Located(k)) = last[f]
  <2> DEFINE i == dateIndex[k]
  <2>1. i \in Days /\ i \in Folders /\ There(f, i)
    BY <1>2, Bounds DEF StagesInv, Base, CachesOK, Indexed
  <2>2. \A d \in Days : disk[f][d] # None => d = i
    BY <1>2, <2>1 DEF PlacesInv, OneDay, DaysOf
  <2>3. Seen(f, Located(k)) = disk[f][i]
    <3>1. Located(k) = {i}
      BY <1>2 DEF Located
    <3>2. Min({i}) = i
      BY <2>1, LeastOf, Bounds
    <3> QED BY <3>1, <3>2 DEF Seen
  <2>4. CASE last[f] = None
    BY <2>1, <2>3, <2>4 DEF LastFound, LastAt
  <2>5. CASE last[f] # None
    <3>1. PICK d \in Folders : Hit(f, d) /\ disk[f][d] = last[f]
      BY <2>5 DEF LastFound, LastAt
    <3>2. d # 0
      BY <2>1, <3>1 DEF Hit, There, LeftOver
    <3> QED BY <2>2, <2>3, <3>1, <3>2, Bounds DEF Hit
  <2> QED BY <2>4, <2>5
<1> QED BY <1>1, <1>2 DEF Located

-----------------------------------------------------------------------------
(* Sessions that were not deleted or cleared, and whose old file, if any,  *)
(* tells its day: everything known of one agrees, so none goes astray.     *)

LEMMA StemsNames ==
  /\ Stems \subseteq Keys /\ None \notin Keys
  /\ \A k \in Keys : FileOf[k] \in Files
  /\ \A k, l \in Stems : FileOf[k] = FileOf[l] => k = l
BY SessionAssumption

(* A session that has not been deleted or cleared keeps what it has.       *)
LEMMA PlainStays ==
  ASSUME StagesInv, Homed, [Next]_vars, NEW f \in Files, Plain(f)'
  PROVE  /\ Plain(f)
         /\ \A d \in Folders : disk[f][d] # None => disk'[f][d] # None
         /\ \A k \in Keys : FileOf[k] = f =>
              /\ ~Delete(k) /\ ~ClearCommand(k)
              /\ metaCache[k] # None /\ ~Restart => metaCache'[k] # None
<1>0. f \notin deleted' \cup respelled' /\ ~(disk'[f][0] # None /\ disk'[f][0].created = 0)
  BY DEF Plain, Undated
<1>1. ASSUME NEW k \in Keys, FileOf[k] = f PROVE ~Delete(k) /\ ~ClearCommand(k)
  BY <1>0, <1>1 DEF Delete, ClearCommand
<1>2. ASSUME NEW d \in Folders, disk[f][d] # None PROVE disk'[f][d] # None
  BY <1>0, <1>2, ThereStep DEF There, ThereAfter
<1>3. ASSUME NEW k \in Keys, FileOf[k] = f, metaCache[k] # None, ~Restart PROVE metaCache'[k] # None
  <2>1. CASE metaCache'[k] = metaCache[k]
    BY <1>3, <2>1
  <2>2. CASE \E c \in Workers : Install(c) /\ at[c].key = k /\ metaCache'[k] = Entered(c)
    BY <2>2, InstallEnters, SessionAssumption
  <2>3. CASE \E c \in Workers : SaveIndex(c) /\ at[c].meta.key = k /\ metaCache'[k] = at[c].meta
    BY <2>3, Saver, SessionAssumption DEF SaveIndex, Saving
  <2> QED BY <1>1, <1>3, <2>1, <2>2, <2>3, CacheChanges
<1>4. ~Undated(f)
  <2>1. CASE disk'[f][0] = disk[f][0]
    BY <1>0, <2>1 DEF Undated
  <2>2. ASSUME disk'[f][0] # disk[f][0] PROVE FALSE
    <3>1. \E c \in Workers : at[c].pc \in Saving /\ Day(c) = 0
      BY <1>1, <2>2, DiskChanges, Bounds
    <3> QED BY <3>1, Saver, Bounds
  <2> QED BY <2>1, <2>2
<1> QED BY <1>0, <1>1, <1>2, <1>3, <1>4, HistorySteps DEF Plain

(* A goroutine at work on a session knows it by its file name.             *)
LEMMA PlainWorker ==
  ASSUME StagesInv, Named, NEW f \in Files, PlainAt(f), NEW c \in Workers, at[c].pc # "idle",
         FileOf[at[c].key] = f \/ (at[c].meta # None /\ FileOf[at[c].meta.key] = f)
  PROVE  /\ FileOf[at[c].key] = f /\ at[c].key \in Stems /\ at[c].key \in Keys
         /\ at[c].meta # None => /\ at[c].meta.key \in Stems /\ at[c].meta.key = at[c].key
                                 /\ at[c].meta.created \in Days
         /\ PlainMeta(at[c], f)
<1>1. at[c].key \in Keys /\ at[c].key # None
  BY StageFields, StemsNames
<1>2. at[c].meta # None => /\ at[c].meta.key \in Keys /\ at[c].meta.created \in Days
                           /\ FileOf[at[c].meta.key] = FileOf[at[c].key]
  BY StageFields, StemsNames DEF Named, Names
<1>3. FileOf[at[c].key] = f
  BY <1>2
<1> QED BY <1>1, <1>2, <1>3, StemsNames DEF PlainAt, PlainKeys

(* While its metadata is not cached, nobody knows of it but by the index   *)
(* and the folders, ...                                                    *)
LEMMA Uncached ==
  ASSUME StagesInv, Named, NEW f \in Files, PlainAt(f), NEW k \in Stems, FileOf[k] = f,
         metaCache[k] = None, NEW d \in DaysOf(f)
  PROVE  disk[f][d] # None \/ dateIndex[k] = d \/ (disk[f][0] # None /\ disk[f][0].created = d)
<1>1. ASSUME NEW c \in {Main} \cup Loggers, Knows(c, f, d) PROVE FALSE
  <2>1. c \in Workers /\ at[c].pc # "idle" /\ at[c].meta # None /\ at[c].pc # "install"
    <3>1. c \in Workers
      BY DEF Workers
    <3>2. at[c].pc = "idle" => at[c].meta = None
      BY <3>1, StageFields DEF Placed, Resting
    <3> QED BY <1>1, <3>1, <3>2 DEF Knows
  <2>2. FileOf[at[c].key] = f /\ at[c].key \in Stems /\ PlainMeta(at[c], f)
    BY <1>1, <2>1, PlainWorker DEF Knows
  <2>3. at[c].key = k
    BY <2>2, StemsNames
  <2> QED BY <2>1, <2>2, <2>3 DEF PlainMeta
<1>2. ASSUME NEW l \in Keys, FileOf[l] = f, metaCache[l] # None PROVE FALSE
  BY <1>2, StemsNames DEF PlainAt, PlainKeys
<1>3. ASSUME NEW l \in Keys, FileOf[l] = f, dateIndex[l] = d PROVE l = k
  <2>1. d # 0
    BY Bounds DEF DaysOf
  <2> QED BY <1>3, <2>1, StemsNames DEF PlainAt, PlainKeys
<1> QED BY <1>1, <1>2, <1>3 DEF DaysOf

(* ... and no day is added.                                                *)
LEMMA UncachedStep ==
  ASSUME StagesInv, Named, Homed, [Next]_vars, NEW f \in Files, PlainAt(f), NEW k \in Stems,
         FileOf[k] = f, metaCache'[k] = None
  PROVE  DaysOf(f)' \subseteq DaysOf(f)
<1> SUFFICES ASSUME NEW d \in DaysOf(f)', d \notin DaysOf(f) PROVE FALSE
  OBVIOUS
<1>1. d \in Days
  BY DEF DaysOf
<1>2. PICK c \in Workers : Install(c) /\ FileOf[at[c].key] = f
  BY <1>1, DaysStep
<1>3. at[c].key \in Stems /\ at[c].key \in Keys
  BY <1>2, PlainWorker DEF Install
<1>4. at[c].key = k
  BY <1>2, <1>3, StemsNames
<1>5. metaCache'[k] = Entered(c) /\ Entered(c) # None
  BY <1>2, <1>3, <1>4, InstallEnters, SessionAssumption DEF StagesInv, Base, CachesOK
<1> QED BY <1>5

(* The key a goroutine works on.                                           *)
LEMMA KeySteps ==
  ASSUME StagesInv, NEW c \in Workers, Own(c), at'[c].key # None
  PROVE  \/ at'[c].key = at[c].key
         \/ at'[c].key = at[Main].key
         \/ at'[c].key \in Stems
         \/ ClearCommand(at'[c].key) /\ at'[c].key \in Keys
<1>0. at[c] \in Worker /\ Resting.key = None
  BY StageFields DEF Resting
<1>1. ~Done(c)
  BY <1>0, BecomesIs DEF Done
<1>2. ASSUME NEW op, NEW k, Begin(c, op, k) PROVE at'[c].key = k
  <2>1. at'[c] = [Resting EXCEPT !.op = op, !.key = k, !.meta = metaCache[k],
                                !.pc = IF metaCache[k] # None THEN "find" ELSE "lookup"]
    BY <1>2, BecomesIs DEF Begin
  <2> QED BY <2>1 DEF Resting
<1>3. CASE c = Main /\ \E k \in Keys : Turn(k) \/ ClearCommand(k)
  <2>1. ASSUME NEW k \in Keys, Turn(k) PROVE at'[c].key \in Stems
    BY <1>2, <1>3, <2>1 DEF Turn
  <2>2. ASSUME NEW k \in Keys, ClearCommand(k) PROVE at'[c].key = k
    BY <1>2, <1>3, <2>2 DEF ClearCommand
  <2> QED BY <1>3, <2>1, <2>2
<1>4. CASE Log(c)
  BY <1>2, <1>4 DEF Log
<1>5. CASE \E k \in Keys : Get(c, k)
  BY <1>2, <1>5 DEF Get
<1>6. CASE List(c)
  <2>1. PICK k \in Stems : Becomes(c, [Resting EXCEPT !.pc = "getmeta", !.op = "meta", !.key = k])
    BY <1>6 DEF List
  <2>2. at'[c] = [Resting EXCEPT !.pc = "getmeta", !.op = "meta", !.key = k]
    BY <2>1, BecomesIs
  <2> QED BY <2>2 DEF Resting
<1>7. ASSUME NEW p, GoTo(c, p) PROVE at'[c].key = at[c].key
  <2>1. at'[c] = [at[c] EXCEPT !.pc = p]
    BY <1>7, BecomesIs DEF GoTo
  <2> QED BY <1>0, <2>1 DEF Worker
<1>8. ASSUME NEW p, NEW m, Becomes(c, [at[c] EXCEPT !.pc = p, !.meta = m])
      PROVE  at'[c].key = at[c].key
  <2>1. at'[c] = [at[c] EXCEPT !.pc = p, !.meta = m]
    BY <1>8, BecomesIs
  <2> QED BY <1>0, <2>1 DEF Worker
<1>9. ASSUME NEW p, NEW i, Becomes(c, [at[c] EXCEPT !.pc = p, !.folder = i])
      PROVE  at'[c].key = at[c].key
  <2>1. at'[c] = [at[c] EXCEPT !.pc = p, !.folder = i]
    BY <1>9, BecomesIs
  <2> QED BY <1>0, <2>1 DEF Worker
<1>10. CASE MetaFind(c) \/ MetaOpen(c) \/ Install(c)
  BY <1>1, <1>8, <1>9, <1>10 DEF MetaFind, MetaOpen, Install, NotThere
<1>11. CASE DataFind(c) \/ DataRead(c)
  <2>1. ASSUME NEW d, NEW i, Loaded(c, d, i) PROVE at'[c].key = at[c].key
    <3>1. at'[c] = [at[c] EXCEPT !.pc = NextStage[at[c].op], !.data = d, !.folder = i]
      BY <1>1, <2>1, BecomesIs DEF Loaded
    <3> QED BY <1>0, <3>1 DEF Worker
  <2>2. LoadFailed(c) => at'[c].key = at[c].key
    BY <1>1, <1>7 DEF LoadFailed
  <2> QED BY <1>9, <1>11, <2>1, <2>2 DEF DataFind, DataRead
<1>12. CASE SaveCreate(c) \/ SaveWrite(c) \/ SaveRename(c) \/ SaveIndex(c) \/ SaveFails(c)
  <2>1. CASE SaveCreate(c)
    <3>1. at'[c] = [at[c] EXCEPT !.pc = "write", !.slot = "tmp", !.folder = SaveFolder(c)]
      BY <2>1, BecomesIs DEF SaveCreate
    <3> QED BY <1>0, <3>1 DEF Worker
  <2>2. CASE SaveRename(c)
    <3>1. at'[c] = [at[c] EXCEPT !.pc = "index", !.slot = "none", !.data = None]
      BY <1>1, <2>2, RenameDoes
    <3> QED BY <1>0, <3>1 DEF Worker
  <2>3. CASE SaveWrite(c)
    BY <1>7, <2>3 DEF SaveWrite
  <2> QED BY <1>1, <1>12, <2>1, <2>2, <2>3 DEF SaveIndex, SaveFails
<1>13. CASE c = Main /\ (RunEnds \/ AddMessage \/ Clear)
  <2>1. CASE RunEnds
    <3>1. at'[c] = [at[c] EXCEPT !.pc = "store", !.op = "store"]
      BY <1>1, <1>13, <2>1, BecomesIs DEF RunEnds
    <3> QED BY <1>0, <3>1 DEF Worker
  <2>2. CASE AddMessage
    <3>1. \/ GoTo(c, "find")
          \/ at'[c] = [at[c] EXCEPT !.pc = "create", !.data.msgs = Append(@, turns + 1)]
      BY <1>1, <1>13, <2>2, BecomesIs DEF AddMessage
    <3> QED BY <1>0, <1>7, <3>1 DEF Worker
  <2>3. CASE Clear
    <3>1. at'[c] = [at[c] EXCEPT !.pc = "create", !.data = Empty]
      BY <1>13, <2>3, BecomesIs DEF Clear
    <3> QED BY <1>0, <3>1 DEF Worker
  <2> QED BY <1>13, <2>1, <2>2, <2>3
<1>14. CASE AddInstruction(c)
  <2>1. Becomes(c, [at[c] EXCEPT !.pc = "create", !.data.instrs = @ \cup {c}])
    BY <1>1, <1>14, Zenon DEF AddInstruction
  <2>2. ASSUME NEW w, Becomes(c, w) PROVE at'[c] = w
    BY <2>2, BecomesIs
  <2>3. at'[c] = [at[c] EXCEPT !.pc = "create", !.data.instrs = @ \cup {c}]
    BY <2>1, <2>2, Zenon
  <2> QED BY <1>0, <2>3 DEF Worker
<1>15. CASE GetMeta(c)
  BY <1>1, <1>7, <1>15 DEF GetMeta
<1> QED BY <1>3, <1>4, <1>5, <1>6, <1>10, <1>11, <1>12, <1>13, <1>14, <1>15 DEF Own

LEMMA PlainKeysStep ==
  ASSUME StagesInv, Named, Homed, [Next]_vars, NEW f \in Files, PlainAt(f), Plain(f)'
  PROVE  PlainKeys(f)'
<1>1. ASSUME NEW k \in Keys, FileOf[k] = f, metaCache'[k] # None
      PROVE  k \in Stems /\ metaCache'[k].key \in Stems
  <2>1. CASE metaCache'[k] = metaCache[k]
    BY <1>1, <2>1 DEF PlainAt, PlainKeys
  <2>2. ASSUME NEW c \in Workers, Install(c), at[c].key = k, metaCache'[k] = Entered(c)
        PROVE  k \in Stems /\ metaCache'[k].key \in Stems
    <3>1. at[c].pc # "idle" /\ at[c].meta # None
      BY <2>2, StageFields DEF Install, Placed
    <3>2. k \in Stems /\ at[c].meta.key \in Stems
      BY <1>1, <2>2, <3>1, PlainWorker
    <3> QED BY <1>1, <2>2, <3>2 DEF Entered, PlainAt, PlainKeys
  <2>3. ASSUME NEW c \in Workers, SaveIndex(c), at[c].meta.key = k, metaCache'[k] = at[c].meta
        PROVE  k \in Stems /\ metaCache'[k].key \in Stems
    <3>1. at[c].pc # "idle" /\ at[c].meta # None
      BY <2>3, Saver, SessionAssumption DEF SaveIndex, Saving
    <3> QED BY <1>1, <2>3, <3>1, PlainWorker
  <2> QED BY <1>1, <2>1, <2>2, <2>3, CacheChanges
<1>2. ASSUME NEW k \in Keys, FileOf[k] = f, dateIndex'[k] # 0 PROVE k \in Stems
  <2>1. CASE dateIndex'[k] = dateIndex[k]
    BY <1>2, <2>1 DEF PlainAt, PlainKeys
  <2>2. ASSUME NEW c \in Workers, Looks(c, k) PROVE k \in Stems
    <3>1. MetaFind(c) \/ DataFind(c) => at[c].pc # "idle" /\ (DataFind(c) => at[c].meta # None)
      BY StageFields DEF MetaFind, DataFind, Placed, Knowing
    <3> QED BY <1>2, <2>2, <3>1, PlainWorker DEF Looks
  <2>3. ASSUME NEW c \in Workers, SaveIndex(c), at[c].meta.key = k PROVE k \in Stems
    <3>1. at[c].pc # "idle" /\ at[c].meta # None
      BY <2>3, Saver, SessionAssumption DEF SaveIndex, Saving
    <3> QED BY <1>2, <2>3, <3>1, PlainWorker
  <2> QED BY <1>2, <2>1, <2>2, <2>3, IndexChanges
<1>3. ASSUME NEW d \in Days
      PROVE  /\ disk'[f][d] # None => disk'[f][d].key \in Stems
             /\ tmp'[f][d] # None => tmp'[f][d].key \in Stems
  <2>0. d \in Folders
    BY Bounds
  <2>1. ASSUME NEW c \in Workers, at[c].pc \in Saving, File(c) = f, NEW dat, NEW whole
        PROVE  Written(c, dat, whole).key \in Stems
    <3>1. at[c].pc # "idle" /\ at[c].meta # None
      BY <2>1, Saver, SessionAssumption DEF Saving
    <3> QED BY <2>1, <3>1, PlainWorker, WrittenFields DEF File
  <2>2. tmp'[f][d] # None => tmp'[f][d].key \in Stems
    <3>1. CASE tmp'[f][d] = tmp[f][d]
      BY <3>1 DEF PlainAt, PlainKeys
    <3>2. ASSUME tmp'[f][d] # tmp[f][d], tmp'[f][d] # None PROVE tmp'[f][d].key \in Stems
      BY <2>0, <2>1, <3>2, TmpChanges
    <3> QED BY <3>1, <3>2
  <2>3. disk'[f][d] # None => disk'[f][d].key \in Stems
    <3>1. CASE disk'[f][d] = disk[f][d]
      BY <3>1 DEF PlainAt, PlainKeys
    <3>2. ASSUME disk'[f][d] # disk[f][d], disk'[f][d] # None PROVE disk'[f][d].key \in Stems
      <4>1. PICK c \in Workers :
              /\ at[c].pc \in Saving /\ File(c) = f
              /\ \/ tmp[f][d] # None /\ disk'[f][d] = tmp[f][d]
                 \/ \E whole \in BOOLEAN : disk'[f][d] = Written(c, at[c].data, whole)
        BY <2>0, <3>2, DiskChanges
      <4> QED BY <2>1, <4>1 DEF PlainAt, PlainKeys
    <3> QED BY <3>1, <3>2
  <2> QED BY <2>2, <2>3
<1>4. ASSUME NEW c \in Workers, at'[c].key # None, FileOf[at'[c].key] = f
      PROVE  at'[c].key \in Stems /\ (at'[c].meta # None => at'[c].meta.key \in Stems)
  <2>1. CASE Renamed(at[c], at'[c])
    <3>1. at'[c].meta = at[c].meta /\ at'[c].key = at[c].key
      BY <2>1, StageFields, RenamedFields
    <3> QED BY <1>4, <3>1 DEF PlainAt, PlainKeys
  <2>2. CASE Restart
    BY <1>4, <2>2 DEF Restart, Resting
  <2>3. CASE Own(c)
    <3>1. at'[c].key \in Stems
      <4>1. Main \in Workers
        BY DEF Workers
      <4> QED BY <1>4, <2>3, <4>1, KeySteps, PlainStays DEF PlainAt, PlainKeys
    <3>2. at'[c].meta # None => at'[c].meta.key \in Stems
      <4>1. CASE Keeps(at[c], at'[c])
        BY <1>4, <4>1 DEF PlainAt, PlainKeys, Keeps
      <4>2. CASE at'[c].key \in Keys /\ at'[c].meta = metaCache[at'[c].key]
        BY <1>4, <4>2 DEF PlainAt, PlainKeys
      <4>3. CASE Install(c) /\ at'[c].meta = Entered(c) /\ at'[c].key = at[c].key
        <5>1. at[c].meta # None /\ at[c].key \in Keys
          BY <4>3, StageFields DEF Install, Placed
        <5> QED BY <1>4, <4>3, <5>1 DEF PlainAt, PlainKeys, Entered
      <4>4. CASE Looked(c)
        <5> DEFINE file == disk[f][at[c].folder]
        <5>1. at'[c].key = at[c].key /\ at[c].folder \in Folders
          BY <4>4, StageFields DEF Looked, Worker
        <5>2. CASE at'[c].meta = NewMeta(at[c].key)
          BY <3>1, <5>1, <5>2 DEF NewMeta
        <5>3. CASE file # None /\ at'[c].meta = Header(at[c].key, file)
          <6>1. at'[c].meta.key = IF file.key = None THEN at[c].key ELSE file.key
            BY <5>3 DEF Header
          <6>2. file.key = None \/ file.key \in Stems
            BY <5>1, <5>3, Bounds DEF Homed, PlainAt, PlainKeys
          <6> QED BY <3>1, <5>1, <6>1, <6>2
        <5> QED BY <1>4, <4>4, <5>1, <5>2, <5>3 DEF Looked
      <4> QED BY <2>3, <4>1, <4>2, <4>3, <4>4, MetaSteps
    <3> QED BY <3>1, <3>2
  <2> QED BY <2>1, <2>2, <2>3, OwnSteps
<1> QED BY <1>1, <1>2, <1>3, <1>4 DEF PlainKeys

(* Entering metadata of such a session adds no second day.                 *)
LEMMA PlainEntered ==
  ASSUME StagesInv, PlacesInv, NEW f \in Files, PlainAt(f), NEW c \in Workers, Install(c),
         FileOf[at[c].key] = f
  PROVE  DaysOf(f) \subseteq {Entered(c).created}
<1>0. \A d, e \in DaysOf(f) : d = e
  BY DEF PlacesInv, OneDay, PlainAt
<1>1. at[c].key \in Keys /\ PlainMeta(at[c], f) /\ at[c].pc = "install" /\ Entered(c) \in Meta
  BY PlainWorker, InstallEnters DEF Install, PlacesInv
<1>2. CASE at[c].op # "meta" /\ metaCache[at[c].key] = None
  BY <1>1, <1>2 DEF PlainMeta, Entered
<1>3. CASE at[c].op # "meta" /\ metaCache[at[c].key] # None
  <2>1. Entered(c) = metaCache[at[c].key] /\ Entered(c).created \in Days
    BY <1>1, <1>3 DEF Entered, Meta
  <2>2. Entered(c).created \in DaysOf(f)
    BY <1>1, <1>3, <2>1 DEF DaysOf
  <2> QED BY <1>0, <2>2
<1>4. CASE at[c].op = "meta"
  <2>1. PICK d \in Folders : disk[f][d] # None /\ disk[f][d].created = Entered(c).created
    BY <1>1, <1>4 DEF PlainMeta, Entered
  <2>2. Entered(c).created \in Days
    BY <1>1 DEF Meta
  <2>3. Entered(c).created \in DaysOf(f)
    <3>1. CASE d \in Days
      BY <2>1, <2>2, <3>1 DEF DaysOf, PlacesInv, Homed
    <3>2. CASE d = 0
      BY <2>1, <2>2, <3>2 DEF DaysOf
    <3> QED BY <3>1, <3>2, Bounds
  <2> QED BY <1>0, <2>3
<1> QED BY <1>2, <1>3, <1>4

(* The metadata read from a file of such a session has that file's day.    *)
LEMMA PlainHeader ==
  ASSUME Homed, NEW f \in Files, Plain(f), NEW k, NEW d \in Folders, disk[f][d] # None
  PROVE  Header(k, disk[f][d]).created = disk[f][d].created
<1>1. disk[f][d].created # 0
  BY Bounds DEF Homed, Plain, Undated
<1> QED BY <1>1 DEF Header

(* What is found missing is new: nothing at all is known of it.            *)
LEMMA PlainLooked ==
  ASSUME StagesInv, PlacesInv, Indexed, NEW f \in Files, PlainAt(f), Plain(f), NEW c \in Workers,
         Looked(c), FileOf[at[c].key] = f, at[c].op # "meta", metaCache[at[c].key] = None
  PROVE  DaysOf(f) \subseteq {at'[c].meta.created}
<1> DEFINE k == at[c].key  file == disk[f][at[c].folder]
<1>0. \A d, e \in DaysOf(f) : d = e
  BY DEF PlacesInv, OneDay, PlainAt
<1>1. k \in Stems /\ k \in Keys /\ PlainMeta(at[c], f) /\ at[c].folder \in Folders
  BY PlainWorker, StageFields DEF Looked, PlacesInv, Worker
<1>2. CASE at[c].pc = "lookup" /\ Located(k) = {}
  <2>1. dateIndex[k] = 0 /\ Found(f) = {}
    BY <1>2 DEF Located
  <2>2. \A d \in Folders : disk[f][d] = None
    BY <2>1, Bounds DEF Found, Dated
  <2>3. ASSUME NEW d \in DaysOf(f) PROVE FALSE
    <3>1. d \in Folders /\ 0 \in Folders /\ d # 0
      BY Bounds DEF DaysOf
    <3> QED BY <1>1, <2>1, <2>2, <3>1, Uncached DEF PlacesInv
  <2> QED BY <2>3
<1>3. CASE at[c].pc = "open" /\ file # None /\ at'[c].meta = Header(k, file)
  <2>1. at'[c].meta.created = file.created
    BY <1>1, <1>3, PlainHeader DEF PlacesInv
  <2>2. file.created \in Days
    BY <1>1, <1>3, Bounds DEF PlacesInv, Homed, Plain, Undated
  <2>3. file.created \in DaysOf(f)
    <3>1. CASE at[c].folder \in Days
      BY <1>3, <2>2, <3>1 DEF DaysOf, PlacesInv, Homed
    <3>2. CASE at[c].folder = 0
      BY <1>3, <2>2, <3>2 DEF DaysOf
    <3> QED BY <1>1, <3>1, <3>2, Bounds
  <2> QED BY <1>0, <2>1, <2>3
<1> QED BY <1>1, <1>2, <1>3 DEF Looked, PlainMeta

LEMMA PlainMetaStep ==
  ASSUME StagesInv, PlacesInv, Indexed, [Next]_vars, NEW f \in Files, PlainAt(f), Plain(f)',
         NEW c \in Workers, at'[c].key # None, FileOf[at'[c].key] = f
  PROVE  PlainMeta(at[c], f)'
<1> USE DEF PlacesInv
<1>0. /\ Plain(f) /\ \A d \in Folders : disk[f][d] # None => disk'[f][d] # None
      /\ \A k \in Keys : FileOf[k] = f =>
           ~Delete(k) /\ (metaCache[k] # None /\ ~Restart => metaCache'[k] # None)
  BY PlainStays
<1>1. CASE Restart
  <2>1. at'[c].key = None
    BY <1>1 DEF Restart, Resting
  <2> QED BY <2>1
<1>2. ASSUME ~Restart, at'[c].pc = at[c].pc, at'[c].op = at[c].op, at'[c].key = at[c].key,
             at'[c].meta = at[c].meta, at'[c].folder = at[c].folder
      PROVE  PlainMeta(at[c], f)'
  <2>1. at[c].key \in Keys /\ at[c].folder \in Folders
    BY <1>2, StageFields DEF Worker
  <2>2. PlainMeta(at[c], f)
    BY <1>2 DEF PlainAt
  <2>3. at'[c].pc = "open" => disk'[f][at'[c].folder] # None
    BY <1>0, <1>2, <2>1, <2>2 DEF PlainMeta
  <2>4. at'[c].meta # None /\ at'[c].pc # "install" => metaCache'[at'[c].key] # None
    BY <1>0, <1>2, <2>1, <2>2 DEF PlainMeta
  <2>5. ASSUME at'[c].pc = "install", at'[c].op = "meta"
        PROVE  \E d \in Folders : disk'[f][d] # None /\ disk'[f][d].created = at'[c].meta.created
    <3>1. PICK d \in Folders : disk[f][d] # None /\ disk[f][d].created = at[c].meta.created
      BY <1>2, <2>2, <2>5 DEF PlainMeta
    <3>2. Homed' /\ disk'[f][d] # None
      BY <1>0, <3>1, HomedStep
    <3>3. d \in Days => disk'[f][d].created = d /\ disk[f][d].created = d
      BY <3>1, <3>2 DEF Homed
    <3>4. d = 0 => disk'[f][d] = disk[f][d]
      <4>1. ASSUME disk'[f][0] # disk[f][0] PROVE FALSE
        <5>1. \E b \in Workers : at[b].pc \in Saving /\ Day(b) = 0
          BY <1>0, <4>1, DiskChanges, Bounds
        <5> QED BY <5>1, Saver, Bounds
      <4> QED BY <4>1
    <3> QED BY <1>2, <3>1, <3>2, <3>3, <3>4, Bounds
  <2>6. ASSUME at'[c].pc = "install", at'[c].op # "meta", metaCache'[at'[c].key] = None
        PROVE  DaysOf(f)' \subseteq {at'[c].meta.created}
    <3>1. at[c].key \in Stems /\ FileOf[at[c].key] = f
      BY <1>2 DEF PlainAt, PlainKeys
    <3>2. DaysOf(f)' \subseteq DaysOf(f)
      BY <1>2, <2>6, <3>1, UncachedStep
    <3>3. metaCache[at[c].key] = None
      BY <1>0, <1>2, <2>1, <2>6, <3>1
    <3>4. DaysOf(f) \subseteq {at[c].meta.created}
      BY <1>2, <2>2, <2>6, <3>3 DEF PlainMeta
    <3> QED BY <1>2, <3>2, <3>4
  <2> QED BY <2>3, <2>4, <2>5, <2>6 DEF PlainMeta
<1>3. CASE Own(c) /\ ~Restart
  <2>1. at'[c].pc = "open" => disk'[f][at'[c].folder] # None
    <3> SUFFICES ASSUME at'[c].pc = "open" PROVE disk'[f][at'[c].folder] # None
      OBVIOUS
    <3>1. \A i : [at[c] EXCEPT !.pc = "read", !.folder = i].pc = "read"
      BY StageFields DEF Worker
    <3>2. /\ MetaFind(c) /\ Located(at[c].key) # {}
          /\ at'[c] = [at[c] EXCEPT !.pc = "open", !.folder = Min(Located(at[c].key))]
      BY <1>3, <3>1, StageAfter DEF Looked
    <3>3. at'[c].folder = Min(Located(at[c].key)) /\ at'[c].key = at[c].key /\ at[c].key \in Keys
      BY <3>2, StageFields DEF Worker, MetaFind
    <3>4. Min(Located(at[c].key)) \in Located(at[c].key) /\ Min(Located(at[c].key)) \in Folders
      BY <3>2, <3>3, LocatedPlaces DEF StagesInv, Base
    <3>5. disk[f][Min(Located(at[c].key))] # None
      <4>1. f \notin deleted
        BY <1>0 DEF Plain
      <4> QED BY <3>3, <3>4, <4>1, FoundPlaces DEF Located, Indexed, There
    <3> QED BY <1>0, <3>3, <3>4, <3>5
  <2>2. at'[c].meta # None /\ at'[c].pc # "install" => metaCache'[at'[c].key] # None
    <3> SUFFICES ASSUME at'[c].meta # None, at'[c].pc # "install"
                 PROVE  metaCache'[at'[c].key] # None
      OBVIOUS
    <3>1. CASE Keeps(at[c], at'[c])
      <4>1. at[c].key \in Keys
        BY <3>1, StageFields DEF Keeps, Worker
      <4>2. PlainMeta(at[c], f)
        BY <3>1 DEF Keeps, PlainAt
      <4> QED BY <1>0, <1>3, <3>1, <4>1, <4>2 DEF Keeps, PlainMeta
    <3>2. CASE at'[c].meta = metaCache[at'[c].key] /\ metaCache' = metaCache
      BY <3>2
    <3>3. CASE Install(c) /\ at'[c].key = at[c].key
      BY <3>3, InstallEnters, SessionAssumption DEF StagesInv, Base, CachesOK
    <3> QED BY <1>3, <3>1, <3>2, <3>3, MetaSteps DEF Looked
  <2>3. CASE at'[c].pc # "install"
    BY <2>1, <2>2, <2>3 DEF PlainMeta
  <2>4. CASE at'[c].pc = "install"
    <3>1. Looked(c)
      <4>1. \A i : /\ [at[c] EXCEPT !.pc = "open", !.folder = i].pc = "open"
                   /\ [at[c] EXCEPT !.pc = "read", !.folder = i].pc = "read"
        BY StageFields DEF Worker
      <4> QED BY <1>3, <2>4, <4>1, StageAfter
    <3>2. at'[c].key = at[c].key /\ at'[c].op = at[c].op /\ disk' = disk /\ metaCache' = metaCache
      BY <3>1 DEF Looked
    <3>3. ASSUME at'[c].op = "meta"
          PROVE  \E d \in Folders : disk'[f][d] # None /\ disk'[f][d].created = at'[c].meta.created
      <4>1. /\ disk[f][at[c].folder] # None /\ at[c].folder \in Folders
            /\ at'[c].meta = Header(at[c].key, disk[f][at[c].folder])
        BY <3>1, <3>2, <3>3, StageFields DEF Looked, Worker
      <4> QED BY <1>0, <3>2, <4>1, PlainHeader
    <3>4. ASSUME at'[c].op # "meta", metaCache'[at'[c].key] = None
          PROVE  DaysOf(f)' \subseteq {at'[c].meta.created}
      <4>1. at[c].key \in Stems
        BY <3>2 DEF PlainAt, PlainKeys
      <4>2. DaysOf(f)' \subseteq DaysOf(f)
        BY <3>2, <3>4, <4>1, UncachedStep
      <4>3. DaysOf(f) \subseteq {at'[c].meta.created}
        BY <1>0, <3>1, <3>2, <3>4, PlainLooked
      <4> QED BY <4>2, <4>3
    <3> QED BY <2>4, <3>3, <3>4 DEF PlainMeta
  <2> QED BY <2>3, <2>4
<1>4. CASE Renamed(at[c], at'[c]) /\ ~Restart
  BY <1>2, <1>4, StageFields, RenamedFields
<1> QED BY <1>1, <1>3, <1>4, OwnSteps

LEMMA PlainStep ==
  ASSUME StagesInv, PlacesInv, Indexed, PlainInv, [Next]_vars
  PROVE  PlainInv'
<1> SUFFICES ASSUME NEW f \in Files, Plain(f)' PROVE PlainAt(f)'
  BY DEF PlainInv
<1>1. PlainAt(f)
  BY PlainStays DEF PlainInv, PlacesInv
<1>2. f \notin astray'
  <2>1. ASSUME NEW c \in Workers, Install(c) PROVE f \notin astray'
    <3>1. FileOf[at[c].key] = f => DaysOf(f) \subseteq {Entered(c).created}
      BY <1>1, <2>1, PlainEntered
    <3> QED BY <1>1, <2>1, <3>1, InstallEnters DEF PlainAt
  <2>2. astray' = astray \/ \E c \in Workers : Install(c)
    BY AstraySteps
  <2> QED BY <1>1, <2>1, <2>2 DEF PlainAt
<1>3. PlainKeys(f)'
  BY <1>1, PlainKeysStep DEF PlacesInv
<1>4. ASSUME NEW c \in Workers, at'[c].key # None, FileOf[at'[c].key] = f
      PROVE  PlainMeta(at[c], f)'
  BY <1>1, <1>4, PlainMetaStep
<1> QED BY <1>2, <1>3, <1>4 DEF PlainAt

-----------------------------------------------------------------------------
(* Reading what was saved last.                                            *)

(* The inductive invariant: stages and writers, where things are, what the *)
(* index and a search find, and why other sessions do not go astray.       *)
PathInv == /\ StagesInv /\ WholeInv /\ PlacesInv
           /\ Indexed /\ LastFound /\ PlainInv

LEMMA InitPath == Init => PathInv
<1> SUFFICES ASSUME Init PROVE PathInv
  OBVIOUS
<1>1. PICK first \in [Files -> {None, Old(0), Old(1)}] :
        disk = [f \in Files |-> [d \in Folders |-> IF d = 0 THEN first[f] ELSE None]]
  BY DEF Init
<1>2. \A f \in Files : /\ \A d \in Days : disk[f][d] = None
                       /\ disk[f][0] = first[f] /\ disk[f][0] \in {None, Old(0), Old(1)}
  BY <1>1, Bounds
<1>3. /\ tmp = [f \in Files |-> [d \in Folders |-> None]]
      /\ metaCache = [k \in Keys |-> None] /\ dateIndex = [k \in Keys |-> 0]
      /\ at = [c \in Workers |-> Resting] /\ last = [f \in Files |-> disk[f][0]]
      /\ deleted = {} /\ respelled = {} /\ astray = {} /\ overlapped = {}
  BY DEF Init
<1>4. \A c \in Workers : /\ at[c].pc = "idle" /\ at[c].key = None /\ at[c].meta = None
                         /\ at[c].slot = "none"
  BY <1>3 DEF Resting
<1>5. /\ \A f \in Files : disk[f][0] # None => disk[f][0].key = None /\ disk[f][0].created \in {0, 1}
  BY <1>2 DEF Old
<1>6. Named
  <2>1. \A f \in Files, d \in Folders : /\ disk[f][d] # None => Names(disk[f][d], f)
                                        /\ tmp[f][d] = None
    BY <1>2, <1>3, <1>5, Bounds DEF Names
  <2> QED BY <1>3, <1>4, <2>1 DEF Named
<1>7. Homed
  BY <1>2, <1>3, <1>4, <1>5, Bounds DEF Homed
<1>8. \A f \in Files : DaysOf(f) \subseteq {1}
  BY <1>2, <1>3, <1>4, <1>5, Bounds DEF DaysOf, Knows, Workers
<1>9. OneDay
  BY <1>8 DEF OneDay
<1>10. Indexed
  BY <1>3, <1>4 DEF Indexed
<1>11. LastFound
  <2> SUFFICES ASSUME NEW f \in Files PROVE LastAt(f)
    BY DEF LastFound
  <2>1. last[f] = disk[f][0]
    BY <1>3
  <2> QED BY <1>2, <2>1, Bounds DEF LastAt, Hit
<1>12. PlainInv
  <2>1. \A f \in Files : PlainKeys(f)
    <3>1. \A f \in Files, d \in Days : disk[f][d] = None /\ tmp[f][d] = None
      BY <1>2, <1>3, Bounds
    <3> QED BY <1>3, <1>4, <3>1 DEF PlainKeys
  <2> QED BY <1>3, <1>4, <2>1 DEF PlainInv, PlainAt
<1> QED BY <1>6, <1>7, <1>9, <1>10, <1>11, <1>12, InitStages, InitWhole DEF PathInv, PlacesInv

LEMMA PathStep == PathInv /\ [Next]_vars => PathInv'
<1> SUFFICES ASSUME PathInv, [Next]_vars PROVE PathInv'
  OBVIOUS
<1>1. WholeInv'
  BY OneWriterStep, WholeStep DEF PathInv, WholeInv
<1>2. LastFound'
  BY LastFoundStep DEF PathInv, WholeInv
<1>3. Indexed'
  BY IndexedStep DEF PathInv, PlacesInv
<1>4. PlainInv'
  BY PlainStep DEF PathInv
<1> QED BY <1>1, <1>2, <1>3, <1>4, StagesStep, PlacesStep DEF PathInv

LEMMA PathReads == PathInv => LoadsLatest
<1> SUFFICES ASSUME PathInv PROVE LoadsLatest
  OBVIOUS
<1>1. ASSUME NEW f \in astray PROVE f \in deleted \cup respelled \/ Undated(f)
  <2>1. f \in Files
    BY DEF PathInv, StagesInv, Base, CountersOK
  <2> QED BY <2>1 DEF PathInv, PlainInv, PlainAt, Plain
<1>2. ASSUME NEW f \in Files \ (astray \cup overlapped), ~LeftOver(f)
      PROVE  /\ Seen(f, Found(f)) = last[f]
             /\ \A k \in Keys : FileOf[k] = f => Seen(f, Located(k)) = last[f]
  BY <1>2, ReadsLast DEF PathInv
<1> QED BY <1>1, <1>2 DEF LoadsLatest

(* Whatever day it is, whichever spelling is used, and whatever crashed,   *)
(* was deleted or cleared before: the running process and a restarted one  *)
(* read a session's latest save, unless two saves had its file open or it  *)
(* was given metadata of a second day; and that happens only to sessions   *)
(* that were deleted, cleared, or kept in an old file without a header.    *)
THEOREM ReadsLatest == Spec => []LoadsLatest
<1>1. Init => PathInv
  BY InitPath
<1>2. PathInv /\ [Next]_vars => PathInv'
  BY PathStep
<1>3. PathInv => LoadsLatest
  BY PathReads
<1> QED BY <1>1, <1>2, <1>3, PTL DEF Spec

-----------------------------------------------------------------------------
(* The messages a session has stored.                                      *)

LEMMA EndsInEmpty == \A t \in Seq(Nat) : EndsIn(t, <<>>)
BY DEF EndsIn

LEMMA AppendAt ==
  ASSUME NEW t \in Seq(Nat), NEW n \in Nat
  PROVE  /\ Append(t, n)[Len(t) + 1] = n
         /\ \A i \in 1..Len(t) : Append(t, n)[i] = t[i]
OBVIOUS

LEMMA EndsInAppend ==
  ASSUME NEW t \in Seq(Nat), NEW s \in Seq(Nat), NEW n \in Nat, EndsIn(t, s)
  PROVE  EndsIn(Append(t, n), Append(s, n))
<1> DEFINE u == Append(t, n)  v == Append(s, n)
<1>1. Len(u) = Len(t) + 1 /\ Len(v) = Len(s) + 1 /\ Len(s) \in Nat /\ Len(t) \in Nat
  OBVIOUS
<1>2. Len(s) <= Len(t)
  BY DEF EndsIn
<1>3. ASSUME NEW i \in 1..(Len(s) + 1) PROVE u[Len(t) - Len(s) + i] = v[i]
  <2>1. CASE i = Len(s) + 1
    <3>1. Len(t) - Len(s) + i = Len(t) + 1
      BY <1>1, <2>1
    <3> QED BY <2>1, <3>1, AppendAt
  <2>2. CASE i \in 1..Len(s)
    <3>1. Len(t) - Len(s) + i \in 1..Len(t)
      BY <1>1, <1>2, <2>2
    <3>2. t[Len(t) - Len(s) + i] = s[i]
      BY <2>2 DEF EndsIn
    <3>3. u[Len(t) - Len(s) + i] = t[Len(t) - Len(s) + i] /\ v[i] = s[i]
      BY <2>2, <3>1, AppendAt
    <3> QED BY <3>2, <3>3
  <2>3. i = Len(s) + 1 \/ i \in 1..Len(s)
    <3> HIDE DEF u, v
    <3> QED BY <1>1
  <2> QED BY <2>1, <2>2, <2>3
<1>4. Len(u) - Len(v) = Len(t) - Len(s) /\ Len(v) <= Len(u)
  BY <1>1, <1>2
<1>5. EndsIn(u, v)
  <2>1. \A i \in 1..Len(v) : u[Len(u) - Len(v) + i] = v[i]
    <3> HIDE DEF u, v
    <3> QED BY <1>1, <1>3, <1>4
  <2> HIDE DEF u, v
  <2> QED BY <1>4, <2>1 DEF EndsIn
<1> QED BY <1>5

LEMMA EndsInSuffix ==
  ASSUME NEW t \in Seq(Nat), NEW s \in Seq(Nat), EndsIn(t, s)
  PROVE  IsSuffix(s, t)
<1> DEFINE u == Reverse(s)  v == Reverse(t)
<1>1. u \in Seq(Nat) /\ v \in Seq(Nat) /\ Len(u) = Len(s) /\ Len(v) = Len(t)
  BY DEF Reverse
<1>2. Len(s) <= Len(t) /\ Len(s) \in Nat /\ Len(t) \in Nat
  BY DEF EndsIn
<1>3. ASSUME NEW i \in 1..Len(s) PROVE u[i] = v[i]
  <2>1. u[i] = s[(Len(s) - i) + 1] /\ v[i] = t[(Len(t) - i) + 1]
    BY <1>2 DEF Reverse
  <2>2. (Len(s) - i) + 1 \in 1..Len(s)
        /\ Len(t) - Len(s) + ((Len(s) - i) + 1) = (Len(t) - i) + 1
    BY <1>2
  <2> QED BY <2>1, <2>2 DEF EndsIn
<1>4. SubSeq(u, 1, Len(u)) = SubSeq(v, 1, Len(u))
  <2> HIDE DEF u, v
  <2>1. /\ SubSeq(u, 1, Len(u)) = [i \in 1..Len(s) |-> u[i]]
        /\ SubSeq(v, 1, Len(u)) = [i \in 1..Len(s) |-> v[i]]
    BY <1>1, <1>2
  <2> QED BY <1>3, <2>1
<1> QED BY <1>1, <1>2, <1>4 DEF IsSuffix, IsPrefix

(* The dated file of a session with one day is where everybody looks.      *)
LEMMA OneFile ==
  ASSUME StagesInv, OneDay, NEW f \in Files \ astray, NEW d \in Days, disk[f][d] # None,
         NEW k \in Keys, FileOf[k] = f
  PROVE  Located(k) # {} /\ Min(Located(k)) = d
<1>0. \A e \in Days : disk[f][e] # None \/ dateIndex[k] = e => e = d
  BY DEF OneDay, DaysOf
<1>1. CASE dateIndex[k] # 0
  <2>1. dateIndex[k] = d
    BY <1>0, <1>1, Bounds DEF StagesInv, Base, CachesOK
  <2>2. Located(k) = {d}
    BY <1>1, <2>1 DEF Located
  <2> QED BY <2>2, LeastOf, Bounds
<1>2. CASE dateIndex[k] = 0
  <2>1. Located(k) = Dated(f) /\ d \in Dated(f)
    BY <1>2 DEF Located, Found, Dated
  <2>2. Min(Located(k)) \in Located(k)
    BY <2>1, LocatedPlaces DEF StagesInv, Base
  <2> QED BY <1>0, <2>1, <2>2 DEF Dated
<1> QED BY <1>1, <1>2

(* Where the data somebody works with comes from.                          *)
LEMMA DataSteps ==
  ASSUME StagesInv, Unread, NEW c \in Workers, Own(c), at'[c].data # None
  PROVE  /\ at'[c].meta = at[c].meta /\ at'[c].pc \notin Reading
         /\ \/ /\ at'[c].data = at[c].data /\ at'[c].op = at[c].op /\ turns' = turns
               /\ at[c].pc \in Saving /\ at'[c].pc \in Saving
            \/ at'[c].data = at[c].data /\ at[c].op = "turn" /\ at'[c].pc = "store"
            \/ /\ at[c].pc = "store" /\ at[c].op = "store" /\ at[c].data # None /\ turns' = turns + 1
               /\ at'[c].op = "store" /\ at'[c].pc = "create"
               /\ at'[c].data.msgs = Append(at[c].data.msgs, turns + 1)
            \/ at'[c].op = "clear"
            \/ /\ at[c].op = "log" /\ at'[c].op = "log" /\ at[c].data # None
               /\ at'[c].data.msgs = at[c].data.msgs
            \/ /\ at[c].pc = "find" /\ Located(at[c].meta.key) = {} /\ at'[c].data = Empty
               /\ at'[c].pc \notin Saving
            \/ /\ at[c].pc = "read" /\ at'[c].pc \notin Saving
               /\ LET file == disk[FileOf[at[c].meta.key]][at[c].folder] IN
                    IF file = None THEN at'[c].data = Empty ELSE file.whole => at'[c].data = file.data
<1>0. at[c] \in Worker /\ Placed(c, at[c]) /\ Resting.data = None
  BY StageFields DEF Resting
<1>1. ~Done(c)
  BY <1>0, BecomesIs DEF Done
<1>2. \A op, k : ~Begin(c, op, k)
  <2> SUFFICES ASSUME NEW k, NEW op, Begin(c, op, k) PROVE FALSE
    OBVIOUS
  <2>1. at'[c] = [Resting EXCEPT !.op = op, !.key = k, !.meta = metaCache[k],
                                !.pc = IF metaCache[k] # None THEN "find" ELSE "lookup"]
    BY BecomesIs DEF Begin
  <2> QED BY <2>1 DEF Resting
<1>3. ASSUME NEW p, GoTo(c, p)
      PROVE  /\ at'[c].data = at[c].data /\ at'[c].meta = at[c].meta /\ at'[c].op = at[c].op
             /\ at'[c].pc = p
  <2>1. at'[c] = [at[c] EXCEPT !.pc = p]
    BY <1>3, BecomesIs DEF GoTo
  <2> QED BY <1>0, <2>1 DEF Worker
<1>4. ASSUME at[c].pc \in Reading \cup {"getmeta"}, NEW p, NEW m, NEW i
      PROVE  /\ ~Becomes(c, [at[c] EXCEPT !.pc = p, !.meta = m])
             /\ ~Becomes(c, [at[c] EXCEPT !.pc = p, !.folder = i])
             /\ ~GoTo(c, p)
  <2>1. at[c].data = None
    BY <1>0, <1>4 DEF Unread, Placed, ViewerAt, LoggerAt, MainAt, Workers, Reading, Saving
  <2>2. ASSUME Becomes(c, [at[c] EXCEPT !.pc = p, !.meta = m]) PROVE FALSE
    <3>1. at'[c] = [at[c] EXCEPT !.pc = p, !.meta = m]
      BY <2>2, BecomesIs
    <3> QED BY <1>0, <2>1, <3>1 DEF Worker
  <2>3. ASSUME Becomes(c, [at[c] EXCEPT !.pc = p, !.folder = i]) PROVE FALSE
    <3>1. at'[c] = [at[c] EXCEPT !.pc = p, !.folder = i]
      BY <2>3, BecomesIs
    <3> QED BY <1>0, <2>1, <3>1 DEF Worker
  <2> QED BY <1>3, <2>1, <2>2, <2>3
<1>5. ~MetaFind(c) /\ ~MetaOpen(c) /\ ~Install(c)
  BY <1>1, <1>4 DEF MetaFind, MetaOpen, Install, NotThere, Reading
<1>6. ASSUME at[c].pc \in {"find", "read"}, NEW d, NEW i, Loaded(c, d, i)
      PROVE  /\ at'[c].data = d /\ at'[c].meta = at[c].meta
             /\ at'[c].pc \notin Reading \cup Saving
  <2>1. /\ at'[c] = [at[c] EXCEPT !.pc = NextStage[at[c].op], !.data = d, !.folder = i]
        /\ at[c].op # "get"
    BY <1>1, <1>6, BecomesIs DEF Loaded
  <2>2. at[c].op \in {"turn", "store", "log", "clear"}
    BY <1>0, <1>6, <2>1 DEF Placed, ViewerAt, LoggerAt, MainAt, Workers
  <2>3. NextStage[at[c].op] \notin Reading \cup Saving
    BY <2>2 DEF NextStage, Reading, Saving
  <2> QED BY <1>0, <2>1, <2>3 DEF Worker
<1>7. CASE DataFind(c)
  BY <1>4, <1>6, <1>7 DEF DataFind, Reading
<1>8. CASE DataRead(c)
  <2>1. ~LoadFailed(c)
    BY <1>1, <1>4, <1>8 DEF LoadFailed, DataRead, Reading
  <2> QED BY <1>6, <1>8, <2>1 DEF DataRead
<1>9. CASE SaveCreate(c) \/ SaveWrite(c) \/ SaveRename(c) \/ SaveIndex(c) \/ SaveFails(c)
  <2>1. CASE SaveCreate(c)
    <3>1. at'[c] = [at[c] EXCEPT !.pc = "write", !.slot = "tmp", !.folder = SaveFolder(c)]
      BY <2>1, BecomesIs DEF SaveCreate
    <3>2. /\ at'[c].data = at[c].data /\ at'[c].meta = at[c].meta /\ at'[c].op = at[c].op
          /\ at'[c].pc = "write"
      BY <1>0, <3>1 DEF Worker
    <3> QED BY <2>1, <3>2 DEF SaveCreate, Reading, Saving, bounds
  <2>2. CASE SaveWrite(c)
    BY <1>3, <2>2 DEF SaveWrite, Reading, Saving, bounds
  <2>3. ~SaveRename(c)
    <3>1. ASSUME SaveRename(c)
          PROVE  at'[c] = [at[c] EXCEPT !.pc = "index", !.slot = "none", !.data = None]
      BY <1>1, <3>1, RenameDoes
    <3> QED BY <1>0, <3>1 DEF Worker
  <2> QED BY <1>1, <1>9, <2>1, <2>2, <2>3 DEF SaveIndex, SaveFails
<1>10. CASE c = Main /\ RunEnds
  <2>1. at'[c] = [at[c] EXCEPT !.pc = "store", !.op = "store"]
    BY <1>1, <1>10, BecomesIs DEF RunEnds
  <2>2. /\ at'[c].data = at[c].data /\ at'[c].meta = at[c].meta /\ at'[c].pc = "store"
        /\ at[c].op = "turn"
    BY <1>0, <1>10, <2>1 DEF Worker, RunEnds, Placed, MainAt
  <2> QED BY <2>2 DEF Reading
<1>11. CASE c = Main /\ AddMessage
  <2>1. /\ at[c].pc = "store" /\ at[c].data # None /\ turns' = turns + 1
        /\ Becomes(c, [at[c] EXCEPT !.pc = "create", !.data.msgs = Append(@, turns + 1)])
    BY <1>1, <1>3, <1>11 DEF AddMessage
  <2>2. at'[c] = [at[c] EXCEPT !.pc = "create", !.data.msgs = Append(@, turns + 1)]
    BY <2>1, BecomesIs
  <2>3. at[c].op = "store" /\ at[c].data \in Data
    BY <1>0, <1>11, <2>1 DEF Placed, MainAt, Worker
  <2>4. /\ at'[c].meta = at[c].meta /\ at'[c].op = at[c].op /\ at'[c].pc = "create"
        /\ at'[c].data = [at[c].data EXCEPT !.msgs = Append(@, turns + 1)]
    BY <1>0, <2>2 DEF Worker
  <2>5. at'[c].data.msgs = Append(at[c].data.msgs, turns + 1)
    BY <2>3, <2>4 DEF Data
  <2> QED BY <2>1, <2>3, <2>4, <2>5 DEF Reading
<1>12. CASE c = Main /\ Clear
  <2>1. at'[c] = [at[c] EXCEPT !.pc = "create", !.data = Empty]
    BY <1>12, BecomesIs DEF Clear
  <2>2. at'[c].meta = at[c].meta /\ at'[c].op = "clear" /\ at'[c].pc = "create"
    BY <1>0, <1>12, <2>1 DEF Worker, Clear, Placed, MainAt
  <2> QED BY <2>2 DEF Reading
<1>13. CASE c \in Loggers /\ AddInstruction(c)
  <2>1. Becomes(c, [at[c] EXCEPT !.pc = "create", !.data.instrs = @ \cup {c}])
    BY <1>1, <1>13, Zenon DEF AddInstruction
  <2>2. ASSUME NEW w, Becomes(c, w) PROVE at'[c] = w
    BY <2>2, BecomesIs
  <2>3. at'[c] = [at[c] EXCEPT !.pc = "create", !.data.instrs = @ \cup {c}]
    BY <2>1, <2>2, Zenon
  <2>4. at[c].op = "log" /\ at[c].data \in Data /\ at[c].data # None
    BY <1>0, <1>13, SessionAssumption DEF AddInstruction, Placed, LoggerAt, Worker
  <2>5. /\ at'[c].meta = at[c].meta /\ at'[c].op = at[c].op /\ at'[c].pc = "create"
        /\ at'[c].data = [at[c].data EXCEPT !.instrs = @ \cup {c}]
    BY <1>0, <2>3 DEF Worker
  <2>6. at'[c].data.msgs = at[c].data.msgs
    BY <2>4, <2>5 DEF Data
  <2> QED BY <2>4, <2>5, <2>6 DEF Reading
<1>14. ~(c = Main /\ \E k \in Keys : Turn(k) \/ ClearCommand(k)) /\ ~Log(c) /\ ~\E k \in Keys : Get(c, k)
  BY <1>2 DEF Turn, ClearCommand, Log, Get
<1>15. ~List(c) /\ ~GetMeta(c)
  <2>1. ASSUME NEW k, Becomes(c, [Resting EXCEPT !.pc = "getmeta", !.op = "meta", !.key = k])
        PROVE  FALSE
    <3>1. at'[c] = [Resting EXCEPT !.pc = "getmeta", !.op = "meta", !.key = k]
      BY <2>1, BecomesIs
    <3> QED BY <3>1 DEF Resting
  <2> QED BY <1>1, <1>4, <2>1 DEF List, GetMeta
<1> QED BY <1>5, <1>7, <1>8, <1>9, <1>10, <1>11, <1>12, <1>13, <1>14, <1>15 DEF Own

LEMMA UnreadStep ==
  ASSUME StagesInv, Unread, [Next]_vars
  PROVE  Unread'
<1> SUFFICES ASSUME NEW c \in Workers, at'[c].pc \in Reading, at'[c].data # None PROVE FALSE
  BY DEF Unread
<1>1. CASE Own(c)
  BY <1>1, DataSteps
<1>2. CASE Restart
  BY <1>2 DEF Restart, Resting
<1>3. CASE Renamed(at[c], at'[c])
  BY <1>3, StageFields, RenamedFields DEF Unread
<1> QED BY <1>1, <1>2, <1>3, OwnSteps

(* A turn counts when it is added, before the save.                        *)
LEMMA TurnsSteps == [Next]_vars => turns' = turns \/ at[Main].pc = "store"
BY DEF Next, Load, Save, MetaFind, MetaOpen, Install, DataFind, DataRead, SaveCreate, SaveWrite,
  SaveRename, SaveIndex, SaveFails, Turn, ClearCommand, Begin, RunEnds, AddMessage, Clear, Log,
  AddInstruction, List, GetMeta, Get, Delete, NextDay, Restart, vars, bounds

(* A save stores a message only while nobody else holds data.              *)
LEMMA StoredFor ==
  ASSUME StagesInv, OneWriter, Homed, [Next]_vars, NEW f \in Files \ overlapped,
         NEW c \in {Main} \cup Loggers, at[c].meta # None
  PROVE  \/ stored'[f] = stored[f] \/ stored'[f] = <<>>
         \/ c = Main /\ at[c].pc = "rename" /\ at'[c].pc = "index" /\ at'[c].data = None
<1>0. stored \in [Files -> Seq(Nat)] /\ c \in Workers /\ Main \in Workers
  BY DEF StagesInv, Base, CountersOK, Workers
<1>1. ASSUME NEW e \in Workers, SaveRename(e), File(e) = f, tmp[f][Day(e)] # None,
             at[e].op = "store"
      PROVE  c = Main /\ at[c].pc = "rename" /\ at'[c].pc = "index" /\ at'[c].data = None
  <2>1. at[e].pc = "rename" /\ at[e] \in Worker /\ Placed(e, at[e])
    BY <1>1, StageFields DEF SaveRename
  <2>2. e = Main
    BY <1>1, <2>1 DEF Placed, ViewerAt, LoggerAt, Workers
  <2>3. c \in Loggers => at[c].pc = "idle"
    BY <2>1, <2>2 DEF StagesInv, TurnWaits
  <2>4. at[c].pc # "idle"
    BY <1>0, StageFields DEF Placed, Resting
  <2>5. Path(e)[1] = File(e) /\ Path(e)[2] = Day(e)
    BY <1>1, <2>1, PathOpen DEF Path, File, Day, Open, Homed
  <2>6. at'[e] = [at[e] EXCEPT !.pc = "index", !.slot = "none", !.data = None]
    BY <1>1, <2>5, RenameDoes
  <2>7. at'[e].pc = "index" /\ at'[e].data = None
    BY <2>1, <2>6 DEF Worker
  <2> QED BY <2>1, <2>2, <2>3, <2>4, <2>7
<1>2. ASSUME NEW e \in Workers, SaveRename(e), File(e) = f, tmp[f][Day(e)] # None,
             at[e].op # "store"
      PROVE  stored'[f] = stored[f] \/ stored'[f] = <<>>
  BY <1>0, <1>2, RenameLeaves
<1>3. ASSUME NEW k \in Keys, Delete(k), FileOf[k] = f PROVE stored'[f] = <<>>
  BY <1>0, <1>3 DEF Delete
<1> QED BY <1>1, <1>2, <1>3, FilesStay

LEMMA KeptFile ==
  ASSUME PathInv, [Next]_vars, NEW f \in Files \ (astray \cup overlapped), KeptAt(f),
         stored'[f] # <<>>
  PROVE  \E d \in Days : disk'[f][d] # None /\ EndsIn(disk'[f][d].data.msgs, stored'[f])
<1> USE DEF PathInv, PlacesInv
<1>0. /\ stored \in [Files -> Seq(Nat)] /\ disk \in [Files -> [Folders -> Content \cup {None}]]
      /\ turns \in Nat
  BY DEF StagesInv, Base, CountersOK, FilesOK
<1>1. ASSUME NEW c \in Workers, SaveRename(c), File(c) = f, tmp[f][Day(c)] # None
      PROVE  \E d \in Days : disk'[f][d] # None /\ EndsIn(disk'[f][d].data.msgs, stored'[f])
  <2> DEFINE d == Day(c)
  <2>1. /\ d \in Days /\ d \in Folders /\ Open(c, f, d)
        /\ disk' = [disk EXCEPT ![f][d] = tmp[f][d]]
        /\ stored' = [stored EXCEPT ![f] = IF at[c].op = "clear" THEN <<>>
                                          ELSE IF at[c].op = "store" THEN Append(@, turns)
                                          ELSE @]
    BY <1>1, RenameLeaves, Bounds
  <2>2. tmp[f][d] = WrittenBy(at[c])
    BY <1>1, <2>1 DEF WholeInv, OneWriter, SaveRename
  <2>3. disk'[f][d] # None /\ disk'[f][d].data = at[c].data
    BY <1>0, <1>1, <2>1, <2>2 DEF WrittenBy
  <2>4. /\ at[c].pc \in Saving /\ c \in {Main} \cup Loggers /\ at[c].meta # None
        /\ FileOf[at[c].meta.key] = f /\ at[c].data \in Data /\ at[c].data # None
    <3>1. at[c].pc = "rename" /\ at[c] \in Worker /\ Placed(c, at[c])
      BY <1>1, StageFields DEF SaveRename
    <3>2. at[c].data # None /\ at[c].data \in Data \cup {None}
      BY <3>1 DEF Placed, Worker
    <3> QED BY <1>1, <3>1, <3>2, Saver, SessionAssumption DEF Saving, File
  <2>5. Holds(at[c], stored[f])
    BY <2>4 DEF KeptAt
  <2>6. at[c].op # "clear"
    BY <1>0, <2>1
  <2>7. CASE at[c].op = "store"
    <3>1. PICK t \in Seq(Nat) : at[c].data.msgs = Append(t, turns) /\ EndsIn(t, stored[f])
      BY <2>4, <2>5, <2>7 DEF Holds
    <3>2. stored'[f] = Append(stored[f], turns)
      BY <1>0, <2>1, <2>7
    <3>3. stored[f] \in Seq(Nat)
      BY <1>0
    <3>4. EndsIn(at[c].data.msgs, stored'[f])
      BY <1>0, <3>1, <3>2, <3>3, EndsInAppend
    <3> QED BY <2>1, <2>3, <3>4
  <2>8. CASE at[c].op # "store"
    <3>1. stored'[f] = stored[f]
      BY <1>0, <2>1, <2>6, <2>8
    <3>2. EndsIn(at[c].data.msgs, stored[f])
      BY <2>4, <2>5, <2>6, <2>8 DEF Holds
    <3> QED BY <2>1, <2>3, <3>1, <3>2
  <2> QED BY <2>7, <2>8
<1>2. ~\E k \in Keys : Delete(k) /\ FileOf[k] = f
  BY <1>0 DEF Delete
<1>3. CASE \A c \in Workers : ~(SaveRename(c) /\ File(c) = f /\ tmp[f][Day(c)] # None)
  <2>1. (\A d \in Folders : disk'[f][d] = disk[f][d]) /\ stored'[f] = stored[f]
    BY <1>2, <1>3, FilesStay DEF WholeInv
  <2>2. \A d \in Days : disk'[f][d] = disk[f][d]
    BY <2>1, Bounds
  <2> QED BY <2>1, <2>2 DEF KeptAt
<1> QED BY <1>1, <1>3

(* What somebody loads of such a session.                                  *)
LEMMA LoadsStored ==
  ASSUME PathInv, NEW f \in Files \ (astray \cup overlapped), KeptAt(f), NEW d \in Days,
         disk[f][d] # None
  PROVE  EndsIn(disk[f][d].data.msgs, stored[f])
<1>1. disk[f][d] \in Content /\ stored[f] \in Seq(Nat)
  BY Bounds DEF PathInv, StagesInv, Base, FilesOK, CountersOK
<1>2. CASE stored[f] = <<>>
  <2>1. disk[f][d].data.msgs \in Seq(Nat)
    BY <1>1 DEF Content, Data
  <2> QED BY <1>2, <2>1, EndsInEmpty
<1>3. CASE stored[f] # <<>>
  <2>1. PICK e \in Days : disk[f][e] # None /\ EndsIn(disk[f][e].data.msgs, stored[f])
    BY <1>3 DEF KeptAt
  <2>2. e = d
    BY <2>1, DatedDays DEF PathInv, PlacesInv, OneDay, Dated
  <2> QED BY <2>1, <2>2
<1> QED BY <1>2, <1>3

LEMMA KeptHolds ==
  ASSUME PathInv, Unread, [Next]_vars, NEW f \in Files \ (astray \cup overlapped), KeptAt(f),
         NEW c \in {Main} \cup Loggers, at'[c].meta # None, FileOf[at'[c].meta.key] = f
  PROVE  Holds(at[c], stored[f])'
<1> USE DEF PathInv, PlacesInv
<1>0. /\ stored[f] \in Seq(Nat) /\ turns \in Nat /\ c \in Workers /\ StagesInv'
      /\ at[c] \in Worker /\ Placed(c, at[c])
  BY StageFields, StagesStep DEF StagesInv, Base, CountersOK, Workers
<1> SUFFICES ASSUME at'[c].data # None, at'[c].op # "clear"
             PROVE  IF at'[c].op = "store" /\ at'[c].pc \in Saving
                    THEN \E t \in Seq(Nat) : at'[c].data.msgs = Append(t, turns') /\ EndsIn(t, stored'[f])
                    ELSE EndsIn(at'[c].data.msgs, stored'[f])
  BY DEF Holds
<1>1. at'[c].meta = at[c].meta
  <2>1. CASE Own(c)
    BY <1>0, <2>1, DataSteps
  <2>2. CASE Renamed(at[c], at'[c])
    BY <1>0, <2>2, RenamedFields
  <2>3. CASE Restart
    BY <1>0, <2>3 DEF Restart, Resting
  <2> QED BY <1>0, <2>1, <2>2, <2>3, OwnSteps
<1>2. Holds(at[c], stored[f]) /\ at[c].meta # None /\ FileOf[at[c].meta.key] = f
  BY <1>1 DEF KeptAt
<1>3. stored'[f] = stored[f] \/ stored'[f] = <<>>
  BY <1>2, StoredFor DEF WholeInv
<1>4. \A t \in Seq(Nat) : EndsIn(t, stored[f]) => EndsIn(t, stored'[f])
  BY <1>3, EndsInEmpty
<1>5. ASSUME at'[c].data = at[c].data, at'[c].op = at[c].op, turns' = turns \/ at'[c].op # "store",
             at'[c].pc \in Saving <=> at[c].pc \in Saving
      PROVE  IF at'[c].op = "store" /\ at'[c].pc \in Saving
             THEN \E t \in Seq(Nat) : at'[c].data.msgs = Append(t, turns') /\ EndsIn(t, stored'[f])
             ELSE EndsIn(at'[c].data.msgs, stored'[f])
  <2>1. at[c].data.msgs \in Seq(Nat)
    BY <1>0, <1>5 DEF Worker, Data
  <2> QED BY <1>2, <1>4, <1>5, <2>1 DEF Holds
<1>6. CASE Renamed(at[c], at'[c])
  <2>1. at'[c].data = at[c].data /\ at'[c].op = at[c].op /\ at'[c].pc = at[c].pc
    BY <1>0, <1>6, RenamedFields
  <2>2. CASE turns' = turns \/ at'[c].op # "store" \/ at'[c].pc \notin Saving
    <3>1. at[c].data.msgs \in Seq(Nat)
      BY <1>0, <2>1 DEF Worker, Data
    <3> QED BY <1>2, <1>4, <2>1, <2>2, <3>1 DEF Holds
  <2>3. CASE turns' # turns /\ at'[c].op = "store" /\ at'[c].pc \in Saving
    <3>1. at[Main].pc = "store"
      BY <2>3, TurnsSteps
    <3>2. c = Main
      BY <1>0, <2>1, <2>3 DEF Placed, LoggerAt, Saving
    <3> QED BY <2>1, <2>3, <3>1, <3>2 DEF Saving
  <2> QED BY <2>2, <2>3
<1>7. CASE Restart
  BY <1>0, <1>7 DEF Restart, Resting
<1>8. CASE Own(c)
  <2>1. CASE /\ at'[c].data = at[c].data /\ at'[c].op = at[c].op /\ turns' = turns
             /\ at[c].pc \in Saving /\ at'[c].pc \in Saving
    BY <1>5, <2>1
  <2>2. CASE at'[c].data = at[c].data /\ at[c].op = "turn" /\ at'[c].pc = "store"
    <3>1. at[c].data.msgs \in Seq(Nat)
      BY <1>0, <2>2 DEF Worker, Data
    <3> QED BY <1>2, <1>4, <2>2, <3>1 DEF Holds, Saving
  <2>3. CASE /\ at[c].pc = "store" /\ at[c].op = "store" /\ at[c].data # None /\ turns' = turns + 1
             /\ at'[c].op = "store" /\ at'[c].pc = "create"
             /\ at'[c].data.msgs = Append(at[c].data.msgs, turns + 1)
    <3>1. at[c].data.msgs \in Seq(Nat)
      BY <1>0, <2>3 DEF Worker, Data
    <3>2. EndsIn(at[c].data.msgs, stored'[f])
      BY <1>2, <1>4, <2>3, <3>1 DEF Holds, Saving
    <3> QED BY <2>3, <3>1, <3>2 DEF Saving
  <2>4. CASE /\ at[c].op = "log" /\ at'[c].op = "log" /\ at[c].data # None
             /\ at'[c].data.msgs = at[c].data.msgs
    <3>1. at[c].data.msgs \in Seq(Nat)
      BY <1>0, <2>4 DEF Worker, Data
    <3> QED BY <1>2, <1>4, <2>4, <3>1 DEF Holds
  <2>5. CASE /\ at[c].pc = "find" /\ Located(at[c].meta.key) = {} /\ at'[c].data = Empty
             /\ at'[c].pc \notin Saving
    <3>1. stored[f] = <<>>
      <4>1. ASSUME NEW d \in Days, disk[f][d] # None PROVE FALSE
        BY <1>0, <1>2, <2>5, <4>1, OneFile, StageFields
      <4> QED BY <4>1 DEF KeptAt
    <3>2. stored'[f] = <<>> /\ at'[c].data.msgs = <<>> /\ <<>> \in Seq(Nat)
      BY <1>3, <2>5, <3>1 DEF Empty
    <3>3. EndsIn(at'[c].data.msgs, stored'[f])
      BY <3>2, EndsInEmpty
    <3> QED BY <2>5, <3>3
  <2>6. CASE /\ at[c].pc = "read" /\ at'[c].pc \notin Saving
             /\ LET file == disk[FileOf[at[c].meta.key]][at[c].folder] IN
                  IF file = None THEN at'[c].data = Empty ELSE file.whole => at'[c].data = file.data
    <3> DEFINE i == at[c].folder
    <3>1. i \in Folders /\ disk[f][i] \in Content \cup {None}
      BY <1>0 DEF Worker, StagesInv, Base, FilesOK
    <3>2. CASE disk[f][i] = None
      <4>1. stored'[f] = <<>> /\ at'[c].data.msgs = <<>> /\ <<>> \in Seq(Nat)
        BY <1>2, <1>3, <2>6, <3>2 DEF KeptAt, Empty
      <4>2. EndsIn(at'[c].data.msgs, stored'[f])
        BY <4>1, EndsInEmpty
      <4> QED BY <2>6, <4>2
    <3>3. CASE disk[f][i] # None
      <4>1. disk[f][i].whole
        BY <3>1, <3>3 DEF WholeInv, Whole
      <4>2. at'[c].data = disk[f][i].data /\ disk[f][i].data.msgs \in Seq(Nat)
        BY <1>2, <2>6, <3>1, <3>3, <4>1 DEF Content, Data
      <4>3. EndsIn(disk[f][i].data.msgs, stored[f])
        <5>1. CASE stored[f] = <<>>
          BY <4>2, <5>1, EndsInEmpty
        <5>2. CASE stored[f] # <<>>
          BY <1>2, <2>6, <3>3, <5>2, LoadsStored DEF KeptAt
        <5> QED BY <5>1, <5>2
      <4> QED BY <1>4, <2>6, <4>2, <4>3
    <3> QED BY <3>2, <3>3
  <2> QED BY <1>0, <1>8, <2>1, <2>2, <2>3, <2>4, <2>5, <2>6, DataSteps
<1> QED BY <1>0, <1>6, <1>7, <1>8, OwnSteps

LEMMA KeptRead ==
  ASSUME PathInv, [Next]_vars, NEW f \in Files \ (astray \cup overlapped), KeptAt(f),
         NEW c \in {Main} \cup Loggers, at'[c].meta # None, FileOf[at'[c].meta.key] = f,
         at'[c].pc = "read", stored'[f] # <<>>
  PROVE  at'[c].folder \in Days /\ disk'[f][at'[c].folder] # None
<1> USE DEF PathInv, PlacesInv
<1>0. c \in Workers /\ at[c] \in Worker /\ Placed(c, at[c]) /\ stored \in [Files -> Seq(Nat)]
  BY StageFields DEF Workers, StagesInv, Base, CountersOK
<1>1. CASE Renamed(at[c], at'[c])
  <2>1. at'[c].meta = at[c].meta /\ at'[c].pc = at[c].pc /\ at'[c].folder = at[c].folder
    BY <1>0, <1>1, RenamedFields
  <2>2. stored'[f] = stored[f]
    BY <2>1, StoredFor DEF WholeInv
  <2>3. at[c].folder \in Days /\ disk[f][at[c].folder] # None
    BY <2>1, <2>2 DEF KeptAt
  <2>4. ~\E k \in Keys : Delete(k) /\ FileOf[k] = f
    BY <1>0 DEF Delete
  <2>5. disk'[f][at[c].folder] # None
    <3>1. CASE disk'[f][at[c].folder] = disk[f][at[c].folder]
      BY <2>3, <3>1
    <3>2. CASE disk'[f][at[c].folder] # disk[f][at[c].folder]
      <4>1. at[c].folder \in Folders
        BY <2>3, Bounds
      <4>2. ASSUME NEW e \in Workers, SaveWrite(e), NEW whole \in BOOLEAN
            PROVE  Written(e, at[e].data, whole) # None
        <5>1. at[e].data \in Data /\ at[e].pc = "write"
          BY <4>2, StageFields DEF SaveWrite, Placed, Worker
        <5>2. Written(e, at[e].data, whole) \in Content
          BY <5>1, WrittenType DEF StagesInv
        <5> QED BY <5>2, SessionAssumption
      <4> QED BY <2>4, <3>2, <4>1, <4>2, DiskChanges
    <3> QED BY <3>1, <3>2
  <2> QED BY <2>1, <2>3, <2>5
<1>2. CASE Restart
  BY <1>0, <1>2 DEF Restart, Resting
<1>3. CASE Own(c)
  <2>1. \A i : [at[c] EXCEPT !.pc = "open", !.folder = i].pc = "open"
    BY <1>0 DEF Worker
  <2>2. /\ DataFind(c) /\ Located(at[c].meta.key) # {}
        /\ at'[c] = [at[c] EXCEPT !.pc = "read", !.folder = Min(Located(at[c].meta.key))]
    BY <1>0, <1>3, <2>1, StageAfter DEF Looked
  <2>3. at'[c].meta = at[c].meta /\ at'[c].folder = Min(Located(at[c].meta.key))
    BY <1>0, <2>2 DEF Worker
  <2>4. disk' = disk /\ stored' = stored
    BY <2>2 DEF DataFind, fileVars, histVars
  <2>5. PICK d \in Days : disk[f][d] # None
    BY <2>4 DEF KeptAt
  <2>6. Min(Located(at[c].meta.key)) = d
    BY <1>0, <2>3, <2>5, OneFile, StageFields
  <2> QED BY <2>3, <2>4, <2>5, <2>6
<1> QED BY <1>0, <1>1, <1>2, <1>3, OwnSteps

LEMMA KeptStep ==
  ASSUME PathInv, Unread, Kept, [Next]_vars
  PROVE  Kept'
<1> SUFFICES ASSUME NEW f \in Files \ (astray' \cup overlapped') PROVE KeptAt(f)'
  BY DEF Kept
<1>0. f \in Files \ (astray \cup overlapped) /\ KeptAt(f)
  BY HistorySteps DEF Kept
<1>1. stored'[f] # <<>> =>
        \E d \in Days : disk'[f][d] # None /\ EndsIn(disk'[f][d].data.msgs, stored'[f])
  BY <1>0, KeptFile
<1>2. ASSUME NEW c \in {Main} \cup Loggers, at'[c].meta # None, FileOf[at'[c].meta.key] = f
      PROVE  /\ Holds(at[c], stored[f])'
             /\ at'[c].pc = "read" /\ stored'[f] # <<>> =>
                  at'[c].folder \in Days /\ disk'[f][at'[c].folder] # None
  BY <1>0, <1>2, KeptHolds, KeptRead
<1> QED BY <1>1, <1>2 DEF KeptAt

LEMMA InitKept == Init => Unread /\ Kept
<1> SUFFICES ASSUME Init PROVE Unread /\ Kept
  OBVIOUS
<1>1. \A c \in Workers : at[c].meta = None /\ at[c].data = None
  BY DEF Init, Resting
<1>2. \A f \in Files : stored[f] = <<>>
  BY DEF Init
<1> QED BY <1>1, <1>2 DEF Unread, Kept, KeptAt, Workers

(* What anybody loads of a session, in either spelling and on any day, and *)
(* after any crash, ends in all the messages stored since the session was  *)
(* last cleared or deleted, in their order: no save drops one, however     *)
(* stale the object it works with.  Not so for a session that has metadata *)
(* of two days, or a file that two saves had open.                         *)
THEOREM MessagesKept == Spec => []HistoryKept
<1>1. Init => PathInv /\ Unread /\ Kept
  BY InitPath, InitKept
<1>2. PathInv /\ Unread /\ Kept /\ [Next]_vars => (PathInv /\ Unread /\ Kept)'
  BY PathStep, UnreadStep, KeptStep DEF PathInv
<1>3. PathInv /\ Kept => HistoryKept
  <2> SUFFICES ASSUME PathInv, Kept, NEW k \in Keys, FileOf[k] \notin astray \cup overlapped,
                      stored[FileOf[k]] # <<>>
               PROVE  LET file == Seen(FileOf[k], Located(k)) IN
                        file # None /\ IsSuffix(stored[FileOf[k]], file.data.msgs)
    BY DEF HistoryKept
  <2> DEFINE f == FileOf[k]
  <2>1. f \in Files /\ KeptAt(f) /\ stored[f] \in Seq(Nat)
    BY SessionAssumption DEF Kept, PathInv, StagesInv, Base, CountersOK
  <2>2. PICK d \in Days : disk[f][d] # None /\ EndsIn(disk[f][d].data.msgs, stored[f])
    BY <2>1 DEF KeptAt
  <2>3. Located(k) # {} /\ Min(Located(k)) = d
    BY <2>1, <2>2, OneFile DEF PathInv, PlacesInv
  <2>4. Seen(f, Located(k)) = disk[f][d]
    BY <2>3 DEF Seen
  <2>5. disk[f][d].data.msgs \in Seq(Nat)
    <3>1. disk \in [Files -> [Folders -> Content \cup {None}]]
      BY DEF PathInv, StagesInv, Base, FilesOK
    <3>2. f \in Files /\ d \in Folders /\ disk[f][d] # None
      BY <2>1, <2>2, Bounds
    <3>3. disk[f][d] \in Content
      BY <3>1, <3>2
    <3> QED BY <3>3 DEF Content, Data
  <2>6. IsSuffix(stored[f], disk[f][d].data.msgs)
    BY <2>1, <2>2, <2>5, EndsInSuffix
  <2> QED BY <2>2, <2>4, <2>6
<1> QED BY <1>1, <1>2, <1>3, PTL DEF Spec
=============================================================================
