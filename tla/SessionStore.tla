---------------------------- MODULE SessionStore ----------------------------
(***************************************************************************)
(* The session manager (src/session/manager.go, session.go) with its       *)
(* callers: the agent manager's goroutine (a turn, or /clear), the         *)
(* instruction loggers of the agents at work inside a turn, and the web    *)
(* handlers that read, list and delete sessions.                           *)
(*                                                                         *)
(* A session is one file, named by its key with the special characters     *)
(* replaced, in the folder of the day it was created; files of older       *)
(* versions lie in the root folder, day 0.  Every caller gets a Session    *)
(* object of its own, which loads the file when first used.  Save writes a *)
(* temporary file and renames it; two saves at once share that file.       *)
(*                                                                         *)
(* The caches are guarded by m.mu and each critical section is one step,   *)
(* as is each file-system call; a search of the folders records what it    *)
(* found in the same step.  A message is the number of the turn that       *)
(* produced it, an instruction is the agent it belongs to.  Counts and     *)
(* timestamps are left out, and so is dataCache, which is never read.      *)
(***************************************************************************)
EXTENDS Naturals, FiniteSetsExt, SequencesExt

CONSTANTS
  Main,        \* the agent manager's goroutine
  Loggers,     \* the sub-agents of a turn, each with its instruction logger
  Viewers,     \* the goroutines of web connections
  Files,       \* the names sanitizeKey produces
  Keys,        \* session keys
  FileOf,      \* sanitizeKey
  Stems,       \* the keys that are file names already
  None,        \* no file, no entry, nothing loaded
  MaxDay, MaxTurns, MaxIncidents  \* bounds

Workers == {Main} \cup Loggers \cup Viewers

Days    == 1..MaxDay
Folders == 0..MaxDay

(* A file: its header (no key and day 0 when it has none), its lines, and  *)
(* whether it is complete.                                                 *)
Data    == [msgs : Seq(Nat), instrs : SUBSET Loggers]
Meta    == [key : Keys, created : Days]
Content == [key : Keys \cup {None}, created : Folders, data : Data, whole : BOOLEAN]
Empty   == [msgs |-> <<>>, instrs |-> {}]

ASSUME SessionAssumption ==
  /\ Main \notin Loggers \cup Viewers /\ Loggers \cap Viewers = {}
  /\ FileOf \in [Keys -> Files] /\ Stems \subseteq Keys
  /\ \A k, l \in Stems : FileOf[k] = FileOf[l] => k = l
  /\ MaxDay \in Nat \ {0} /\ MaxTurns \in Nat /\ MaxIncidents \in Nat
  /\ None \notin Keys /\ None \notin Meta /\ None \notin Data /\ None \notin Content

VARIABLES
  today,
  disk, tmp,  \* each file in each folder, and its temporary file
  metaCache,  \* m.metaCache
  dateIndex,  \* m.dateIndex, 0 for no entry
  at,         \* where each goroutine is and what it works with, see Resting
  turns,      \* how many turns were stored
  incidents,  \* how many crashes, web requests, /clears and sub-agents side
              \* by side there were
  last,       \* history: what the latest save or Delete left of each file
  stored,     \* history: the messages stored in it since it was last deleted
              \* or cleared
  deleted,    \* history: the files Delete was called for
  respelled,  \* history: the files /clear was called for, in its own spelling
  astray,     \* history: the files given metadata of a second day, see DaysOf
  overlapped  \* history: the files two saves had open at the same time

fileVars  == <<disk, tmp>>
cacheVars == <<metaCache, dateIndex>>
bounds    == <<turns, incidents>>
callVars  == <<deleted, respelled>>
histVars  == <<last, stored, callVars, astray, overlapped>>
vars == <<today, fileVars, cacheVars, at, bounds, histVars>>

(* A file of an older version: with a header that gives its day but no     *)
(* key, or without a header.                                               *)
Old(d) == [key |-> None, created |-> d, whole |-> TRUE,
           data |-> [msgs |-> <<0>>, instrs |-> {}]]

(* A goroutine between operations.  In one it has the key it was given,    *)
(* its Session object (meta and data), the folder of the file it reads or  *)
(* writes, and whether its open file is the temporary, the final or an     *)
(* unlinked one.                                                           *)
Resting == [pc |-> "idle", op |-> "none", key |-> None, meta |-> None, data |-> None,
            folder |-> 0, slot |-> "none"]

Init ==
  /\ today = 1
  /\ \E first \in [Files -> {None, Old(0), Old(1)}] :
       disk = [f \in Files |-> [d \in Folders |-> IF d = 0 THEN first[f] ELSE None]]
  /\ tmp = [f \in Files |-> [d \in Folders |-> None]]
  /\ metaCache = [k \in Keys |-> None] /\ dateIndex = [k \in Keys |-> 0]
  /\ at = [c \in Workers |-> Resting]
  /\ turns = 0 /\ incidents = 0
  /\ last = [f \in Files |-> disk[f][0]] /\ stored = [f \in Files |-> <<>>]
  /\ deleted = {} /\ respelled = {} /\ astray = {} /\ overlapped = {}

Becomes(c, state) == at' = [at EXCEPT ![c] = state]
GoTo(c, l) == Becomes(c, [at[c] EXCEPT !.pc = l])
Done(c) == Becomes(c, Resting)
Idle(C) == \A c \in C : at[c] = Resting

-----------------------------------------------------------------------------
(* Looking files up.                                                       *)
Dated(f) == {d \in Days : disk[f][d] # None}

(* findSessionFile: the first dated folder, then the root.                 *)
Found(f) == IF Dated(f) # {} THEN Dated(f)
            ELSE IF disk[f][0] # None THEN {0} ELSE {}

(* Mutant: without an index entry only the root is searched.               *)
LocatedRootOnly(k) == IF dateIndex[k] # 0 THEN {dateIndex[k]}
                      ELSE {d \in {0} : disk[FileOf[k]][d] # None}

(* The index if it has an entry, else a search, whose result is recorded.  *)
Located(k) == IF dateIndex[k] # 0 THEN {dateIndex[k]} ELSE Found(FileOf[k])

Remember(k, d) == dateIndex' = IF d = 0 THEN dateIndex ELSE [dateIndex EXCEPT ![k] = d]

(* GetOrCreate, first part: the cache.                                     *)
Begin(c, op, k) ==
  /\ at[c].pc = "idle"
  /\ Becomes(c, [Resting EXCEPT !.op = op, !.key = k, !.meta = metaCache[k],
                                !.pc = IF metaCache[k] # None THEN "find" ELSE "lookup"])
  /\ UNCHANGED <<today, fileVars, cacheVars, turns, last, stored, deleted, astray, overlapped>>

NewMeta(k) == [key |-> k, created |-> today]
Header(k, file) == [key |-> IF file.key = None THEN k ELSE file.key,
                    created |-> IF file.created = 0 THEN today ELSE file.created]

(* A file that is not there: GetOrCreate makes a new session, GetMeta      *)
(* fails.                                                                  *)
NotThere(c) ==
  IF at[c].op = "meta" THEN Done(c)
  ELSE Becomes(c, [at[c] EXCEPT !.pc = "install", !.meta = NewMeta(at[c].key)])

(* loadMetaOnly: find the file.                                            *)
MetaFind(c) ==
  /\ at[c].pc = "lookup"
  /\ LET k == at[c].key  places == Located(k) IN
       IF places = {}
       THEN NotThere(c) /\ UNCHANGED dateIndex
       ELSE /\ Becomes(c, [at[c] EXCEPT !.pc = "open", !.folder = Min(places)])
            /\ Remember(k, Min(places))
  /\ UNCHANGED <<today, fileVars, metaCache, bounds, histVars>>

(* Open it and decode its first line, which in a torn file may fail.       *)
MetaOpen(c) ==
  /\ at[c].pc = "open"
  /\ LET k == at[c].key  file == disk[FileOf[k]][at[c].folder] IN
       IF file = None
       THEN NotThere(c)
       ELSE \/ Becomes(c, [at[c] EXCEPT !.pc = "install", !.meta = Header(k, file)])
            \/ ~file.whole /\ Done(c)
  /\ UNCHANGED <<today, fileVars, cacheVars, bounds, histVars>>

(* The days a session is known by: those of its dated files, of its        *)
(* entries in the caches, of the header of an old file, and of the         *)
(* metadata with which somebody is at work who may save it.                *)
Knows(c, f, d) == /\ at[c].meta # None /\ at[c].pc # "install"
                  /\ FileOf[at[c].meta.key] = f /\ at[c].meta.created = d
DaysOf(f) == {d \in Days :
  \/ disk[f][d] # None
  \/ \E k \in Keys : /\ FileOf[k] = f
                     /\ \/ dateIndex[k] = d
                        \/ metaCache[k] # None /\ metaCache[k].created = d
  \/ disk[f][0] # None /\ disk[f][0].created = d
  \/ \E c \in {Main} \cup Loggers : Knows(c, f, d)}

(* Enter the metadata into the cache: GetOrCreate looks again first,       *)
(* GetMeta does not.                                                       *)
Install(c) ==
  /\ at[c].pc = "install"
  /\ LET k == at[c].key  f == FileOf[k]
         m == IF at[c].op # "meta" /\ metaCache[k] # None THEN metaCache[k] ELSE at[c].meta IN
       /\ metaCache' = [metaCache EXCEPT ![k] = m]
       /\ IF at[c].op = "meta" THEN Done(c)
          ELSE Becomes(c, [at[c] EXCEPT !.pc = "find", !.meta = m])
       /\ astray' = IF DaysOf(f) \subseteq {m.created} THEN astray ELSE astray \cup {f}
  /\ UNCHANGED <<today, fileVars, dateIndex, bounds, last, stored, callVars, overlapped>>

NextStage == [turn |-> "prompt", store |-> "store", log |-> "add", clear |-> "wipe"]

(* Where a caller goes on with its data loaded; session.get is done.       *)
Loaded(c, d, folder) ==
  IF at[c].op = "get" THEN Done(c)
  ELSE Becomes(c, [at[c] EXCEPT !.pc = NextStage[at[c].op], !.data = d, !.folder = folder])

(* Loading failed: a turn goes on without history, AddInstruction adds     *)
(* nothing, Clear and Save do nothing.                                     *)
LoadFailed(c) ==
  IF at[c].op \in {"turn", "store"} THEN GoTo(c, NextStage[at[c].op]) ELSE Done(c)

(* loadFullData, through ensureDataLoaded, under the key in the metadata.  *)
DataFind(c) ==
  /\ at[c].pc = "find"
  /\ LET k == at[c].meta.key  places == Located(k) IN
       IF places = {}
       THEN Loaded(c, Empty, 0) /\ UNCHANGED dateIndex
       ELSE /\ Becomes(c, [at[c] EXCEPT !.pc = "read", !.folder = Min(places)])
            /\ Remember(k, Min(places))
  /\ UNCHANGED <<today, fileVars, metaCache, bounds, histVars>>

(* A file that cannot be opened counts as empty.  A torn one may stop the  *)
(* decoder, or end where a line ends and pass for a shorter one.           *)
DataRead(c) ==
  /\ at[c].pc = "read"
  /\ LET file == disk[FileOf[at[c].meta.key]][at[c].folder] IN
       IF file = None THEN Loaded(c, Empty, 0)
       ELSE \/ Loaded(c, IF file.whole THEN file.data ELSE Empty, 0)
            \/ ~file.whole /\ LoadFailed(c)
  /\ UNCHANGED <<today, fileVars, cacheVars, bounds, histVars>>

-----------------------------------------------------------------------------
(* The callers.                                                            *)

(* handleInboundMessage: a turn begins by loading the session.             *)
Turn(k) ==
  k \in Stems /\ Begin(Main, "turn", k) /\ UNCHANGED <<respelled, incidents>>

(* The instruction logger of an agent that starts within the turn, where   *)
(* sub-agents may run side by side; the agent goes on when it is done.     *)
Log(l) ==
  /\ at[Main].pc = "prompt"
  /\ \/ Idle(Loggers) /\ UNCHANGED incidents
     \/ ~Idle(Loggers) /\ incidents < MaxIncidents /\ incidents' = incidents + 1
  /\ Begin(l, "log", at[Main].key) /\ UNCHANGED respelled

AddInstruction(l) ==
  /\ at[l].pc = "add"
  /\ IF l \in at[l].data.instrs
     THEN Done(l)
     ELSE Becomes(l, [at[l] EXCEPT !.pc = "create", !.data.instrs = @ \cup {l}])
  /\ UNCHANGED <<today, fileVars, cacheVars, bounds, histVars>>

(* The run ends, with an error or with messages to store.                  *)
RunEnds ==
  /\ at[Main].pc = "prompt" /\ Idle(Loggers)
  /\ \/ Done(Main)
     \/ turns < MaxTurns /\ Becomes(Main, [at[Main] EXCEPT !.pc = "store", !.op = "store"])
  /\ UNCHANGED <<today, fileVars, cacheVars, bounds, histVars>>

(* AddMessage; without data each call first tries to load it again.        *)
AddMessage ==
  /\ at[Main].pc = "store"
  /\ IF at[Main].data # None
     THEN /\ turns' = turns + 1
          /\ Becomes(Main, [at[Main] EXCEPT !.pc = "create",
                                            !.data.msgs = Append(@, turns + 1)])
     ELSE /\ GoTo(Main, "find") \/ Done(Main)
          /\ UNCHANGED turns
  /\ UNCHANGED <<today, fileVars, cacheVars, incidents, histVars>>

(* The /clear command, which spells the key with colons.                   *)
ClearCommand(k) ==
  /\ k \in Keys \ Stems /\ incidents < MaxIncidents
  /\ Begin(Main, "clear", k)
  /\ incidents' = incidents + 1
  /\ respelled' = respelled \cup {FileOf[k]}

Clear ==
  /\ at[Main].pc = "wipe"
  /\ Becomes(Main, [at[Main] EXCEPT !.pc = "create", !.data = Empty])
  /\ UNCHANGED <<today, fileVars, cacheVars, bounds, histVars>>

(* session.get.                                                            *)
Get(v, k) ==
  /\ k \in Stems /\ incidents < MaxIncidents
  /\ Begin(v, "get", k)
  /\ incidents' = incidents + 1 /\ UNCHANGED respelled

(* session.list: List indexes every file it sees under its file name, the  *)
(* latest folder last; GetMeta then runs for each, here for any one of     *)
(* them.                                                                   *)
List(v) ==
  /\ at[v].pc = "idle" /\ incidents < MaxIncidents
  /\ incidents' = incidents + 1
  /\ dateIndex' = [k \in Keys |-> IF k \in Stems /\ Dated(FileOf[k]) # {}
                                  THEN Max(Dated(FileOf[k])) ELSE dateIndex[k]]
  /\ \E k \in Stems :
       /\ Found(FileOf[k]) # {}
       /\ Becomes(v, [Resting EXCEPT !.pc = "getmeta", !.op = "meta", !.key = k])
  /\ UNCHANGED <<today, fileVars, metaCache, turns, histVars>>

GetMeta(v) ==
  /\ at[v].pc = "getmeta"
  /\ IF metaCache[at[v].key] # None THEN Done(v) ELSE GoTo(v, "lookup")
  /\ UNCHANGED <<today, fileVars, cacheVars, bounds, histVars>>

(* session.delete: the file the index names if that succeeds, else the     *)
(* first dated one, else the one in the root; one file at most.            *)
Victim(k) ==
  IF dateIndex[k] # 0 /\ disk[FileOf[k]][dateIndex[k]] # None
  THEN {dateIndex[k]} ELSE Found(FileOf[k])

(* The writers of a file, and what becomes of their open file when its     *)
(* name is taken away: it lives on for them only.                          *)
Open(c, f, d) == at[c].slot # "none" /\ FileOf[at[c].meta.key] = f /\ at[c].folder = d
Unlink(c, f, d) == IF Open(c, f, d) /\ at[c].slot = "fin"
                   THEN [at[c] EXCEPT !.slot = "gone"] ELSE at[c]

Delete(k) ==
  /\ k \in Stems /\ incidents < MaxIncidents
  /\ incidents' = incidents + 1
  /\ metaCache' = [metaCache EXCEPT ![k] = None]
  /\ dateIndex' = [dateIndex EXCEPT ![k] = 0]
  /\ deleted' = deleted \cup {FileOf[k]}
  /\ last' = [last EXCEPT ![FileOf[k]] = None]
  /\ stored' = [stored EXCEPT ![FileOf[k]] = <<>>]
  /\ IF Victim(k) = {} THEN UNCHANGED <<disk, at>>
     ELSE LET f == FileOf[k]  d == Min(Victim(k)) IN
            /\ disk' = [disk EXCEPT ![f][d] = None]
            /\ at' = [c \in Workers |-> Unlink(c, f, d)]
  /\ UNCHANGED <<today, tmp, turns, respelled, astray, overlapped>>

-----------------------------------------------------------------------------
(* Save.                                                                   *)
Path(c) == <<FileOf[at[c].meta.key], at[c].folder>>
Sharing(c, f, d) == {e \in Workers \ {c} : Open(e, f, d)}
Written(c, d, whole) == [key |-> at[c].meta.key, created |-> at[c].meta.created,
                         data |-> d, whole |-> whole]

(* Mutant: the folder of the day it is saved.                              *)
SaveFolderToday(c) == today

(* The file goes to the folder of the day the session was created.         *)
SaveFolder(c) == at[c].meta.created

(* Mutant: the file is written in place.                                   *)
SaveCreateInPlace(c) ==
  /\ at[c].pc = "create"
  /\ LET f == FileOf[at[c].meta.key]  d == SaveFolder(c) IN
       /\ disk' = [disk EXCEPT ![f][d] = Written(c, Empty, FALSE)]
       /\ Becomes(c, [at[c] EXCEPT !.pc = "write", !.slot = "fin", !.folder = d])
  /\ UNCHANGED <<today, tmp, cacheVars, bounds, histVars>>

(* os.Create empties a temporary file that is there already.               *)
SaveCreate(c) ==
  /\ at[c].pc = "create"
  /\ LET f == FileOf[at[c].meta.key]  d == SaveFolder(c) IN
       /\ tmp' = [tmp EXCEPT ![f][d] = Written(c, Empty, FALSE)]
       /\ overlapped' = IF Sharing(c, f, d) # {} THEN overlapped \cup {f} ELSE overlapped
       /\ Becomes(c, [at[c] EXCEPT !.pc = "write", !.slot = "tmp", !.folder = d])
  /\ UNCHANGED <<today, disk, cacheVars, bounds, last, stored, callVars, astray>>

(* Write the lines.  Two writers of one file, each at its own offset, may  *)
(* leave a mixture.                                                        *)
SaveWrite(c) ==
  /\ at[c].pc = "write"
  /\ LET f == Path(c)[1]  d == Path(c)[2] IN
     \E whole \in BOOLEAN :
       /\ whole \/ \E e \in Sharing(c, f, d) : at[e].slot = at[c].slot
       /\ LET file == Written(c, at[c].data, whole) IN
            /\ tmp' = IF at[c].slot = "tmp" THEN [tmp EXCEPT ![f][d] = file] ELSE tmp
            /\ disk' = IF at[c].slot = "fin" THEN [disk EXCEPT ![f][d] = file] ELSE disk
  /\ GoTo(c, "rename")
  /\ UNCHANGED <<today, cacheVars, bounds, histVars>>

(* os.Rename moves whatever has the temporary name by now, if anything     *)
(* has.                                                                    *)
SaveRename(c) ==
  /\ at[c].pc = "rename"
  /\ LET f == Path(c)[1]  d == Path(c)[2] IN
       IF tmp[f][d] = None
       THEN Done(c) /\ UNCHANGED <<fileVars, last, stored>>
       ELSE /\ disk' = [disk EXCEPT ![f][d] = tmp[f][d]]
            /\ tmp' = [tmp EXCEPT ![f][d] = None]
            /\ last' = [last EXCEPT ![f] = tmp[f][d]]
            /\ stored' = [stored EXCEPT ![f] = IF at[c].op = "clear" THEN <<>>
                                              ELSE IF at[c].op = "store" THEN Append(@, turns)
                                              ELSE @]
            /\ at' = [e \in Workers |->
                 IF e = c THEN [at[c] EXCEPT !.pc = "index", !.slot = "none", !.data = None]
                 ELSE IF Open(e, f, d) /\ at[e].slot = "tmp"
                      THEN [at[e] EXCEPT !.slot = "fin"] ELSE Unlink(e, f, d)]
  /\ UNCHANGED <<today, cacheVars, bounds, callVars, astray, overlapped>>

SaveIndex(c) ==
  /\ at[c].pc = "index"
  /\ dateIndex' = [dateIndex EXCEPT ![at[c].meta.key] = at[c].folder]
  /\ metaCache' = [metaCache EXCEPT ![at[c].meta.key] = at[c].meta]
  /\ Done(c)
  /\ UNCHANGED <<today, fileVars, bounds, histVars>>

(* The directory, the temporary file or a line cannot be written; the      *)
(* callers ignore the error.                                               *)
SaveFails(c) ==
  /\ at[c].pc \in {"create", "write"}
  /\ Done(c)
  /\ UNCHANGED <<today, fileVars, cacheVars, bounds, histVars>>

-----------------------------------------------------------------------------
NextDay ==
  /\ today < MaxDay
  /\ today' = today + 1
  /\ UNCHANGED <<fileVars, cacheVars, at, bounds, histVars>>

(* The process dies and starts again: NewManager has empty caches, the     *)
(* files stay, temporary ones included.                                    *)
Restart ==
  /\ incidents < MaxIncidents
  /\ incidents' = incidents + 1
  /\ metaCache' = [k \in Keys |-> None] /\ dateIndex' = [k \in Keys |-> 0]
  /\ at' = [c \in Workers |-> Resting]
  /\ UNCHANGED <<today, fileVars, turns, histVars>>

Load(c) == MetaFind(c) \/ MetaOpen(c) \/ Install(c) \/ DataFind(c) \/ DataRead(c)
Save(c) == SaveCreate(c) \/ SaveWrite(c) \/ SaveRename(c) \/ SaveIndex(c) \/ SaveFails(c)

Next ==
  \/ \E c \in Workers : Load(c) \/ Save(c)
  \/ \E k \in Keys : Turn(k) \/ ClearCommand(k)
  \/ RunEnds \/ AddMessage \/ Clear
  \/ \E l \in Loggers : Log(l) \/ AddInstruction(l)
  \/ \E v \in Viewers : List(v) \/ GetMeta(v)
  \/ \E v \in Viewers, k \in Keys : Get(v, k)
  \/ \E k \in Keys : Delete(k)
  \/ NextDay \/ Restart

Spec == Init /\ [][Next]_vars

-----------------------------------------------------------------------------
Stages == {"idle", "lookup", "open", "install", "find", "read", "prompt", "store",
           "add", "wipe", "getmeta", "create", "write", "rename", "index"}
Ops == {"none", "turn", "store", "log", "clear", "get", "meta"}
Worker == [pc : Stages, op : Ops, key : Keys \cup {None}, meta : Meta \cup {None},
           data : Data \cup {None}, folder : Folders,
           slot : {"none", "tmp", "fin", "gone"}]

FilesOK == /\ disk \in [Files -> [Folders -> Content \cup {None}]]
           /\ tmp \in [Files -> [Folders -> Content \cup {None}]]
           /\ last \in [Files -> Content \cup {None}]
CachesOK == /\ metaCache \in [Keys -> Meta \cup {None}]
            /\ dateIndex \in [Keys -> Folders]
WorkersOK ==
  /\ at \in [Workers -> Worker]
  /\ \A c \in Workers :
       /\ at[c].pc # "idle" => at[c].key # None
       /\ at[c].pc \in {"install", "find", "read", "prompt", "store", "add", "wipe",
                        "create", "write", "rename", "index"} => at[c].meta # None
       /\ at[c].pc \in {"add", "wipe", "create", "write"} => at[c].data # None
CountersOK == /\ today \in Days /\ turns \in Nat /\ incidents \in Nat
              /\ stored \in [Files -> Seq(Nat)]
              /\ deleted \subseteq Files /\ respelled \subseteq Files
              /\ astray \subseteq Files /\ overlapped \subseteq Files

(* Shapes; and whoever loads or saves has metadata to do it with.          *)
TypeOK == FilesOK /\ CachesOK /\ WorkersOK /\ CountersOK

Seen(f, places) == IF places = {} THEN None ELSE disk[f][Min(places)]

(* What Delete of a session from an older version leaves behind: the file  *)
(* in the root, once a save has put a second one into a dated folder.      *)
LeftOver(f) == f \in deleted /\ disk[f][0] # None

(* A file of an older version that does not tell its day.                  *)
Undated(f) == disk[f][0] # None /\ disk[f][0].created = 0

(* A session's latest save is what everybody reads next, the running       *)
(* process through its index and a restarted one by searching the folders, *)
(* whatever day it is, wherever a crash hit a save, and with readers,      *)
(* /clear and Delete in between: the folder chosen by Save, the index and  *)
(* the search order agree.  Not so for a session that got metadata of a    *)
(* second day, which takes a /clear in the other spelling, a Delete or an  *)
(* old file without a header; midnight alone does not do it.               *)
LoadsLatest ==
  /\ \A f \in astray : f \in deleted \cup respelled \/ Undated(f)
  /\ \A f \in Files \ (astray \cup overlapped) : ~LeftOver(f) =>
       /\ Seen(f, Found(f)) = last[f]
       /\ \A k \in Keys : FileOf[k] = f => Seen(f, Located(k)) = last[f]

(* No session file is ever partial, crashes and failed writes included,    *)
(* unless two saves had its temporary file open at once; and only          *)
(* sub-agents side by side ever do.                                        *)
Whole ==
  /\ \A f \in Files, d \in Folders :
       /\ disk[f][d] # None /\ ~disk[f][d].whole => f \in overlapped
       /\ \A c, e \in Workers :
            Open(c, f, d) /\ Open(e, f, d) /\ c # e => {c, e} \subseteq Loggers

(* No message is lost: what is loaded next, in either spelling of the key, *)
(* ends in all the messages stored since the last /clear or Delete, in     *)
(* their order.  No save by a turn or by an instruction logger, however    *)
(* stale its Session object, after any crashes and with Delete at any      *)
(* time, drops one.                                                        *)
HistoryKept ==
  \A k \in Keys : LET f == FileOf[k]  file == Seen(f, Located(k)) IN
    f \notin astray \cup overlapped /\ stored[f] # <<>> =>
      file # None /\ IsSuffix(stored[f], file.data.msgs)
=============================================================================
